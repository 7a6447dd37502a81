-------------------------- MODULE GapBufferProofs --------------------------
(***************************************************************************)
(* The buffer's storage is sound for every size, chunk and set of markers. *)
(* A block is sound when its gap lies in the text, no marker lies in the   *)
(* gap and no junk in the text; every operation on a block (gap motion to  *)
(* any stop, growth, filling, widening) is shown to yield a sound block    *)
(* from a sound one, and the steps of the specification follow: they are   *)
(* those of BufferText, even where a buffer's own text is inserted in two  *)
(* pieces.  The last part is about the hints to redisplay that go with     *)
(* each step: the ends of the text that they name are as they were shown.  *)
(***************************************************************************)
EXTENDS RedisplayHints, TLAPS

Sound(b) ==
  /\ Block(b)
  /\ 1 <= b.gpt /\ b.gpt <= b.z
  /\ \A m \in Marker : OutsideGap(b, m)
  /\ \A p \in 1 .. b.z - 1 : FetchChar(b, p) # Junk

IsString(s) == Len(s) \in Nat /\ s \in [1 .. Len(s) -> Char]

\* c is b with its gap elsewhere or larger: nothing Lisp could notice.
SameText(b, c) ==
  /\ Sound(c)
  /\ c.z = b.z
  /\ TextOf(c) = TextOf(b)
  /\ \A m \in Marker : MarkerPosition(c, m) = MarkerPosition(b, m)
-----------------------------------------------------------------------------
\* gap_left leaves a sound block with the gap where it stopped.
LEMMA GapLeftSound ==
  ASSUME NEW b, Sound(b), NEW stop \in 1 .. b.gpt
  PROVE  /\ SameText(b, GapLeft(b, stop))
         /\ GapLeft(b, stop).gpt = stop
         /\ GapLeft(b, stop).gap = b.gap
<1> DEFINE c == GapLeft(b, stop)
<1> USE GapBufferAssumption
<1>1. /\ c.gpt = stop /\ c.gap = b.gap /\ c.z = b.z
      /\ c.bufpos = AdjustMarkers(b.bufpos, stop, b.gpt, b.gap)
      /\ c.mem = [a \in Indices(b) |->
                    IF stop + b.gap <= a /\ a < b.gpt + b.gap
                    THEN b.mem[a - b.gap] ELSE b.mem[a]]
      /\ c = [mem |-> c.mem, gpt |-> c.gpt, gap |-> c.gap, z |-> c.z,
              bufpos |-> c.bufpos]
  BY DEF GapLeft
<1>2. /\ b.gpt \in Nat /\ b.gap \in Nat /\ b.z \in Nat
      /\ b.mem \in [Indices(b) -> Char \cup {Junk}]
      /\ b.bufpos \in [Marker -> Nat \cup {Nowhere}]
      /\ stop \in Nat /\ 1 <= stop /\ stop <= b.gpt /\ b.gpt <= b.z
  BY DEF Sound, Block, Indices
<1> HIDE DEF c
<1>3. c.mem \in [Indices(b) -> Char \cup {Junk}]
  <2>1. ASSUME NEW a \in Indices(b), stop + b.gap <= a
        PROVE  a - b.gap \in Indices(b)
    BY <1>2, <2>1 DEF Indices
  <2>. QED  BY <1>1, <1>2, <2>1
<1>4. c.bufpos \in [Marker -> Nat \cup {Nowhere}]
  <2>1. ASSUME NEW m \in Marker, b.bufpos[m] # Nowhere
        PROVE  Adjusted(b.bufpos[m], stop, b.gpt, b.gap) \in Nat
    <3>1. b.bufpos[m] \in Nat
      BY <1>2, <2>1
    <3>. QED  BY <1>2, <3>1 DEF Adjusted
  <2>. QED  BY <1>1, <1>2, <2>1 DEF AdjustMarkers
<1>5. Block(c)
  BY <1>1, <1>2, <1>3, <1>4 DEF Block, Indices
<1>6. ASSUME NEW p \in 1 .. b.z - 1
      PROVE  FetchChar(c, p) = FetchChar(b, p)
  <2>1. /\ CharIndex(c, p) = IF p >= stop THEN p + b.gap ELSE p
        /\ CharIndex(b, p) = IF p >= b.gpt THEN p + b.gap ELSE p
    BY <1>1 DEF CharIndex
  <2>2. /\ p \in Int /\ (p + b.gap) - b.gap = p
        /\ CharIndex(c, p) \in Indices(b)
    BY <1>2, <2>1 DEF Indices
  <2>3. c.mem[CharIndex(c, p)] = b.mem[CharIndex(b, p)]
    BY <1>1, <1>2, <2>1, <2>2
  <2>. QED  BY <2>3 DEF FetchChar
<1>7. ASSUME NEW m \in Marker
      PROVE  OutsideGap(c, m) /\ MarkerPosition(c, m) = MarkerPosition(b, m)
  <2>1. OutsideGap(b, m)
    BY DEF Sound
  <2>2. c.bufpos[m] = IF b.bufpos[m] = Nowhere THEN Nowhere
                      ELSE Adjusted(b.bufpos[m], stop, b.gpt, b.gap)
    BY <1>1 DEF AdjustMarkers
  <2>3. CASE b.bufpos[m] = Nowhere
    BY <1>1, <2>2, <2>3 DEF OutsideGap, MarkerPosition
  <2>4. CASE b.bufpos[m] # Nowhere
    <3>1. b.bufpos[m] \in Nat
      BY <1>2, <2>4
    <3>. QED
      <4>1. c.bufpos[m] = Adjusted(b.bufpos[m], stop, b.gpt, b.gap)
            /\ b.bufpos[m] # Nowhere
        BY <2>2, <2>4
      <4>2. \/ b.bufpos[m] <= b.gpt /\ 1 <= b.bufpos[m]
            \/ b.gpt + b.gap < b.bufpos[m] /\ b.bufpos[m] <= b.z + b.gap
        BY <2>1, <4>1 DEF OutsideGap
      <4>3. /\ MarkerPosition(b, m) = IF b.bufpos[m] <= b.gpt THEN b.bufpos[m]
                                      ELSE b.bufpos[m] - b.gap
        BY <1>2, <3>1, <4>1, <4>2 DEF MarkerPosition
      <4>4. \/ /\ b.bufpos[m] <= stop /\ c.bufpos[m] = b.bufpos[m]
            \/ /\ stop < b.bufpos[m] /\ b.bufpos[m] <= b.gpt
               /\ c.bufpos[m] = b.bufpos[m] + b.gap
            \/ /\ b.gpt + b.gap < b.bufpos[m] /\ c.bufpos[m] = b.bufpos[m]
        BY <1>2, <3>1, <4>1, <4>2 DEF Adjusted
      <4>5. OutsideGap(c, m)
        BY <1>1, <1>2, <3>1, <4>2, <4>4 DEF OutsideGap
      <4>6. c.bufpos[m] \in Nat /\ c.bufpos[m] # Nowhere
        BY <1>2, <3>1, <4>4
      <4>7. MarkerPosition(c, m) = IF c.bufpos[m] <= stop THEN c.bufpos[m]
                                   ELSE c.bufpos[m] - b.gap
        BY <1>1, <1>2, <3>1, <4>2, <4>4, <4>6 DEF MarkerPosition
      <4>8. MarkerPosition(c, m) = MarkerPosition(b, m)
        BY <1>2, <3>1, <4>2, <4>3, <4>4, <4>7
      <4>. QED  BY <4>5, <4>8
  <2>. QED  BY <2>3, <2>4
<1>8. TextOf(c) = TextOf(b)
  BY <1>1, <1>6 DEF TextOf
<1>9. Sound(c)
  BY <1>1, <1>2, <1>5, <1>6, <1>7 DEF Sound
<1>. QED
  BY <1>1, <1>7, <1>8, <1>9 DEF SameText, c

\* gap_right likewise.
LEMMA GapRightSound ==
  ASSUME NEW b, Sound(b), NEW stop \in b.gpt .. b.z
  PROVE  /\ SameText(b, GapRight(b, stop))
         /\ GapRight(b, stop).gpt = stop
         /\ GapRight(b, stop).gap = b.gap
<1> DEFINE c == GapRight(b, stop)
<1> USE GapBufferAssumption
<1>1. /\ c.gpt = stop /\ c.gap = b.gap /\ c.z = b.z
      /\ c.bufpos = AdjustMarkers(b.bufpos, b.gpt + b.gap, stop + b.gap,
                                  - b.gap)
      /\ c.mem = [a \in Indices(b) |->
                    IF b.gpt <= a /\ a < stop
                    THEN b.mem[a + b.gap] ELSE b.mem[a]]
      /\ c = [mem |-> c.mem, gpt |-> c.gpt, gap |-> c.gap, z |-> c.z,
              bufpos |-> c.bufpos]
  BY DEF GapRight
<1>2. /\ b.gpt \in Nat /\ b.gap \in Nat /\ b.z \in Nat
      /\ b.mem \in [Indices(b) -> Char \cup {Junk}]
      /\ b.bufpos \in [Marker -> Nat \cup {Nowhere}]
      /\ stop \in Nat /\ b.gpt <= stop /\ stop <= b.z /\ 1 <= b.gpt
  BY DEF Sound, Block, Indices
<1> HIDE DEF c
<1>3. c.mem \in [Indices(b) -> Char \cup {Junk}]
  <2>1. ASSUME NEW a \in Indices(b), a < stop
        PROVE  a + b.gap \in Indices(b)
    BY <1>2, <2>1 DEF Indices
  <2>. QED  BY <1>1, <1>2, <2>1
<1>4. c.bufpos \in [Marker -> Nat \cup {Nowhere}]
  <2>1. ASSUME NEW m \in Marker, b.bufpos[m] # Nowhere
        PROVE  Adjusted(b.bufpos[m], b.gpt + b.gap, stop + b.gap, - b.gap)
                 \in Nat
    <3>1. b.bufpos[m] \in Nat
      BY <1>2, <2>1
    <3>. QED  BY <1>2, <3>1 DEF Adjusted
  <2>. QED  BY <1>1, <1>2, <2>1 DEF AdjustMarkers
<1>5. Block(c)
  BY <1>1, <1>2, <1>3, <1>4 DEF Block, Indices
<1>6. ASSUME NEW p \in 1 .. b.z - 1
      PROVE  FetchChar(c, p) = FetchChar(b, p)
  <2>1. /\ CharIndex(c, p) = IF p >= stop THEN p + b.gap ELSE p
        /\ CharIndex(b, p) = IF p >= b.gpt THEN p + b.gap ELSE p
    BY <1>1 DEF CharIndex
  <2>2. /\ p \in Int
        /\ CharIndex(c, p) \in Indices(b)
    BY <1>2, <2>1 DEF Indices
  <2>3. c.mem[CharIndex(c, p)] = b.mem[CharIndex(b, p)]
    BY <1>1, <1>2, <2>1, <2>2
  <2>. QED  BY <2>3 DEF FetchChar
<1>7. ASSUME NEW m \in Marker
      PROVE  OutsideGap(c, m) /\ MarkerPosition(c, m) = MarkerPosition(b, m)
  <2>1. OutsideGap(b, m)
    BY DEF Sound
  <2>2. c.bufpos[m] = IF b.bufpos[m] = Nowhere THEN Nowhere
                      ELSE Adjusted(b.bufpos[m], b.gpt + b.gap,
                                    stop + b.gap, - b.gap)
    BY <1>1 DEF AdjustMarkers
  <2>3. CASE b.bufpos[m] = Nowhere
    BY <1>1, <2>2, <2>3 DEF OutsideGap, MarkerPosition
  <2>4. CASE b.bufpos[m] # Nowhere
    <3>1. b.bufpos[m] \in Nat
      BY <1>2, <2>4
    <3>. QED
      BY <1>1, <1>2, <2>1, <2>2, <2>4, <3>1
      DEF OutsideGap, MarkerPosition, Adjusted
  <2>. QED  BY <2>3, <2>4
<1>8. TextOf(c) = TextOf(b)
  BY <1>1, <1>6 DEF TextOf
<1>9. Sound(c)
  BY <1>1, <1>2, <1>5, <1>6, <1>7 DEF Sound
<1>. QED
  BY <1>1, <1>7, <1>8, <1>9 DEF SameText, c

\* The gap may be moved anywhere in the text.
LEMMA MoveGapSound ==
  ASSUME NEW b, Sound(b), NEW stop \in 1 .. b.z
  PROVE  /\ SameText(b, MoveGap(b, stop))
         /\ MoveGap(b, stop).gpt = stop
         /\ MoveGap(b, stop).gap = b.gap
<1>1. b.gpt \in Nat /\ b.z \in Nat /\ 1 <= b.gpt /\ b.gpt <= b.z
  BY DEF Sound, Block
<1>2. CASE stop < b.gpt
  BY <1>1, <1>2, GapLeftSound DEF MoveGap
<1>3. CASE stop > b.gpt
  BY <1>1, <1>3, GapRightSound DEF MoveGap
<1>4. CASE stop = b.gpt
  BY <1>1, <1>4 DEF MoveGap, SameText
<1>. QED  BY <1>1, <1>2, <1>3, <1>4

\* make_gap grows the gap in place by at least what was asked for.
LEMMA MakeGapSound ==
  ASSUME NEW b, Sound(b), NEW request \in Nat
  PROVE  /\ SameText(b, MakeGap(b, request))
         /\ MakeGap(b, request).gpt = b.gpt
         /\ MakeGap(b, request).gap = b.gap + request + Extra
<1> DEFINE c == MakeGap(b, request)
           inc == request + Extra
           old == b.gpt + b.gap
<1> USE GapBufferAssumption
<1>1. /\ b.gpt \in Nat /\ b.gap \in Nat /\ b.z \in Nat
      /\ b.mem \in [Indices(b) -> Char \cup {Junk}]
      /\ b.bufpos \in [Marker -> Nat \cup {Nowhere}]
      /\ 1 <= b.gpt /\ b.gpt <= b.z
  BY DEF Sound, Block, Indices
<1>2. inc \in Nat
  OBVIOUS
<1> DEFINE grown == [a \in 1 .. b.z - 1 + b.gap + inc |->
                       IF a <= b.z - 1 + b.gap THEN b.mem[a] ELSE Junk]
<1>3. /\ c.gpt = b.gpt /\ c.gap = inc + b.gap /\ c.z = b.z
      /\ c.bufpos = AdjustMarkers(b.bufpos, old, b.z + b.gap, inc)
      /\ c.mem = [a \in 1 .. (b.z + b.gap) - 1 + inc |->
                    IF old + inc <= a /\ a < (b.z + b.gap) + inc
                    THEN grown[a - inc] ELSE grown[a]]
      /\ c = [mem |-> c.mem, gpt |-> c.gpt, gap |-> c.gap, z |-> c.z,
              bufpos |-> c.bufpos]
  <2> DEFINE g == [mem |-> grown, gpt |-> b.z + b.gap, gap |-> inc,
                   z |-> b.z + b.gap, bufpos |-> b.bufpos]
  <2>1. c = [mem |-> GapLeft(g, old).mem, gpt |-> b.gpt, gap |-> inc + b.gap,
             z |-> b.z, bufpos |-> GapLeft(g, old).bufpos]
    BY DEF MakeGap
  <2>2. Indices(g) = 1 .. (b.z + b.gap) - 1 + inc
    BY DEF Indices
  <2>3. /\ GapLeft(g, old).bufpos
              = AdjustMarkers(b.bufpos, old, b.z + b.gap, inc)
        /\ GapLeft(g, old).mem
              = [a \in Indices(g) |->
                   IF old + inc <= a /\ a < (b.z + b.gap) + inc
                   THEN grown[a - inc] ELSE grown[a]]
    BY DEF GapLeft
  <2> HIDE DEF g, c, grown
  <2>. QED  BY <2>1, <2>2, <2>3
<1> HIDE DEF c, inc
<1>4. grown \in [1 .. b.z - 1 + b.gap + inc -> Char \cup {Junk}]
  BY <1>1, <1>2 DEF Indices
<1>5. \A a \in Indices(b) : grown[a] = b.mem[a]
  BY <1>1, <1>2 DEF Indices
<1> HIDE DEF grown
<1>6. Indices(c) = 1 .. b.z - 1 + b.gap + inc
  BY <1>1, <1>2, <1>3 DEF Indices
<1>7. c.mem \in [Indices(c) -> Char \cup {Junk}]
  <2>1. (b.z + b.gap) - 1 + inc = b.z - 1 + b.gap + inc
    BY <1>1, <1>2
  <2>2. ASSUME NEW a \in Indices(c), old + inc <= a
        PROVE  a - inc \in Indices(c)
    BY <1>1, <1>2, <1>6, <2>2
  <2>. QED  BY <1>3, <1>4, <1>6, <2>1, <2>2
<1>8. c.bufpos \in [Marker -> Nat \cup {Nowhere}]
  <2>1. ASSUME NEW m \in Marker, b.bufpos[m] # Nowhere
        PROVE  Adjusted(b.bufpos[m], old, b.z + b.gap, inc) \in Nat
    <3>1. b.bufpos[m] \in Nat
      BY <1>1, <2>1
    <3>. QED  BY <1>1, <1>2, <3>1 DEF Adjusted
  <2>. QED  BY <1>1, <1>3, <2>1 DEF AdjustMarkers
<1>9. Block(c)
  <2>1. c.gap \in Nat
    BY <1>1, <1>2, <1>3, SMTT(20)
  <2>. QED  BY <1>1, <1>3, <1>7, <1>8, <2>1 DEF Block, Indices
<1>10. ASSUME NEW p \in 1 .. b.z - 1
       PROVE  FetchChar(c, p) = FetchChar(b, p)
  <2>1. /\ CharIndex(c, p) = IF p >= b.gpt THEN p + (inc + b.gap) ELSE p
        /\ CharIndex(b, p) = IF p >= b.gpt THEN p + b.gap ELSE p
    BY <1>3 DEF CharIndex
  <2>2. CharIndex(b, p) \in Indices(b)
    BY <1>1, <2>1 DEF Indices
  <2>3. c.mem[CharIndex(c, p)] = grown[CharIndex(b, p)]
    <3>1. CASE p >= b.gpt
      <4>1. /\ p + (inc + b.gap) \in 1 .. (b.z + b.gap) - 1 + inc
            /\ old + inc <= p + (inc + b.gap)
            /\ p + (inc + b.gap) < (b.z + b.gap) + inc
            /\ (p + (inc + b.gap)) - inc = p + b.gap
        BY <1>1, <1>2, <3>1
      <4>. QED  BY <1>3, <2>1, <3>1, <4>1
    <3>2. CASE ~ (p >= b.gpt)
      <4>1. /\ p \in 1 .. (b.z + b.gap) - 1 + inc
            /\ ~ (old + inc <= p)
        BY <1>1, <1>2, <3>2
      <4>. QED  BY <1>3, <2>1, <3>2, <4>1
    <3>. QED  BY <3>1, <3>2
  <2>. QED  BY <1>5, <2>2, <2>3 DEF FetchChar
<1>11. ASSUME NEW m \in Marker
       PROVE  OutsideGap(c, m) /\ MarkerPosition(c, m) = MarkerPosition(b, m)
  <2>1. OutsideGap(b, m)
    BY DEF Sound
  <2>2. c.bufpos[m] = IF b.bufpos[m] = Nowhere THEN Nowhere
                      ELSE Adjusted(b.bufpos[m], old, b.z + b.gap, inc)
    BY <1>3 DEF AdjustMarkers
  <2>3. CASE b.bufpos[m] = Nowhere
    BY <1>3, <2>2, <2>3 DEF OutsideGap, MarkerPosition
  <2>4. CASE b.bufpos[m] # Nowhere
    <3>1. b.bufpos[m] \in Nat
      BY <1>1, <2>4
    <3>0. c.gpt = b.gpt /\ c.gap = inc + b.gap /\ c.z = b.z
      BY <1>3
    <3>2. CASE b.bufpos[m] <= b.gpt
      <4>1. c.bufpos[m] = b.bufpos[m]
        BY <1>1, <1>2, <2>2, <2>4, <3>1, <3>2 DEF Adjusted
      <4>2. OutsideGap(c, m)
        BY <1>1, <1>2, <2>1, <2>4, <3>0, <3>1, <3>2, <4>1 DEF OutsideGap
      <4>3. MarkerPosition(c, m) = b.bufpos[m]
        BY <1>1, <1>2, <2>4, <3>0, <3>1, <3>2, <4>1 DEF MarkerPosition
      <4>4. MarkerPosition(b, m) = b.bufpos[m]
        BY <1>1, <2>4, <3>1, <3>2 DEF MarkerPosition
      <4>. QED  BY <4>2, <4>3, <4>4
    <3>3. CASE ~ (b.bufpos[m] <= b.gpt)
      <4>1. old < b.bufpos[m] /\ b.bufpos[m] <= b.z + b.gap
        BY <1>1, <2>1, <2>4, <3>1, <3>3 DEF OutsideGap
      <4>2. c.bufpos[m] = b.bufpos[m] + inc
        BY <1>1, <1>2, <2>2, <2>4, <3>1, <4>1 DEF Adjusted
      <4>3. OutsideGap(c, m)
        BY <1>1, <1>2, <2>4, <3>0, <3>1, <4>1, <4>2 DEF OutsideGap
      <4>4. MarkerPosition(c, m) = b.bufpos[m] - b.gap
        BY <1>1, <1>2, <2>4, <3>0, <3>1, <4>1, <4>2 DEF MarkerPosition
      <4>5. MarkerPosition(b, m) = b.bufpos[m] - b.gap
        BY <1>1, <2>4, <3>1, <4>1 DEF MarkerPosition
      <4>. QED  BY <4>3, <4>4, <4>5
    <3>. QED  BY <3>2, <3>3
  <2>. QED  BY <2>3, <2>4
<1>12. TextOf(c) = TextOf(b)
  BY <1>3, <1>10 DEF TextOf
<1>13. Sound(c)
  BY <1>1, <1>3, <1>9, <1>10, <1>11 DEF Sound
<1>14. inc + b.gap = b.gap + request + Extra
  BY <1>1 DEF inc
<1>. QED
  BY <1>3, <1>11, <1>12, <1>13, <1>14 DEF SameText, c

\* insert's preparation: the gap at point and large enough.
LEMMA RoomAtSound ==
  ASSUME NEW b, Sound(b), NEW p \in 1 .. b.z, NEW n \in Nat
  PROVE  /\ SameText(b, RoomAt(b, p, n))
         /\ RoomAt(b, p, n).gpt = p
         /\ RoomAt(b, p, n).gap >= n
<1> DEFINE moved == MoveGap(b, p)
<1>1. SameText(b, moved) /\ moved.gpt = p
  BY MoveGapSound
<1>2. Sound(moved) /\ moved.gap \in Nat /\ Extra \in Nat
  BY <1>1, GapBufferAssumption DEF SameText, Sound, Block
<1> HIDE DEF moved
<1>3. RoomAt(b, p, n) = IF moved.gap < n THEN MakeGap(moved, n - moved.gap)
                        ELSE moved
  BY DEF RoomAt, moved
<1>4. CASE moved.gap < n
  <2>1. n - moved.gap \in Nat
    BY <1>2, <1>4
  <2> DEFINE c == MakeGap(moved, n - moved.gap)
  <2>2. /\ SameText(moved, c) /\ c.gpt = p
        /\ c.gap = moved.gap + (n - moved.gap) + Extra
    BY <1>1, <1>2, <2>1, MakeGapSound
  <2> HIDE DEF c
  <2>3. c.gap >= n
    BY <1>2, <2>2
  <2>4. RoomAt(b, p, n) = c
    BY <1>3, <1>4 DEF c
  <2>. QED  BY <1>1, <2>2, <2>3, <2>4 DEF SameText
<1>5. CASE ~ (moved.gap < n)
  BY <1>1, <1>2, <1>3, <1>5
<1>. QED  BY <1>4, <1>5

\* A string to insert is a sequence of its own length.
LEMMA StringLength ==
  ASSUME NEW s \in Strings
  PROVE  /\ Len(s) \in Nat /\ Len(s) >= 1 /\ s \in [1 .. Len(s) -> Char]
         /\ s \in Seq(Char) /\ IsString(s)
<1>1. PICK n \in 1 .. MaxInsert : s \in [1 .. n -> Char]
  BY DEF Strings
<1>2. n \in Nat /\ n >= 1
  BY GapBufferAssumption
<1>3. s \in Seq(Char) /\ Len(s) = n
  BY <1>1, <1>2
<1>. QED  BY <1>1, <1>2, <1>3 DEF IsString

\* bcopy into the gap: the string is now text, before the rest of the gap.
LEMMA FillGapSound ==
  ASSUME NEW b, Sound(b), NEW s, IsString(s), b.gap >= Len(s)
  PROVE  /\ Sound(FillGap(b, s))
         /\ FillGap(b, s).z = b.z + Len(s)
         /\ TextOf(FillGap(b, s)) = Lisp!Spliced(TextOf(b), b.gpt, s)
         /\ \A m \in Marker : MarkerPosition(FillGap(b, s), m) =
              IF MarkerPosition(b, m) # Nowhere /\ MarkerPosition(b, m) > b.gpt
              THEN MarkerPosition(b, m) + Len(s) ELSE MarkerPosition(b, m)
<1> DEFINE c == FillGap(b, s)
           n == Len(s)
<1> USE GapBufferAssumption
<1>1. /\ c.gpt = b.gpt + n /\ c.gap = b.gap - n /\ c.z = b.z + n
      /\ c.bufpos = b.bufpos
  BY DEF FillGap
<1>2. c.mem = [a \in Indices(b) |->
                 IF b.gpt <= a /\ a < b.gpt + n
                 THEN s[a - b.gpt + 1] ELSE b.mem[a]]
  BY DEF FillGap
<1>3. c = [mem |-> c.mem, gpt |-> c.gpt, gap |-> c.gap, z |-> c.z,
           bufpos |-> c.bufpos]
  BY DEF FillGap
<1>4. /\ b.gpt \in Nat /\ b.gap \in Nat /\ b.z \in Nat
      /\ b.bufpos \in [Marker -> Nat \cup {Nowhere}]
      /\ 1 <= b.gpt /\ b.gpt <= b.z
  BY DEF Sound, Block
<1>5. b.mem \in [Indices(b) -> Char \cup {Junk}]
  BY DEF Sound, Block, Indices
<1>6. n \in Nat /\ b.gap >= n
  BY DEF IsString
<1>6a. s \in [1 .. n -> Char]
  BY DEF IsString
<1>6b. b.gpt \in Nat /\ b.gap \in Nat /\ b.z \in Nat /\ 1 <= b.gpt /\ b.gpt <= b.z
  BY <1>4
<1> HIDE DEF c, n
<1>7. Indices(c) = Indices(b)
  BY <1>1, <1>4, <1>6 DEF Indices
<1>8. c.mem \in [Indices(b) -> Char \cup {Junk}]
  <2>1. ASSUME NEW a \in Indices(b), b.gpt <= a, a < b.gpt + n
        PROVE  s[a - b.gpt + 1] \in Char
    <3>1. a - b.gpt + 1 \in 1 .. n
      BY <1>4, <1>6, <2>1 DEF Indices
    <3>. QED  BY <1>6a, <3>1
  <2>. QED  BY <1>2, <1>5, <2>1
<1>9. Block(c)
  <2>1. c.gpt \in Nat /\ c.gap \in Nat /\ c.z \in Nat
    BY <1>1, <1>4, <1>6, SMTT(20)
  <2>2. c.mem \in [1 .. c.z - 1 + c.gap -> Char \cup {Junk}]
    BY <1>7, <1>8 DEF Indices
  <2>. QED  BY <1>1, <1>3, <1>4, <2>1, <2>2 DEF Block
<1>10. ASSUME NEW p \in 1 .. c.z - 1
       PROVE  FetchChar(c, p) =
                IF p < b.gpt THEN FetchChar(b, p)
                ELSE IF p < b.gpt + n THEN s[p - b.gpt + 1]
                     ELSE FetchChar(b, p - n)
  <2>1. CharIndex(c, p) = IF p >= b.gpt + n THEN p + (b.gap - n) ELSE p
    BY <1>1 DEF CharIndex
  <2>2. CASE p < b.gpt
    <3>1. CharIndex(c, p) = p /\ CharIndex(b, p) = p /\ p \in Indices(b)
      BY <1>1, <1>4, <1>6, <2>1, <2>2, SMTT(20) DEF CharIndex, Indices
    <3>. QED  BY <1>2, <1>4, <2>2, <3>1 DEF FetchChar
  <2>3. CASE b.gpt <= p /\ p < b.gpt + n
    <3>1. CharIndex(c, p) = p /\ p \in Indices(b) /\ ~ (p < b.gpt)
      BY <1>1, <1>4, <1>6, <2>1, <2>3, SMTT(20) DEF Indices
    <3>. QED  BY <1>2, <2>3, <3>1 DEF FetchChar
  <2>4. CASE b.gpt + n <= p
    <3>1. /\ CharIndex(c, p) = p + (b.gap - n)
          /\ p + (b.gap - n) = (p - n) + b.gap
          /\ p + (b.gap - n) \in Indices(b)
          /\ ~ (p + (b.gap - n) < b.gpt + n)
          /\ ~ (p < b.gpt) /\ ~ (p < b.gpt + n)
      <4>1. p <= b.z + n - 1 /\ ~ (p < b.gpt)
        BY <1>1, <1>6, <1>6b, <2>4
      <4>2. p + (b.gap - n) = (p - n) + b.gap
        BY <1>1, <1>6, <1>6b
      <4>. QED  BY <1>6, <1>6b, <2>1, <2>4, <4>1, <4>2, SMTT(20) DEF Indices
    <3>2. CharIndex(b, p - n) = (p - n) + b.gap
      BY <1>4, <1>6, <2>4 DEF CharIndex
    <3>. QED  BY <1>2, <3>1, <3>2 DEF FetchChar
  <2>. QED  BY <1>1, <1>4, <1>6, <2>2, <2>3, <2>4
<1>11. TextOf(c) = Lisp!Spliced(TextOf(b), b.gpt, s)
  <2>1. /\ TextOf(b) = [p \in 1 .. b.z - 1 |-> FetchChar(b, p)]
        /\ TextOf(c) = [p \in 1 .. c.z - 1 |-> FetchChar(c, p)]
    BY DEF TextOf
  <2>2. Len(TextOf(b)) = b.z - 1
    BY <1>4, <2>1
  <2>3. Len(TextOf(b)) + Len(s) = c.z - 1
    BY <1>1, <1>4, <1>6, <2>2 DEF n
  <2>4. ASSUME NEW p \in 1 .. c.z - 1
        PROVE  FetchChar(c, p) =
                 IF p < b.gpt THEN TextOf(b)[p]
                 ELSE IF p < b.gpt + Len(s) THEN s[p - b.gpt + 1]
                      ELSE TextOf(b)[p - Len(s)]
    <3>1. p < b.gpt => p \in 1 .. b.z - 1
      BY <1>4
    <3>2. ~ (p < b.gpt + n) => p - n \in 1 .. b.z - 1
      BY <1>1, <1>4, <1>6, SMTT(20)
    <3>. QED  BY <1>10, <2>1, <3>1, <3>2, <1>4, <1>6 DEF n
  <2>. QED  BY <2>1, <2>3, <2>4 DEF Lisp!Spliced
<1>12. ASSUME NEW m \in Marker
       PROVE  /\ OutsideGap(c, m)
              /\ MarkerPosition(c, m) =
                   IF MarkerPosition(b, m) # Nowhere
                      /\ MarkerPosition(b, m) > b.gpt
                   THEN MarkerPosition(b, m) + n ELSE MarkerPosition(b, m)
  <2>1. OutsideGap(b, m)
    BY DEF Sound
  <2>2. CASE b.bufpos[m] = Nowhere
    BY <1>1, <2>2 DEF OutsideGap, MarkerPosition
  <2>3. CASE b.bufpos[m] # Nowhere
    <3>1. b.bufpos[m] \in Nat
      BY <1>4, <2>3
    <3>2. OutsideGap(c, m)
      BY <1>1, <1>4, <1>6, <2>1, <2>3, <3>1, SMTT(20) DEF OutsideGap
    <3>3. MarkerPosition(b, m) =
            IF b.bufpos[m] <= b.gpt THEN b.bufpos[m] ELSE b.bufpos[m] - b.gap
      BY <1>4, <2>1, <2>3, <3>1, SMTT(20) DEF OutsideGap, MarkerPosition
    <3>4. MarkerPosition(c, m) =
            IF b.bufpos[m] <= b.gpt THEN b.bufpos[m]
            ELSE b.bufpos[m] - (b.gap - n)
      <4> DEFINE i == b.bufpos[m]
      <4>1. /\ i \in Nat /\ c.bufpos[m] = i /\ i # Nowhere
            /\ \/ i <= b.gpt
               \/ b.gpt + b.gap < i
        BY <1>1, <2>1, <2>3, <3>1 DEF OutsideGap
      <4>2. c.gpt + c.gap = b.gpt + b.gap /\ c.gpt = b.gpt + n /\ c.gap = b.gap - n
        BY <1>1, <1>6, <1>6b
      <4> HIDE DEF i
      <4>3. CASE i <= b.gpt
        <5>1. ~ (i > c.gpt) /\ ~ (i > c.gpt + c.gap)
          BY <1>6, <1>6b, <4>1, <4>2, <4>3
        <5>. QED  BY <4>1, <4>3, <5>1 DEF MarkerPosition, i
      <4>4. CASE b.gpt + b.gap < i
        <5>1. /\ i > c.gpt + c.gap /\ ~ (i <= c.gpt + c.gap)
              /\ ~ (i <= b.gpt) /\ i > c.gpt /\ i - c.gap = i - (b.gap - n)
          BY <1>6, <1>6b, <4>1, <4>2, <4>4
        <5>. QED  BY <4>1, <4>2, <4>4, <5>1 DEF MarkerPosition, i
      <4>. QED  BY <4>1, <4>3, <4>4
    <3>. QED
      BY <1>4, <1>6, <2>1, <2>3, <3>1, <3>2, <3>3, <3>4, SMTT(20) DEF OutsideGap
  <2>. QED  BY <2>2, <2>3
<1>13. ASSUME NEW p \in 1 .. c.z - 1
       PROVE  FetchChar(c, p) # Junk
  <2>1. ASSUME NEW q \in 1 .. b.z - 1
        PROVE  FetchChar(b, q) # Junk
    BY DEF Sound
  <2>2. CASE p < b.gpt
    <3>1. p \in 1 .. b.z - 1
      BY <1>4, <2>2
    <3>. QED  BY <1>10, <2>1, <2>2, <3>1
  <2>3. CASE ~ (p < b.gpt) /\ p < b.gpt + n
    <3>1. p - b.gpt + 1 \in 1 .. n
      BY <1>4, <1>6, <2>3
    <3>. QED  BY <1>6a, <1>10, <2>3, <3>1
  <2>4. CASE ~ (p < b.gpt) /\ ~ (p < b.gpt + n)
    <3>1. p - n \in 1 .. b.z - 1
      BY <1>1, <1>4, <1>6, <2>4, SMTT(20)
    <3>. QED  BY <1>10, <2>1, <2>4, <3>1
  <2>. QED  BY <2>2, <2>3, <2>4
<1>14. Sound(c)
  <2>1. 1 <= c.gpt /\ c.gpt <= c.z
    BY <1>1, <1>4, <1>6
  <2>. QED  BY <1>9, <1>12, <1>13, <2>1 DEF Sound
<1>. QED
  BY <1>1, <1>11, <1>12, <1>14 DEF c, n

\* del_range's preparation: the gap inside what is to be deleted or next to it.
LEMMA GapNearSound ==
  ASSUME NEW b, Sound(b), NEW from \in Nat, NEW to \in Nat,
         1 <= from, from <= to, to <= b.z
  PROVE  /\ SameText(b, GapNear(b, from, to))
         /\ from <= GapNear(b, from, to).gpt
         /\ GapNear(b, from, to).gpt <= to
<1> DEFINE right == IF from > b.gpt THEN GapRight(b, from) ELSE b
<1>1. b.gpt \in Nat /\ b.z \in Nat /\ 1 <= b.gpt /\ b.gpt <= b.z
  BY DEF Sound, Block
<1>2. SameText(b, right) /\ from <= right.gpt
  <2>1. CASE from > b.gpt
    <3>1. from \in b.gpt .. b.z
      BY <1>1, <2>1
    <3>. QED  BY <2>1, <3>1, GapRightSound
  <2>2. CASE ~ (from > b.gpt)
    BY <1>1, <2>2 DEF SameText
  <2>. QED  BY <2>1, <2>2
<1>3. Sound(right) /\ right.gpt \in Nat
  BY <1>2 DEF SameText, Sound, Block
<1>4. GapNear(b, from, to) = IF to < right.gpt THEN GapLeft(right, to)
                             ELSE right
  BY DEF GapNear
<1> HIDE DEF right
<1>5. CASE to < right.gpt
  <2>1. to \in 1 .. right.gpt
    BY <1>3, <1>5
  <2>2. SameText(right, GapLeft(right, to)) /\ GapLeft(right, to).gpt = to
    BY <1>3, <2>1, GapLeftSound
  <2>. QED  BY <1>2, <1>4, <1>5, <2>2 DEF SameText
<1>6. CASE ~ (to < right.gpt)
  BY <1>2, <1>3, <1>4, <1>6
<1>. QED  BY <1>5, <1>6

\* The gap swallows from..to-1: that text is cut, and markers in it end up
\* at its beginning.
LEMMA WidenGapSound ==
  ASSUME NEW b, Sound(b), NEW from \in Nat, NEW to \in Nat,
         1 <= from, from < to, to <= b.z, from <= b.gpt, b.gpt <= to
  PROVE  /\ Sound(WidenGap(b, from, to))
         /\ WidenGap(b, from, to).z = b.z - (to - from)
         /\ TextOf(WidenGap(b, from, to)) = Lisp!Cut(TextOf(b), from, to)
         /\ \A m \in Marker : MarkerPosition(WidenGap(b, from, to), m) =
              IF MarkerPosition(b, m) = Nowhere THEN Nowhere
              ELSE Lisp!AfterDelete(MarkerPosition(b, m), from, to)
<1> DEFINE c == WidenGap(b, from, to)
           n == to - from
           pos == AdjustMarkers(b.bufpos, to + b.gap, to + b.gap, - n - b.gap)
<1> USE GapBufferAssumption
<1>1. c.gpt = from /\ c.gap = b.gap + n /\ c.z = b.z - n
  BY DEF WidenGap
<1>2. c.mem = b.mem /\ c.bufpos = pos
  BY DEF WidenGap
<1>3. c = [mem |-> c.mem, gpt |-> c.gpt, gap |-> c.gap, z |-> c.z,
           bufpos |-> c.bufpos]
  BY DEF WidenGap
<1>4. /\ b.gpt \in Nat /\ b.gap \in Nat /\ b.z \in Nat
      /\ b.bufpos \in [Marker -> Nat \cup {Nowhere}]
      /\ 1 <= b.gpt /\ b.gpt <= b.z
  BY DEF Sound, Block
<1>5. b.mem \in [Indices(b) -> Char \cup {Junk}]
  BY DEF Sound, Block, Indices
<1>6. n \in Nat /\ n >= 1 /\ to = from + n
  OBVIOUS
<1> HIDE DEF c, n
<1>7. Indices(c) = Indices(b)
  BY <1>1, <1>4, <1>6 DEF Indices
<1>8. ASSUME NEW m \in Marker, b.bufpos[m] # Nowhere
      PROVE  /\ b.bufpos[m] \in Nat
             /\ pos[m] = IF b.bufpos[m] <= from THEN b.bufpos[m]
                         ELSE IF b.bufpos[m] <= to + b.gap THEN from
                              ELSE b.bufpos[m]
  <2>1. b.bufpos[m] \in Nat
    BY <1>4, <1>8
  <2>2. pos[m] = Adjusted(b.bufpos[m], to + b.gap, to + b.gap, - n - b.gap)
    BY <1>8 DEF AdjustMarkers
  <2>. QED  BY <1>4, <1>6, <2>1, <2>2 DEF Adjusted
<1>9. c.bufpos \in [Marker -> Nat \cup {Nowhere}]
  <2>1. ASSUME NEW m \in Marker
        PROVE  pos[m] \in Nat \cup {Nowhere}
    <3>1. CASE b.bufpos[m] = Nowhere
      BY <3>1 DEF AdjustMarkers
    <3>2. CASE b.bufpos[m] # Nowhere
      BY <1>8, <3>2
    <3>. QED  BY <3>1, <3>2
  <2>. QED  BY <1>2, <2>1 DEF AdjustMarkers
<1>10. Block(c)
  <2>1. c.gpt \in Nat /\ c.gap \in Nat /\ c.z \in Nat
    BY <1>1, <1>4, <1>6
  <2>2. c.mem \in [1 .. c.z - 1 + c.gap -> Char \cup {Junk}]
    BY <1>2, <1>5, <1>7 DEF Indices
  <2>. QED  BY <1>3, <1>9, <2>1, <2>2 DEF Block
<1>11. ASSUME NEW p \in 1 .. c.z - 1
       PROVE  /\ FetchChar(c, p) = IF p < from THEN FetchChar(b, p)
                                   ELSE FetchChar(b, p + n)
              /\ p < from => p \in 1 .. b.z - 1
              /\ ~ (p < from) => p + n \in 1 .. b.z - 1
  <2>1. CharIndex(c, p) = IF p >= from THEN p + (b.gap + n) ELSE p
    BY <1>1 DEF CharIndex
  <2>2. CASE p < from
    <3>1. CharIndex(c, p) = p /\ CharIndex(b, p) = p
      BY <1>4, <2>1, <2>2 DEF CharIndex
    <3>2. p \in 1 .. b.z - 1
      BY <1>1, <1>4, <1>6
    <3>. QED  BY <1>2, <2>2, <3>1, <3>2 DEF FetchChar
  <2>3. CASE ~ (p < from)
    <3>1. CharIndex(c, p) = (p + n) + b.gap
      BY <1>4, <1>6, <2>1, <2>3
    <3>2. CharIndex(b, p + n) = (p + n) + b.gap
      BY <1>4, <1>6, <2>3 DEF CharIndex
    <3>3. p + n \in 1 .. b.z - 1
      BY <1>1, <1>4, <1>6
    <3>. QED  BY <1>2, <2>3, <3>1, <3>2, <3>3 DEF FetchChar
  <2>. QED  BY <2>2, <2>3
<1>12. TextOf(c) = Lisp!Cut(TextOf(b), from, to)
  <2>1. /\ TextOf(b) = [p \in 1 .. b.z - 1 |-> FetchChar(b, p)]
        /\ TextOf(c) = [p \in 1 .. c.z - 1 |-> FetchChar(c, p)]
    BY DEF TextOf
  <2>2. Len(TextOf(b)) = b.z - 1
    BY <1>4, <2>1
  <2>3. Len(TextOf(b)) - (to - from) = c.z - 1
    BY <1>1, <1>4, <1>6, <2>2
  <2>4. ASSUME NEW p \in 1 .. c.z - 1
        PROVE  FetchChar(c, p) =
                 IF p < from THEN TextOf(b)[p] ELSE TextOf(b)[p + (to - from)]
    BY <1>11, <2>1 DEF n
  <2>. QED  BY <2>1, <2>3, <2>4 DEF Lisp!Cut
<1>13. ASSUME NEW m \in Marker
       PROVE  /\ OutsideGap(c, m)
              /\ MarkerPosition(c, m) =
                   IF MarkerPosition(b, m) = Nowhere THEN Nowhere
                   ELSE Lisp!AfterDelete(MarkerPosition(b, m), from, to)
  <2>1. OutsideGap(b, m)
    BY DEF Sound
  <2>2. CASE b.bufpos[m] = Nowhere
    <3>1. c.bufpos[m] = Nowhere
      BY <1>2, <2>2 DEF AdjustMarkers
    <3>. QED  BY <2>2, <3>1 DEF OutsideGap, MarkerPosition
  <2>3. CASE b.bufpos[m] # Nowhere
    <3> DEFINE i == b.bufpos[m]
    <3>1. /\ i \in Nat
          /\ c.bufpos[m] = IF i <= from THEN i
                           ELSE IF i <= to + b.gap THEN from ELSE i
      BY <1>2, <1>8, <2>3
    <3>2. c.bufpos[m] # Nowhere /\ c.bufpos[m] \in Nat
      BY <3>1
    <3>3. \/ 1 <= i /\ i <= b.gpt
          \/ b.gpt + b.gap < i /\ i <= b.z + b.gap
      BY <2>1, <2>3 DEF OutsideGap
    <3>4. OutsideGap(c, m)
      BY <1>1, <1>4, <1>6, <3>1, <3>2, <3>3 DEF OutsideGap
    <3>5. MarkerPosition(b, m) = IF i <= b.gpt THEN i ELSE i - b.gap
      BY <1>4, <2>3, <3>1, <3>3 DEF MarkerPosition
    <3>6. MarkerPosition(c, m) =
            IF i <= from THEN i
            ELSE IF i <= to + b.gap THEN from ELSE i - (b.gap + n)
      BY <1>1, <1>4, <1>6, <3>1, <3>2, <3>3 DEF MarkerPosition
    <3>7. MarkerPosition(b, m) \in Nat
      BY <1>4, <3>1, <3>3, <3>5
    <3>8. MarkerPosition(c, m)
            = Lisp!AfterDelete(MarkerPosition(b, m), from, to)
      BY <1>4, <1>6, <3>1, <3>3, <3>5, <3>6, <3>7 DEF Lisp!AfterDelete
    <3>. QED  BY <3>4, <3>7, <3>8
  <2>. QED  BY <2>2, <2>3
<1>14. Sound(c)
  <2>1. 1 <= c.gpt /\ c.gpt <= c.z
    BY <1>1, <1>4, <1>6
  <2>2. \A p \in 1 .. b.z - 1 : FetchChar(b, p) # Junk
    BY DEF Sound
  <2>3. \A p \in 1 .. c.z - 1 : FetchChar(c, p) # Junk
    BY <1>11, <2>2
  <2>. QED  BY <1>10, <1>13, <2>1, <2>3 DEF Sound
<1>. QED
  BY <1>1, <1>12, <1>13, <1>14 DEF c, n

\* The text is as long as z says.
LEMMA TextLength ==
  ASSUME NEW b, Sound(b)
  PROVE  Len(TextOf(b)) = b.z - 1 /\ b.z - 1 \in Nat
<1>1. b.z - 1 \in Nat
  BY DEF Sound, Block
<1>. QED  BY <1>1 DEF TextOf

\* What lies between two positions is a string of that length.
LEMMA CharsSound ==
  ASSUME NEW b, Sound(b), NEW from \in 1 .. b.z, NEW to \in from .. b.z
  PROVE  Chars(b, from, to) \in Seq(Char) /\ Len(Chars(b, from, to)) = to - from
<1>1. /\ b.gpt \in Nat /\ b.gap \in Nat /\ b.z \in Nat
      /\ 1 <= b.gpt /\ b.gpt <= b.z
  BY DEF Sound, Block
<1>2. to - from \in Nat
  BY <1>1
<1>3. ASSUME NEW i \in 1 .. to - from
      PROVE  FetchChar(b, from + i - 1) \in Char
  <2>1. from + i - 1 \in 1 .. b.z - 1
    BY <1>1
  <2>2. CharIndex(b, from + i - 1) \in 1 .. b.z - 1 + b.gap
    BY <1>1, <2>1 DEF CharIndex
  <2>3. FetchChar(b, from + i - 1) \in Char \cup {Junk}
    BY <2>2 DEF FetchChar, Sound, Block
  <2>. QED  BY <2>1, <2>3 DEF Sound
<1>. QED  BY <1>2, <1>3 DEF Chars

\* A string put in in two parts, the second where the first one ends.
LEMMA SplicedTwice ==
  ASSUME NEW u \in Seq(Char), NEW s \in Seq(Char), NEW t \in Seq(Char),
         NEW p \in 1 .. Len(u) + 1
  PROVE  Lisp!Spliced(Lisp!Spliced(u, p, s), p + Len(s), t)
           = Lisp!Spliced(u, p, s \o t)
<1> DEFINE one == Lisp!Spliced(u, p, s)
           n == Len(u) + Len(s)
<1>1. Len(u) \in Nat /\ Len(s) \in Nat /\ Len(t) \in Nat
  OBVIOUS
<1>2. one = [i \in 1 .. n |-> IF i < p THEN u[i]
               ELSE IF i < p + Len(s) THEN s[i - p + 1] ELSE u[i - Len(s)]]
  BY DEF Lisp!Spliced
<1>3. n \in Nat /\ Len(one) = n
  BY <1>1, <1>2
<1>4. Len(s \o t) = Len(s) + Len(t) /\ n + Len(t) = Len(u) + Len(s \o t)
  BY <1>1
<1>5. ASSUME NEW i \in 1 .. n + Len(t)
      PROVE  (IF i < p + Len(s) THEN one[i]
              ELSE IF i < p + Len(s) + Len(t) THEN t[i - (p + Len(s)) + 1]
                   ELSE one[i - Len(t)])
             = (IF i < p THEN u[i]
                ELSE IF i < p + Len(s \o t) THEN (s \o t)[i - p + 1]
                     ELSE u[i - Len(s \o t)])
  <2> HIDE DEF one, n
  <2>1. CASE i < p + Len(s)
    <3>1. i \in 1 .. n
      BY <1>1, <2>1 DEF n
    <3>2. ~ (i < p) => i - p + 1 \in 1 .. Len(s) /\ i < p + Len(s \o t)
      BY <1>1, <1>4, <2>1
    <3>3. ~ (i < p) => (s \o t)[i - p + 1] = s[i - p + 1]
      BY <1>1, <3>2
    <3>. QED  BY <1>2, <2>1, <3>1, <3>2, <3>3
  <2>2. CASE ~ (i < p + Len(s)) /\ i < p + Len(s) + Len(t)
    <3>1. /\ ~ (i < p) /\ i < p + Len(s \o t)
          /\ i - p + 1 \in Len(s) + 1 .. Len(s) + Len(t)
          /\ i - p + 1 - Len(s) = i - (p + Len(s)) + 1
      BY <1>1, <1>4, <2>2
    <3>2. (s \o t)[i - p + 1] = t[i - p + 1 - Len(s)]
      BY <1>1, <3>1
    <3>. QED  BY <2>2, <3>1, <3>2
  <2>3. CASE ~ (i < p + Len(s)) /\ ~ (i < p + Len(s) + Len(t))
    <3>1. /\ i - Len(t) \in 1 .. n
          /\ ~ (i - Len(t) < p) /\ ~ (i - Len(t) < p + Len(s))
          /\ ~ (i < p) /\ ~ (i < p + Len(s \o t))
          /\ i - Len(t) - Len(s) = i - Len(s \o t)
      BY <1>1, <1>4, <2>3 DEF n
    <3>. QED  BY <1>2, <2>3, <3>1
  <2>. QED  BY <2>1, <2>2, <2>3
<1> HIDE DEF one, n
<1>6. Lisp!Spliced(one, p + Len(s), t)
        = [i \in 1 .. n + Len(t) |->
             IF i < p + Len(s) THEN one[i]
             ELSE IF i < p + Len(s) + Len(t) THEN t[i - (p + Len(s)) + 1]
                  ELSE one[i - Len(t)]]
  BY <1>3 DEF Lisp!Spliced
<1>7. Lisp!Spliced(u, p, s \o t)
        = [i \in 1 .. n + Len(t) |->
             IF i < p THEN u[i]
             ELSE IF i < p + Len(s \o t) THEN (s \o t)[i - p + 1]
                  ELSE u[i - Len(s \o t)]]
  BY <1>4 DEF Lisp!Spliced
<1>. QED  BY <1>5, <1>6, <1>7 DEF one

\* marker-position answers with a position or not at all.
LEMMA MarkerPositionSound ==
  ASSUME NEW b, Sound(b), NEW m \in Marker
  PROVE  MarkerPosition(b, m) # Nowhere => MarkerPosition(b, m) \in Nat
  BY GapBufferAssumption DEF Sound, Block, OutsideGap, MarkerPosition

\* Text consists of characters.
LEMMA TextIsSeq ==
  ASSUME NEW b, Sound(b)
  PROVE  TextOf(b) \in Seq(Char)
<1>1. b.z \in Nat /\ 1 <= b.z
  BY DEF Sound, Block
<1>2. 1 \in 1 .. b.z /\ b.z \in 1 .. b.z /\ b.z - 1 \in Nat
  BY <1>1
<1>3. Chars(b, 1, b.z) \in Seq(Char)
  BY <1>2, CharsSound
<1>4. \A i \in 1 .. b.z - 1 : 1 + i - 1 = i
  OBVIOUS
<1>. QED  BY <1>3, <1>4 DEF Chars, TextOf

\* insert_before_markers: adjust_markers after the insertion takes along just
\* the markers that stood at point.
LEMMA AdvanceMarkersSound ==
  ASSUME NEW b, Sound(b), NEW s \in Strings, b.gap >= Len(s)
  PROVE  LET c == FillGap(b, s)
             d == WithMarkers(c, AdjustMarkers(c.bufpos, b.gpt - 1, b.gpt,
                                               Len(s)))
         IN /\ Sound(d)
            /\ d.z = c.z
            /\ TextOf(d) = TextOf(c)
            /\ \A m \in Marker : MarkerPosition(d, m) =
                 IF MarkerPosition(b, m) # Nowhere
                    /\ MarkerPosition(b, m) >= b.gpt
                 THEN MarkerPosition(b, m) + Len(s) ELSE MarkerPosition(b, m)
<1> DEFINE n == Len(s)
           c == FillGap(b, s)
           d == WithMarkers(c, AdjustMarkers(c.bufpos, b.gpt - 1, b.gpt, n))
<1> USE GapBufferAssumption
<1>1. /\ c.gpt = b.gpt + n /\ c.gap = b.gap - n /\ c.z = b.z + n
      /\ c.bufpos = b.bufpos
  BY DEF FillGap
<1>2. /\ d.gpt = c.gpt /\ d.gap = c.gap /\ d.z = c.z /\ d.mem = c.mem
      /\ d.bufpos = AdjustMarkers(b.bufpos, b.gpt - 1, b.gpt, n)
      /\ d = [mem |-> d.mem, gpt |-> d.gpt, gap |-> d.gap, z |-> d.z,
              bufpos |-> d.bufpos]
  BY <1>1 DEF WithMarkers
<1>3. /\ b.gpt \in Nat /\ b.gap \in Nat /\ b.z \in Nat
      /\ b.bufpos \in [Marker -> Nat \cup {Nowhere}]
      /\ 1 <= b.gpt /\ b.gpt <= b.z
  BY DEF Sound, Block
<1>4. n \in Nat /\ n >= 1 /\ b.gap >= n
  BY StringLength
<1>4a. b.gpt \in Nat /\ b.gap \in Nat /\ b.z \in Nat
  BY <1>3
<1>5. Sound(c)
  BY FillGapSound, StringLength
<1> HIDE DEF n, c, d
<1>6. ASSUME NEW m \in Marker, b.bufpos[m] # Nowhere
      PROVE  /\ b.bufpos[m] \in Nat
             /\ \/ 1 <= b.bufpos[m] /\ b.bufpos[m] <= b.gpt
                \/ b.gpt + b.gap < b.bufpos[m] /\ b.bufpos[m] <= b.z + b.gap
             /\ d.bufpos[m] = IF b.bufpos[m] = b.gpt THEN b.gpt + n
                              ELSE b.bufpos[m]
  <2>1. b.bufpos[m] \in Nat
    BY <1>3, <1>6
  <2>2. \/ 1 <= b.bufpos[m] /\ b.bufpos[m] <= b.gpt
        \/ b.gpt + b.gap < b.bufpos[m] /\ b.bufpos[m] <= b.z + b.gap
    BY <1>6 DEF Sound, OutsideGap
  <2>3. d.bufpos[m] = Adjusted(b.bufpos[m], b.gpt - 1, b.gpt, n)
    BY <1>2, <1>6 DEF AdjustMarkers
  <2>. QED  BY <1>3, <1>4, <2>1, <2>2, <2>3 DEF Adjusted
<1>7. ASSUME NEW m \in Marker, b.bufpos[m] = Nowhere
      PROVE  d.bufpos[m] = Nowhere
  BY <1>2, <1>7 DEF AdjustMarkers
<1>8. d.bufpos \in [Marker -> Nat \cup {Nowhere}]
  <2>1. \A m \in Marker : d.bufpos[m] \in Nat \cup {Nowhere}
    BY <1>3, <1>4, <1>6, <1>7
  <2>. QED  BY <1>2, <2>1 DEF AdjustMarkers
<1>9. Block(d)
  BY <1>2, <1>5, <1>8 DEF Sound, Block
<1>10. \A p : FetchChar(d, p) = FetchChar(c, p)
  BY <1>2 DEF FetchChar, CharIndex
<1>11. TextOf(d) = TextOf(c)
  BY <1>2, <1>10 DEF TextOf
<1>12. ASSUME NEW m \in Marker
       PROVE  /\ OutsideGap(d, m)
              /\ MarkerPosition(d, m) =
                   IF MarkerPosition(b, m) # Nowhere
                      /\ MarkerPosition(b, m) >= b.gpt
                   THEN MarkerPosition(b, m) + n ELSE MarkerPosition(b, m)
  <2>1. /\ d.gpt = b.gpt + n /\ d.gap = b.gap - n
        /\ d.z = b.z + n
    BY <1>1, <1>2
  <2>0. /\ d.gpt + d.gap = b.gpt + b.gap /\ d.z + d.gap = b.z + b.gap
        /\ d.gpt \in Nat /\ d.gap \in Nat /\ d.z \in Nat
    BY <1>4, <1>4a, <2>1, SMTT(20)
  <2>2. CASE b.bufpos[m] = Nowhere
    BY <1>7, <2>2 DEF OutsideGap, MarkerPosition
  <2>3. CASE b.bufpos[m] # Nowhere
    <3> DEFINE i == b.bufpos[m]
    <3>1. /\ i \in Nat
          /\ \/ 1 <= i /\ i <= b.gpt
             \/ b.gpt + b.gap < i /\ i <= b.z + b.gap
          /\ d.bufpos[m] = IF i = b.gpt THEN b.gpt + n ELSE i
      BY <1>6, <2>3
    <3>2. d.bufpos[m] \in Nat /\ d.bufpos[m] # Nowhere
      BY <1>3, <1>4, <3>1
    <3>3. OutsideGap(d, m)
      <4>1. CASE i <= b.gpt
        BY <1>3, <1>4, <2>0, <2>1, <3>1, <3>2, <4>1, SMTT(20) DEF OutsideGap
      <4>2. CASE b.gpt + b.gap < i
        BY <1>3, <1>4, <2>0, <2>1, <3>1, <3>2, <4>2, SMTT(20) DEF OutsideGap
      <4>. QED  BY <3>1, <4>1, <4>2
    <3>4. MarkerPosition(b, m) = IF i <= b.gpt THEN i ELSE i - b.gap
      BY <1>3, <2>3, <3>1 DEF MarkerPosition
    <3>5. MarkerPosition(d, m) =
            IF i = b.gpt THEN b.gpt + n
            ELSE IF i <= b.gpt THEN i ELSE i - (b.gap - n)
      <4>1. CASE i <= b.gpt
        <5>1. d.bufpos[m] <= d.gpt
          BY <1>3, <1>4, <2>1, <3>1, <4>1
        <5>2. MarkerPosition(d, m) = d.bufpos[m]
          BY <2>0, <3>2, <5>1, SMTT(20) DEF MarkerPosition
        <5>. QED  BY <3>1, <4>1, <5>2
      <4>2. CASE b.gpt + b.gap < i
        <5>1. d.bufpos[m] = i /\ d.bufpos[m] > d.gpt + d.gap /\ ~ (i <= b.gpt)
          BY <1>3, <2>0, <3>1, <4>2
        <5>2. MarkerPosition(d, m) = d.bufpos[m] - d.gap
          BY <2>0, <3>2, <5>1 DEF MarkerPosition
        <5>. QED  BY <1>3, <2>1, <3>1, <5>1, <5>2
      <4>. QED  BY <3>1, <4>1, <4>2
    <3>6. MarkerPosition(b, m) \in Nat
      BY <1>3, <3>1, <3>4
    <3>. QED  BY <1>3, <1>4, <3>1, <3>3, <3>4, <3>5, <3>6
  <2>. QED  BY <2>2, <2>3
<1>13. Sound(d)
  <2>1. \A p \in 1 .. d.z - 1 : FetchChar(d, p) # Junk
    BY <1>2, <1>5, <1>10 DEF Sound
  <2>2. 1 <= d.gpt /\ d.gpt <= d.z
    BY <1>2, <1>5 DEF Sound
  <2>. QED  BY <1>9, <1>12, <2>1, <2>2 DEF Sound
<1>. QED  BY <1>2, <1>11, <1>12, <1>13 DEF n, c, d
-----------------------------------------------------------------------------
(***************************************************************************)
(* The invariant.  Its four parts lean on one another: without markers     *)
(* outside the gap no motion keeps them in place, without point and        *)
(* narrowing in the text no motion stays in the block.                     *)
(***************************************************************************)
Inv == TypeOK /\ PositionsOrdered /\ MarkersOutsideGap /\ NoJunkInText

\* What Inv says of the storage and of the other positions.
LEMMA InvParts ==
  Inv <=> /\ Sound(buf)
          /\ begv \in Nat /\ zv \in Nat /\ pt \in Nat
          /\ buf.z - 1 <= MaxSize
          /\ 1 <= begv /\ begv <= pt /\ pt <= zv /\ zv <= buf.z
  BY DEF Inv, TypeOK, PositionsOrdered, MarkersOutsideGap, NoJunkInText, Sound

LEMMA InvPartsNext ==
  /\ Sound(buf')
  /\ begv' \in Nat /\ zv' \in Nat /\ pt' \in Nat
  /\ buf'.z - 1 <= MaxSize
  /\ 1 <= begv' /\ begv' <= pt' /\ pt' <= zv' /\ zv' <= buf'.z
  => Inv'
  BY DEF Inv, TypeOK, PositionsOrdered, MarkersOutsideGap, NoJunkInText, Sound,
         Block, OutsideGap, FetchChar, CharIndex

\* A new buffer is sound and looks empty.
LEMMA InitSound == Init => Inv /\ Lisp!Init
<1> SUFFICES ASSUME Init PROVE Inv /\ Lisp!Init
  OBVIOUS
<1> USE GapBufferAssumption
<1>1. /\ buf.gpt = 1 /\ buf.gap = FirstGap /\ buf.z = 1
      /\ buf.mem = [a \in 1 .. FirstGap |-> Junk]
      /\ buf.bufpos = [m \in Marker |-> Nowhere]
      /\ buf = [mem |-> buf.mem, gpt |-> buf.gpt, gap |-> buf.gap,
                z |-> buf.z, bufpos |-> buf.bufpos]
      /\ begv = 1 /\ zv = 1 /\ pt = 1
  BY DEF Init
<1>2. Block(buf)
  <2>1. buf.z - 1 + buf.gap = FirstGap
    BY <1>1
  <2>. QED  BY <1>1, <2>1 DEF Block
<1>3. Sound(buf)
  BY <1>1, <1>2 DEF Sound, OutsideGap
<1>4. Inv
  BY <1>1, <1>3, InvParts
<1>5. TextOf(buf) = << >>
  BY <1>1 DEF TextOf
<1>6. [m \in Marker |-> MarkerPosition(buf, m)] = [m \in Marker |-> Nowhere]
  BY <1>1 DEF MarkerPosition
<1>. QED  BY <1>1, <1>4, <1>5, <1>6 DEF Lisp!Init
-----------------------------------------------------------------------------
(***************************************************************************)
(* One lemma per action: it keeps Inv and is the BufferText action of the  *)
(* same name, or no step at all when only the gap moves.                   *)
(***************************************************************************)
\* What is shown of an insertion at point, whatever put the string there.
LEMMA InsertedSound ==
  ASSUME Inv, NEW s \in Strings,
         Insertable(s), AfterInsert(s),
         Sound(buf'), buf'.z = buf.z + Len(s),
         TextOf(buf') = Lisp!Spliced(TextOf(buf), pt, s),
         \A m \in Marker : MarkerPosition(buf', m) =
           IF MarkerPosition(buf, m) # Nowhere /\ MarkerPosition(buf, m) > pt
           THEN MarkerPosition(buf, m) + Len(s) ELSE MarkerPosition(buf, m)
  PROVE  Inv' /\ Lisp!Insert(s)
<1> DEFINE n == Len(s)
<1>1. /\ Sound(buf) /\ buf.z \in Nat
      /\ begv \in Nat /\ zv \in Nat /\ pt \in Nat
      /\ 1 <= begv /\ begv <= pt /\ pt <= zv /\ zv <= buf.z
  BY InvParts DEF Sound, Block
<1>2. n \in Nat /\ n >= 1
  BY StringLength
<1>4. /\ n + buf.z - 1 <= MaxSize
      /\ pt' = pt + n /\ zv' = zv + n /\ begv' = begv
  BY DEF Insertable, AfterInsert
<1>5. /\ buf'.z = buf.z + n
      /\ \A m \in Marker : MarkerPosition(buf', m) =
           IF MarkerPosition(buf, m) # Nowhere /\ MarkerPosition(buf, m) > pt
           THEN MarkerPosition(buf, m) + n ELSE MarkerPosition(buf, m)
  OBVIOUS
<1> HIDE DEF n
<1>6. Inv'
  <2>1. /\ pt' \in Nat /\ zv' \in Nat /\ begv' \in Nat
        /\ buf'.z - 1 <= MaxSize
        /\ 1 <= begv' /\ begv' <= pt' /\ pt' <= zv' /\ zv' <= buf'.z
    BY <1>1, <1>2, <1>4, <1>5, GapBufferAssumption
  <2>. QED  BY <1>5, <2>1, InvPartsNext
<1>7. Len(TextOf(buf)) + n <= MaxSize
  BY <1>1, <1>2, <1>4, TextLength, GapBufferAssumption
<1>8. \A m \in Marker :
        MarkerPosition(buf, m) # Nowhere => MarkerPosition(buf, m) \in Nat
  BY <1>1, MarkerPositionSound
<1>9. ASSUME NEW m \in Marker
      PROVE  MarkerPosition(buf', m) =
               IF MarkerPosition(buf, m) # Nowhere
                  /\ MarkerPosition(buf, m) >= pt + 1
               THEN MarkerPosition(buf, m) + n ELSE MarkerPosition(buf, m)
  BY <1>1, <1>5, <1>8
<1>. QED
  BY <1>2, <1>4, <1>5, <1>6, <1>7, <1>9
  DEF Lisp!Insert, Lisp!InsertAtPoint, n

LEMMA InsertStep ==
  ASSUME Inv, NEW s \in Strings, Insert(s)
  PROVE  Inv' /\ Lisp!Insert(s)
<1> DEFINE r == RoomAt(buf, pt, Len(s))
<1>1. /\ Sound(buf) /\ buf.z \in Nat
      /\ begv \in Nat /\ zv \in Nat /\ pt \in Nat
      /\ 1 <= begv /\ begv <= pt /\ pt <= zv /\ zv <= buf.z
  BY InvParts DEF Sound, Block
<1>2. SameText(buf, r) /\ r.gpt = pt /\ r.gap >= Len(s)
  <2>1. pt \in 1 .. buf.z
    BY <1>1
  <2>. QED  BY <1>1, <2>1, StringLength, RoomAtSound
<1>3. buf' = FillGap(r, s) /\ Insertable(s) /\ AfterInsert(s)
  BY DEF Insert, Inserted
<1> HIDE DEF r
<1>4. /\ Sound(buf') /\ buf'.z = buf.z + Len(s)
      /\ TextOf(buf') = Lisp!Spliced(TextOf(buf), pt, s)
      /\ \A m \in Marker : MarkerPosition(buf', m) =
           IF MarkerPosition(buf, m) # Nowhere /\ MarkerPosition(buf, m) > pt
           THEN MarkerPosition(buf, m) + Len(s) ELSE MarkerPosition(buf, m)
  BY <1>2, <1>3, FillGapSound, StringLength DEF SameText
<1>. QED  BY <1>3, <1>4, InsertedSound

\* The two halves of insert-buffer-substring, and the text with both in it.
LEMMA SubstringParts ==
  ASSUME Inv, NEW b \in Position, NEW e \in Position,
         InsertBufferSubstring(b, e)
  PROVE  LET r == Ready(b, e)
             s == FirstPart(b, e)
             h == Half(b, e)
             t == SecondPart(b, e)
         IN /\ SameText(buf, r) /\ r.gpt = pt
            /\ s \in Seq(Char) /\ t \in Seq(Char)
            /\ Len(s) + Len(t) <= e - b
            /\ Sound(h) /\ h.z = buf.z + Len(s) /\ h.gpt = pt + Len(s)
            /\ TextOf(h) = Lisp!Spliced(TextOf(buf), pt, s)
            /\ \A m \in Marker : MarkerPosition(h, m) =
                 IF MarkerPosition(buf, m) # Nowhere
                    /\ MarkerPosition(buf, m) > pt
                 THEN MarkerPosition(buf, m) + Len(s)
                 ELSE MarkerPosition(buf, m)
            /\ h.gap >= Len(t)
            /\ TextOf(FillGap(h, t))
                 = Lisp!Spliced(TextOf(buf), pt, s \o t)
<1> DEFINE r == Ready(b, e)
           s == FirstPart(b, e)
           h == Half(b, e)
           t == SecondPart(b, e)
<1> USE GapBufferAssumption
<1>1. /\ Sound(buf) /\ buf.z \in Nat
      /\ begv \in Nat /\ zv \in Nat /\ pt \in Nat
      /\ 1 <= begv /\ begv <= pt /\ pt <= zv /\ zv <= buf.z
  BY InvParts DEF Sound, Block
<1>2. /\ begv <= b /\ b < e /\ e <= zv /\ e - b <= MaxInsert
      /\ b \in Nat /\ e \in Nat
  BY DEF InsertBufferSubstring, Position
<1>3. SameText(buf, r) /\ r.gpt = pt /\ r.gap >= e - b
  <2>1. pt \in 1 .. buf.z /\ e - b \in Nat
    BY <1>1, <1>2
  <2>. QED  BY <1>1, <2>1, RoomAtSound DEF Ready
<1>4. Sound(r) /\ r.z = buf.z
  BY <1>3 DEF SameText
<1>5. /\ s \in Seq(Char)
      /\ Len(s) = IF b < pt THEN (IF e < pt THEN e ELSE pt) - b ELSE 0
  <2>1. CASE b < pt
    <3> DEFINE to == IF e < pt THEN e ELSE pt
    <3>1. b \in 1 .. r.z /\ to \in b .. r.z
      BY <1>1, <1>2, <1>4, <2>1
    <3>2. s = Chars(r, b, to)
      BY <2>1 DEF FirstPart
    <3> HIDE DEF to, r, s
    <3>3. s \in Seq(Char) /\ Len(s) = to - b
      BY <1>4, <3>1, <3>2, CharsSound
    <3>. QED  BY <2>1, <3>3 DEF to
  <2>2. CASE ~ (b < pt)
    BY <2>2 DEF FirstPart
  <2>. QED  BY <2>1, <2>2
<1> DEFINE n == Len(s)
<1>6. n \in Nat /\ n <= e - b
  BY <1>1, <1>2, <1>5
<1>7. h = FillGap(r, s) /\ h.gpt = pt + n /\ h.gap = r.gap - n
  BY <1>3 DEF Half, FillGap
<1> HIDE DEF r, s, h
<1>8. /\ Sound(h) /\ h.z = buf.z + n
      /\ TextOf(h) = Lisp!Spliced(TextOf(buf), pt, s)
      /\ \A m \in Marker : MarkerPosition(h, m) =
           IF MarkerPosition(buf, m) # Nowhere /\ MarkerPosition(buf, m) > pt
           THEN MarkerPosition(buf, m) + n ELSE MarkerPosition(buf, m)
  <2>1. r.gap >= n
    <3>1. r.gap \in Nat
      BY <1>4 DEF Sound, Block
    <3>. QED  BY <1>2, <1>3, <1>6, <3>1
  <2>. QED  BY <1>3, <1>4, <1>5, <1>7, <2>1, FillGapSound DEF SameText, IsString
<1> DEFINE from == IF b >= pt THEN b ELSE IF e < h.gpt THEN e ELSE h.gpt
<1>9. from \in Nat /\ b + n <= from /\ from <= e
  <2> HIDE DEF n
  <2>1. CASE b >= pt
    BY <1>1, <1>2, <1>5, <2>1 DEF n
  <2>2. CASE ~ (b >= pt)
    BY <1>1, <1>2, <1>6, <1>7, <1>5, <2>2 DEF n
  <2>. QED  BY <2>1, <2>2
<1>10. t = Chars(h, from, e)
  BY DEF SecondPart, h
<1> HIDE DEF from, t, n
<1>11. t \in Seq(Char) /\ Len(t) = e - from
  <2>1. from \in 1 .. h.z /\ e \in from .. h.z
    BY <1>1, <1>2, <1>6, <1>8, <1>9
  <2>. QED  BY <1>8, <1>10, <2>1, CharsSound
<1>12. Len(t) \in Nat /\ n + Len(t) <= e - b
  BY <1>2, <1>6, <1>9, <1>11
<1>13. h.gap >= Len(t)
  <2>1. r.gap \in Nat
    BY <1>4 DEF Sound, Block
  <2>. QED  BY <1>2, <1>3, <1>6, <1>7, <1>12, <2>1
<1>14. TextOf(FillGap(h, t)) = Lisp!Spliced(TextOf(buf), pt, s \o t)
  <2>1. TextOf(FillGap(h, t)) = Lisp!Spliced(TextOf(h), h.gpt, t)
    BY <1>8, <1>11, <1>13, FillGapSound DEF IsString
  <2>2. TextOf(buf) \in Seq(Char) /\ pt \in 1 .. Len(TextOf(buf)) + 1
    BY <1>1, TextLength, TextIsSeq
  <2>3. Lisp!Spliced(Lisp!Spliced(TextOf(buf), pt, s), pt + Len(s), t)
          = Lisp!Spliced(TextOf(buf), pt, s \o t)
    BY <1>5, <1>11, <2>2, SplicedTwice
  <2>. QED  BY <1>7, <1>8, <2>1, <2>3 DEF n
<1>. QED
  BY <1>3, <1>5, <1>7, <1>8, <1>11, <1>12, <1>13, <1>14 DEF n, r, s, h, t

\* insert-buffer-substring inserts one string, if not always the right one.
LEMMA InsertBufferSubstringStep ==
  ASSUME Inv, NEW b \in Position, NEW e \in Position,
         InsertBufferSubstring(b, e)
  PROVE  Inv' /\ \E s \in Strings : Lisp!Insert(s)
<1> DEFINE s == FirstPart(b, e)
           h == Half(b, e)
           t == SecondPart(b, e)
           n == Len(s)
<1> USE GapBufferAssumption
<1>1. /\ Sound(buf) /\ buf.z \in Nat
      /\ begv \in Nat /\ zv \in Nat /\ pt \in Nat
      /\ 1 <= begv /\ begv <= pt /\ pt <= zv /\ zv <= buf.z
  BY InvParts DEF Sound, Block
<1>2. /\ begv <= b /\ b < e /\ e <= zv /\ e - b <= MaxInsert
      /\ b \in Nat /\ e \in Nat
  BY DEF InsertBufferSubstring, Position
<1>3. /\ s \in Seq(Char) /\ t \in Seq(Char) /\ h.gpt = pt + n
      /\ Sound(h) /\ h.z = buf.z + n
      /\ TextOf(h) = Lisp!Spliced(TextOf(buf), pt, s)
      /\ h.gap >= Len(t)
      /\ TextOf(FillGap(h, t)) = Lisp!Spliced(TextOf(buf), pt, s \o t)
  BY SubstringParts
<1>4. \A m \in Marker : MarkerPosition(h, m) =
        IF MarkerPosition(buf, m) # Nowhere /\ MarkerPosition(buf, m) > pt
        THEN MarkerPosition(buf, m) + n ELSE MarkerPosition(buf, m)
  BY SubstringParts
<1>5. n \in Nat /\ Len(t) \in Nat /\ n + Len(t) <= e - b /\ n <= e - b
  <2>1. n \in Nat /\ Len(t) \in Nat /\ n + Len(t) <= e - b
    BY <1>3, SubstringParts
  <2>. QED  BY <1>2, <2>1
<1> HIDE DEF s, h, t, n
<1>6. /\ s \o t \in Seq(Char) /\ Len(s \o t) = n + Len(t)
  BY <1>3 DEF n
<1>7. ASSUME NEW u \in Seq(Char), Len(u) >= 1, Len(u) <= e - b
       PROVE  u \in Strings
  <2>1. Len(u) \in 1 .. MaxInsert /\ u \in [1 .. Len(u) -> Char]
    BY <1>2, <1>7
  <2>. QED  BY <2>1 DEF Strings
<1>8. ASSUME NEW u \in Seq(Char), Insertable(u), Len(u) <= e - b,
              Sound(buf'), buf'.z = buf.z + Len(u),
              TextOf(buf') = Lisp!Spliced(TextOf(buf), pt, u),
              AfterInsert(u),
              \A m \in Marker : MarkerPosition(buf', m) =
                IF MarkerPosition(buf, m) # Nowhere
                   /\ MarkerPosition(buf, m) > pt
                THEN MarkerPosition(buf, m) + Len(u)
                ELSE MarkerPosition(buf, m)
       PROVE  Inv' /\ \E w \in Strings : Lisp!Insert(w)
  BY <1>1, <1>7, <1>8, InsertedSound DEF Insertable
<1>9. CASE /\ Insertable(s \o t)
            /\ buf' = FillGap(h, t)
            /\ AfterInsert(s \o t)
  <2>2. /\ Sound(buf') /\ buf'.z = h.z + Len(t)
        /\ TextOf(buf') = Lisp!Spliced(TextOf(h), h.gpt, t)
        /\ \A m \in Marker : MarkerPosition(buf', m) =
              IF MarkerPosition(h, m) # Nowhere /\ MarkerPosition(h, m) > h.gpt
              THEN MarkerPosition(h, m) + Len(t) ELSE MarkerPosition(h, m)
    BY <1>3, <1>9, FillGapSound DEF IsString
  <2>3. buf'.z = buf.z + Len(s \o t)
    BY <1>1, <1>3, <1>5, <1>6, <2>2
  <2>4. TextOf(buf') = Lisp!Spliced(TextOf(buf), pt, s \o t)
    BY <1>3, <1>9
  <2>5. ASSUME NEW m \in Marker
        PROVE  MarkerPosition(buf', m) =
                 IF MarkerPosition(buf, m) # Nowhere
                    /\ MarkerPosition(buf, m) > pt
                 THEN MarkerPosition(buf, m) + Len(s \o t)
                 ELSE MarkerPosition(buf, m)
    <3>1. MarkerPosition(buf, m) # Nowhere => MarkerPosition(buf, m) \in Nat
      BY <1>1, MarkerPositionSound
    <3> DEFINE i == MarkerPosition(buf, m)
               j == MarkerPosition(h, m)
               k == MarkerPosition(buf', m)
    <3>2. /\ j = IF i # Nowhere /\ i > pt THEN i + n ELSE i
          /\ k = IF j # Nowhere /\ j > pt + n THEN j + Len(t) ELSE j
      BY <1>3, <1>4, <2>2
    <3> HIDE DEF i, j, k
    <3>3. CASE i = Nowhere
      BY <3>2, <3>3 DEF i, k
    <3>4. CASE i # Nowhere
      <4>1. i \in Nat
        BY <3>1, <3>4 DEF i
      <4>2. CASE i > pt
        <5>1. j = i + n /\ j \in Nat /\ j > pt + n
          BY <1>1, <1>5, <3>2, <3>4, <4>1, <4>2
        <5>2. k = i + n + Len(t)
          BY <3>2, <5>1
        <5>. QED  BY <1>5, <1>6, <3>4, <4>1, <4>2, <5>2 DEF i, k
      <4>3. CASE ~ (i > pt)
        <5>1. j = i /\ ~ (j > pt + n)
          BY <1>1, <1>5, <3>2, <4>1, <4>3
        <5>2. k = i
          BY <3>2, <5>1
        <5>. QED  BY <4>3, <5>2 DEF i, k
      <4>. QED  BY <4>2, <4>3
    <3>. QED  BY <3>3, <3>4
  <2>6. Len(s \o t) <= e - b
    BY <1>5, <1>6
  <2>. QED  BY <1>6, <1>8, <1>9, <2>2, <2>3, <2>4, <2>5, <2>6
<1>10. CASE /\ Insertable(s)
            /\ buf' = h
            /\ AfterInsert(s)
  BY <1>3, <1>4, <1>5, <1>8, <1>10 DEF n
<1>. QED
  BY <1>9, <1>10 DEF InsertBufferSubstring, s, h, t

\* Point beside the substring: one of the two halves is empty, the other one
\* is the substring as it was.
LEMMA BesidePoint ==
  ASSUME Inv, NEW b \in Position, NEW e \in Position,
         InsertBufferSubstring(b, e), ~ (b < pt /\ pt < e)
  PROVE  Duplicates(b, e)
<1> DEFINE r == Ready(b, e)
           s == FirstPart(b, e)
           h == Half(b, e)
           t == SecondPart(b, e)
           c == Chars(buf, b, e)
<1>1. /\ Sound(buf) /\ buf.z \in Nat /\ pt \in Nat
      /\ begv \in Nat /\ zv \in Nat
      /\ 1 <= begv /\ begv <= pt /\ pt <= zv /\ zv <= buf.z
  BY InvParts DEF Sound, Block
<1>2. /\ begv <= b /\ b < e /\ e <= zv /\ b \in Nat /\ e \in Nat
      /\ \/ Insertable(s \o t) /\ buf' = FillGap(h, t)
         \/ ~ Insertable(s \o t)
  BY DEF InsertBufferSubstring, Position
<1>3. /\ SameText(buf, r) /\ s \in Seq(Char) /\ t \in Seq(Char)
      /\ Sound(h) /\ h.z = buf.z + Len(s) /\ h.gpt = pt + Len(s)
      /\ TextOf(h) = Lisp!Spliced(TextOf(buf), pt, s)
      /\ TextOf(FillGap(h, t)) = Lisp!Spliced(TextOf(buf), pt, s \o t)
  BY SubstringParts
<1>4. c \in Seq(Char) /\ Len(c) = e - b
  <2>1. b \in 1 .. buf.z /\ e \in b .. buf.z
    BY <1>1, <1>2
  <2>. QED  BY <1>1, <2>1, CharsSound
<1>5. ASSUME NEW d, TextOf(d) = TextOf(buf), d.z = buf.z
      PROVE  Chars(d, b, e) = c
  <2>1. ASSUME NEW i \in 1 .. e - b
        PROVE  FetchChar(d, b + i - 1) = FetchChar(buf, b + i - 1)
    <3>1. b + i - 1 \in 1 .. buf.z - 1
      BY <1>1, <1>2
    <3>2. /\ TextOf(d)[b + i - 1] = FetchChar(d, b + i - 1)
          /\ TextOf(buf)[b + i - 1] = FetchChar(buf, b + i - 1)
      BY <1>5, <3>1 DEF TextOf
    <3>. QED  BY <1>5, <3>2
  <2>. QED  BY <2>1 DEF Chars
<1>6. s \o t = c
  <2>1. CASE b >= pt
    <3>1. s = << >>
      BY <1>1, <1>2, <2>1 DEF FirstPart
    <3>2. t = Chars(h, b, e)
      BY <2>1 DEF SecondPart
    <3> HIDE DEF s, t, h, c
    <3>3. TextOf(h) = TextOf(buf)
      <4>1. TextOf(buf) \in Seq(Char) /\ Len(TextOf(buf)) \in Nat
        BY <1>1, TextIsSeq
      <4>2. Lisp!Spliced(TextOf(buf), pt, << >>) = TextOf(buf)
        BY <1>1, <4>1 DEF Lisp!Spliced
      <4>. QED  BY <1>3, <3>1, <4>2
    <3>4. h.z = buf.z
      BY <1>1, <1>3, <3>1
    <3>5. t = c
      BY <1>5, <3>2, <3>3, <3>4
    <3>. QED  BY <1>3, <3>1, <3>5
  <2>2. CASE ~ (b >= pt)
    <3>1. e <= pt /\ b < pt
      BY <1>1, <1>2, <2>2
    <3>2. s = Chars(r, b, e)
      <4>1. (IF e < pt THEN e ELSE pt) = e
        BY <1>1, <1>2, <3>1
      <4>. QED  BY <3>1, <4>1 DEF FirstPart
    <3>3. s = c
      BY <1>3, <1>5, <3>2 DEF SameText
    <3>4. e < h.gpt
      <4> HIDE DEF s, h, c
      <4>. QED  BY <1>1, <1>2, <1>3, <1>4, <3>1, <3>3
    <3>5. t = Chars(h, e, e)
      BY <2>2, <3>4 DEF SecondPart
    <3>6. Chars(h, e, e) = << >>
      BY <1>2 DEF Chars
    <3> HIDE DEF s, t, h, c
    <3>. QED  BY <1>3, <3>3, <3>5, <3>6
  <2>. QED  BY <2>1, <2>2
<1>. QED  BY <1>2, <1>3, <1>6 DEF Duplicates

\* Room made and not used is invisible.
LEMMA RoomStep ==
  ASSUME Inv, NEW n \in 1 .. MaxInsert, InsertBufferSubstringRefused(n)
  PROVE  Inv' /\ UNCHANGED Lisp!textVars
<1>1. /\ Sound(buf) /\ buf.z \in Nat
      /\ begv \in Nat /\ zv \in Nat /\ pt \in Nat
      /\ buf.z - 1 <= MaxSize
      /\ 1 <= begv /\ begv <= pt /\ pt <= zv /\ zv <= buf.z
  BY InvParts DEF Sound, Block
<1>2. pt \in 1 .. buf.z /\ n \in Nat
  BY <1>1, GapBufferAssumption
<1>3. SameText(buf, buf')
  BY <1>1, <1>2, RoomAtSound DEF InsertBufferSubstringRefused
<1>4. begv' = begv /\ zv' = zv /\ pt' = pt
  BY DEF InsertBufferSubstringRefused
<1>5. Inv'
  BY <1>1, <1>3, <1>4, InvPartsNext DEF SameText
<1>. QED  BY <1>3, <1>4, <1>5 DEF SameText, Lisp!textVars

LEMMA InsertBeforeMarkersStep ==
  ASSUME Inv, NEW s \in Strings, InsertBeforeMarkers(s)
  PROVE  Inv' /\ Lisp!InsertBeforeMarkers(s)
<1> DEFINE r == RoomAt(buf, pt, Len(s))
           n == Len(s)
           c == FillGap(r, s)
<1>1. /\ Sound(buf) /\ buf.z \in Nat
      /\ begv \in Nat /\ zv \in Nat /\ pt \in Nat
      /\ 1 <= begv /\ begv <= pt /\ pt <= zv /\ zv <= buf.z
  BY InvParts DEF Sound, Block
<1>2. n \in Nat /\ n >= 1
  BY StringLength
<1>3. SameText(buf, r) /\ r.gpt = pt /\ r.gap >= n
  <2>1. pt \in 1 .. buf.z
    BY <1>1
  <2>. QED  BY <1>1, <1>2, <2>1, RoomAtSound
<1>4. /\ buf' = WithMarkers(c, AdjustMarkers(c.bufpos, pt - 1, pt, n))
      /\ n + buf.z - 1 <= MaxSize
      /\ pt' = pt + n /\ zv' = zv + n /\ begv' = begv
  BY DEF InsertBeforeMarkers, Insertable, Inserted, AfterInsert
<1> HIDE DEF r
<1>5. /\ c.z = buf.z + n
      /\ TextOf(c) = Lisp!Spliced(TextOf(buf), pt, s)
  BY <1>3, FillGapSound, StringLength DEF SameText
<1>6. /\ Sound(buf') /\ buf'.z = c.z /\ TextOf(buf') = TextOf(c)
      /\ \A m \in Marker : MarkerPosition(buf', m) =
           IF MarkerPosition(r, m) # Nowhere /\ MarkerPosition(r, m) >= pt
           THEN MarkerPosition(r, m) + n ELSE MarkerPosition(r, m)
  BY <1>3, <1>4, AdvanceMarkersSound DEF SameText
<1>7. \A m \in Marker : MarkerPosition(r, m) = MarkerPosition(buf, m)
  BY <1>3 DEF SameText
<1> HIDE DEF n, c
<1>8. Inv'
  <2>1. /\ pt' \in Nat /\ zv' \in Nat /\ begv' \in Nat
        /\ buf'.z - 1 <= MaxSize
        /\ 1 <= begv' /\ begv' <= pt' /\ pt' <= zv' /\ zv' <= buf'.z
    BY <1>1, <1>2, <1>4, <1>5, <1>6, GapBufferAssumption
  <2>. QED  BY <1>6, <2>1, InvPartsNext
<1>9. Len(TextOf(buf)) + n <= MaxSize
  BY <1>1, <1>2, <1>4, TextLength, GapBufferAssumption
<1>. QED
  BY <1>2, <1>4, <1>5, <1>6, <1>7, <1>8, <1>9
  DEF Lisp!InsertBeforeMarkers, Lisp!InsertAtPoint, n

\* Any motion of the gap, complete or not, is invisible.
LEMMA GiveUpStep ==
  ASSUME Inv, NEW pos \in 1 .. buf.z, GiveUp(pos)
  PROVE  Inv' /\ UNCHANGED Lisp!textVars
<1>1. /\ Sound(buf) /\ buf.z \in Nat /\ buf.gpt \in 1 .. buf.z
      /\ begv \in Nat /\ zv \in Nat /\ pt \in Nat
      /\ buf.z - 1 <= MaxSize
      /\ 1 <= begv /\ begv <= pt /\ pt <= zv /\ zv <= buf.z
  BY InvParts DEF Sound, Block
<1>2. PICK stop \in Stops(buf, pos) : buf' = MoveGap(buf, stop)
  BY DEF GiveUp
<1>3. stop \in 1 .. buf.z
  BY <1>1 DEF Stops
<1>4. SameText(buf, buf')
  BY <1>1, <1>2, <1>3, MoveGapSound
<1>5. begv' = begv /\ zv' = zv /\ pt' = pt
  BY DEF GiveUp
<1>6. Inv'
  BY <1>1, <1>4, <1>5, InvPartsNext DEF SameText
<1>. QED  BY <1>4, <1>5, <1>6 DEF SameText, Lisp!textVars

LEMMA DelRangeStep ==
  ASSUME Inv, NEW b \in Position, NEW e \in Position, DelRange(b, e)
  PROVE  Inv' /\ Lisp!DelRange(b, e)
<1> DEFINE from == IF b < begv THEN begv ELSE b
           to == IF e > zv THEN zv ELSE e
           near == GapNear(buf, from, to)
<1>1. /\ Sound(buf) /\ buf.z \in Nat
      /\ begv \in Nat /\ zv \in Nat /\ pt \in Nat
      /\ buf.z - 1 <= MaxSize
      /\ 1 <= begv /\ begv <= pt /\ pt <= zv /\ zv <= buf.z
  BY InvParts DEF Sound, Block
<1>2. /\ from < to
      /\ buf' = WidenGap(near, from, to)
      /\ pt' = IF from < pt THEN IF pt < to THEN from ELSE pt - (to - from)
               ELSE pt
      /\ zv' = zv - (to - from)
      /\ begv' = begv
  BY DEF DelRange, Lower, Upper
<1>3. from \in Nat /\ to \in Nat /\ begv <= from /\ to <= zv
  BY <1>1, GapBufferAssumption DEF Position
<1> HIDE DEF from, to, near
<1>4. SameText(buf, near) /\ from <= near.gpt /\ near.gpt <= to
  <2>1. 1 <= from /\ from <= to /\ to <= buf.z
    BY <1>1, <1>2, <1>3
  <2>. QED  BY <1>1, <1>3, <2>1, GapNearSound DEF near
<1>5. /\ Sound(buf') /\ buf'.z = buf.z - (to - from)
      /\ TextOf(buf') = Lisp!Cut(TextOf(buf), from, to)
      /\ \A m \in Marker : MarkerPosition(buf', m) =
           IF MarkerPosition(buf, m) = Nowhere THEN Nowhere
           ELSE Lisp!AfterDelete(MarkerPosition(buf, m), from, to)
  <2>1. Sound(near) /\ near.z = buf.z
    BY <1>4 DEF SameText
  <2>2. 1 <= from /\ to <= near.z
    BY <1>1, <1>3, <2>1
  <2>. QED  BY <1>2, <1>3, <1>4, <2>1, <2>2, WidenGapSound DEF SameText
<1>6. Inv'
  <2>1. /\ pt' \in Nat /\ zv' \in Nat /\ begv' \in Nat
        /\ buf'.z - 1 <= MaxSize
        /\ 1 <= begv' /\ begv' <= pt' /\ pt' <= zv' /\ zv' <= buf'.z
    BY <1>1, <1>2, <1>3, <1>5, GapBufferAssumption
  <2>. QED  BY <1>5, <2>1, InvPartsNext
<1>7. pt' = Lisp!AfterDelete(pt, from, to)
  BY <1>1, <1>2, <1>3 DEF Lisp!AfterDelete
<1>. QED
  BY <1>2, <1>5, <1>6, <1>7 DEF Lisp!DelRange, from, to

\* Replacing characters in place disturbs nothing else.
LEMMA SubstStep ==
  ASSUME Inv, NEW b \in Position, NEW e \in Position,
         NEW fc \in Char, NEW tc \in Char, SubstCharInRegion(b, e, fc, tc)
  PROVE  Inv' /\ Lisp!SubstCharInRegion(b, e, fc, tc)
<1> USE GapBufferAssumption
<1> DEFINE mem == [a \in Indices(buf) |->
                     IF /\ buf.mem[a] = fc
                        /\ \E p \in b .. e - 1 : a = CharIndex(buf, p)
                     THEN tc ELSE buf.mem[a]]
<1>1. /\ Sound(buf) /\ buf.z \in Nat /\ buf.gpt \in Nat /\ buf.gap \in Nat
      /\ buf.gpt <= buf.z
      /\ buf.mem \in [Indices(buf) -> Char \cup {Junk}]
      /\ begv \in Nat /\ zv \in Nat /\ pt \in Nat
      /\ buf.z - 1 <= MaxSize
      /\ 1 <= begv /\ begv <= pt /\ pt <= zv /\ zv <= buf.z
  BY InvParts DEF Sound, Block, Indices
<1>2. /\ begv <= b /\ b <= e /\ e <= zv
      /\ buf' = WithMem(buf, mem)
      /\ begv' = begv /\ zv' = zv /\ pt' = pt
  BY DEF SubstCharInRegion
<1>3. /\ buf'.mem = mem /\ buf'.gpt = buf.gpt /\ buf'.gap = buf.gap
      /\ buf'.z = buf.z /\ buf'.bufpos = buf.bufpos
      /\ buf' = [mem |-> buf'.mem, gpt |-> buf'.gpt, gap |-> buf'.gap,
                 z |-> buf'.z, bufpos |-> buf'.bufpos]
  BY <1>2 DEF WithMem
<1>4. mem \in [Indices(buf) -> Char \cup {Junk}]
  BY <1>1
<1>5. ASSUME NEW p \in 1 .. buf.z - 1
      PROVE  FetchChar(buf', p) =
               IF b <= p /\ p < e /\ FetchChar(buf, p) = fc THEN tc
               ELSE FetchChar(buf, p)
  <2>1. CharIndex(buf', p) = CharIndex(buf, p)
    BY <1>3 DEF CharIndex
  <2>2. CharIndex(buf, p) \in Indices(buf)
    BY <1>1 DEF CharIndex, Indices
  <2>3. b \in Nat /\ e \in Nat
    BY DEF Position
  <2>4. (\E q \in b .. e - 1 : CharIndex(buf, p) = CharIndex(buf, q))
          <=> b <= p /\ p < e
    <3>1. ASSUME NEW q \in b .. e - 1, CharIndex(buf, p) = CharIndex(buf, q)
          PROVE  p = q
      BY <1>1, <2>3, <3>1 DEF CharIndex
    <3>2. b <= p /\ p < e => p \in b .. e - 1
      BY <2>3
    <3>. QED  BY <2>3, <3>1, <3>2
  <2>. QED  BY <1>3, <2>1, <2>2, <2>4 DEF FetchChar
<1> HIDE DEF mem
<1>6. Sound(buf')
  <2>1. Block(buf')
    BY <1>1, <1>3, <1>4 DEF Sound, Block, Indices
  <2>2. \A m \in Marker : OutsideGap(buf', m)
    BY <1>1, <1>3 DEF Sound, OutsideGap
  <2>3. \A p \in 1 .. buf'.z - 1 : FetchChar(buf', p) # Junk
    BY <1>1, <1>3, <1>5 DEF Sound
  <2>4. 1 <= buf'.gpt /\ buf'.gpt <= buf'.z
    BY <1>1, <1>3 DEF Sound
  <2>. QED  BY <2>1, <2>2, <2>3, <2>4 DEF Sound
<1>7. Inv'
  BY <1>1, <1>2, <1>3, <1>6, InvPartsNext
<1>8. TextOf(buf') = [i \in 1 .. Len(TextOf(buf)) |->
                        IF b <= i /\ i < e /\ TextOf(buf)[i] = fc
                        THEN tc ELSE TextOf(buf)[i]]
  <2>1. 1 .. Len(TextOf(buf)) = 1 .. buf.z - 1
    BY <1>1, TextLength
  <2>2. /\ TextOf(buf) = [p \in 1 .. buf.z - 1 |-> FetchChar(buf, p)]
        /\ TextOf(buf') = [p \in 1 .. buf.z - 1 |-> FetchChar(buf', p)]
    BY <1>3 DEF TextOf
  <2>. QED  BY <1>5, <2>1, <2>2
<1>9. \A m \in Marker : MarkerPosition(buf', m) = MarkerPosition(buf, m)
  BY <1>3 DEF MarkerPosition
<1>. QED  BY <1>2, <1>7, <1>8, <1>9 DEF Lisp!SubstCharInRegion

LEMMA GotoCharStep ==
  ASSUME Inv, NEW n \in Position, GotoChar(n)
  PROVE  Inv' /\ Lisp!GotoChar(n)
<1>1. /\ Sound(buf) /\ buf.z \in Nat
      /\ begv \in Nat /\ zv \in Nat /\ pt \in Nat
      /\ buf.z - 1 <= MaxSize
      /\ 1 <= begv /\ begv <= pt /\ pt <= zv /\ zv <= buf.z
  BY InvParts DEF Sound, Block
<1>2. buf' = buf /\ begv' = begv /\ zv' = zv /\ pt' = Clip(begv, n, zv)
  BY DEF GotoChar
<1>3. pt' \in Nat /\ begv <= pt' /\ pt' <= zv
  BY <1>1, <1>2, GapBufferAssumption DEF Clip, Position
<1>4. Inv'
  BY <1>1, <1>2, <1>3, InvPartsNext
<1>. QED  BY <1>2, <1>4 DEF Lisp!GotoChar, Lisp!Clip, Clip

LEMMA NarrowStep ==
  ASSUME Inv, NEW b \in Position, NEW e \in Position, NarrowToRegion(b, e)
  PROVE  Inv' /\ Lisp!NarrowToRegion(b, e)
<1>1. /\ Sound(buf) /\ buf.z \in Nat /\ buf.z - 1 <= MaxSize
      /\ pt \in Nat /\ b \in Nat /\ e \in Nat
  BY InvParts, GapBufferAssumption, SMTT(20) DEF Sound, Block, Position
<1>2. /\ 1 <= b /\ b <= e /\ e <= buf.z
      /\ buf' = buf /\ begv' = b /\ zv' = e
      /\ pt' = IF pt < b THEN b ELSE IF pt > e THEN e ELSE pt
  BY DEF NarrowToRegion
<1>3. pt' \in Nat /\ b <= pt' /\ pt' <= e
  BY <1>1, <1>2
<1>4. Inv'
  BY <1>1, <1>2, <1>3, InvPartsNext
<1>5. Lisp!Z = buf.z
  BY <1>1, TextLength DEF Lisp!Z
<1>. QED  BY <1>2, <1>4, <1>5 DEF Lisp!NarrowToRegion, Lisp!Clip

LEMMA WidenStep ==
  ASSUME Inv, Widen
  PROVE  Inv' /\ Lisp!Widen
<1>1. /\ Sound(buf) /\ buf.z \in Nat /\ buf.z - 1 <= MaxSize
      /\ begv \in Nat /\ zv \in Nat /\ pt \in Nat
      /\ 1 <= begv /\ begv <= pt /\ pt <= zv /\ zv <= buf.z
  BY InvParts DEF Sound, Block
<1>2. buf' = buf /\ begv' = 1 /\ zv' = buf.z /\ pt' = pt
  BY DEF Widen
<1>3. Inv'
  BY <1>1, <1>2, InvPartsNext
<1>4. Lisp!Z = buf.z
  BY <1>1, TextLength DEF Lisp!Z
<1>. QED  BY <1>2, <1>3, <1>4 DEF Lisp!Widen

\* A marker put at a position of the text reads back as that position.
LEMMA StoreMarkerStep ==
  ASSUME Inv, NEW m \in Marker, NEW charno \in 1 .. buf.z,
         StoreMarker(m, charno)
  PROVE  /\ Inv'
         /\ TextOf(buf') = TextOf(buf)
         /\ [k \in Marker |-> MarkerPosition(buf', k)]
              = [[k \in Marker |-> MarkerPosition(buf, k)]
                   EXCEPT ![m] = charno]
         /\ begv' = begv /\ zv' = zv /\ pt' = pt
<1> USE GapBufferAssumption
<1>1. /\ Sound(buf) /\ buf.z \in Nat /\ buf.gpt \in Nat /\ buf.gap \in Nat
      /\ buf.gpt <= buf.z
      /\ buf.bufpos \in [Marker -> Nat \cup {Nowhere}]
      /\ begv \in Nat /\ zv \in Nat /\ pt \in Nat
      /\ buf.z - 1 <= MaxSize
      /\ 1 <= begv /\ begv <= pt /\ pt <= zv /\ zv <= buf.z
  BY InvParts DEF Sound, Block
<1> DEFINE i == IF charno > buf.gpt THEN charno + buf.gap ELSE charno
<1>2. /\ buf'.mem = buf.mem /\ buf'.gpt = buf.gpt /\ buf'.gap = buf.gap
      /\ buf'.z = buf.z /\ buf'.bufpos = [buf.bufpos EXCEPT ![m] = i]
      /\ buf' = [mem |-> buf'.mem, gpt |-> buf'.gpt, gap |-> buf'.gap,
                 z |-> buf'.z, bufpos |-> buf'.bufpos]
      /\ begv' = begv /\ zv' = zv /\ pt' = pt
  BY DEF StoreMarker, WithMarkers
<1>3. i \in Nat /\ i # Nowhere
  BY <1>1
<1>4. \/ 1 <= i /\ i <= buf.gpt /\ charno = i
      \/ buf.gpt + buf.gap < i /\ i <= buf.z + buf.gap /\ charno = i - buf.gap
  BY <1>1
<1> HIDE DEF i
<1>5. buf'.bufpos[m] = i
  BY <1>1, <1>2
<1>6. \A k \in Marker : k # m => buf'.bufpos[k] = buf.bufpos[k]
  BY <1>1, <1>2
<1>7. OutsideGap(buf', m) /\ MarkerPosition(buf', m) = charno
  <2>1. OutsideGap(buf', m)
    BY <1>1, <1>2, <1>3, <1>4, <1>5 DEF OutsideGap
  <2>2. MarkerPosition(buf', m) = charno
    BY <1>1, <1>2, <1>3, <1>4, <1>5 DEF MarkerPosition
  <2>. QED  BY <2>1, <2>2
<1>8. ASSUME NEW k \in Marker, k # m
      PROVE  /\ OutsideGap(buf', k)
             /\ MarkerPosition(buf', k) = MarkerPosition(buf, k)
  <2>1. OutsideGap(buf, k)
    BY <1>1 DEF Sound
  <2>. QED  BY <1>2, <1>6, <1>8, <2>1 DEF OutsideGap, MarkerPosition
<1>9. \A p : FetchChar(buf', p) = FetchChar(buf, p)
  BY <1>2 DEF FetchChar, CharIndex
<1>10. Sound(buf')
  <2>1. buf'.bufpos \in [Marker -> Nat \cup {Nowhere}]
    BY <1>1, <1>2, <1>3
  <2>2. Block(buf')
    BY <1>1, <1>2, <2>1 DEF Sound, Block
  <2>3. \A k \in Marker : OutsideGap(buf', k)
    BY <1>7, <1>8
  <2>4. \A p \in 1 .. buf'.z - 1 : FetchChar(buf', p) # Junk
    BY <1>1, <1>2, <1>9 DEF Sound
  <2>5. 1 <= buf'.gpt /\ buf'.gpt <= buf'.z
    BY <1>1, <1>2 DEF Sound
  <2>. QED  BY <2>2, <2>3, <2>4, <2>5 DEF Sound
<1>11. Inv'
  BY <1>1, <1>2, <1>10, InvPartsNext
<1>12. TextOf(buf') = TextOf(buf)
  BY <1>2, <1>9 DEF TextOf
<1>13. [k \in Marker |-> MarkerPosition(buf', k)]
         = [[k \in Marker |-> MarkerPosition(buf, k)] EXCEPT ![m] = charno]
  BY <1>7, <1>8
<1>. QED  BY <1>2, <1>11, <1>12, <1>13

LEMMA SetMarkerNowhereStep ==
  ASSUME Inv, NEW m \in Marker, SetMarkerNowhere(m)
  PROVE  Inv' /\ Lisp!SetMarkerNowhere(m)
<1> USE GapBufferAssumption
<1>1. /\ Sound(buf) /\ buf.z \in Nat
      /\ buf.bufpos \in [Marker -> Nat \cup {Nowhere}]
      /\ begv \in Nat /\ zv \in Nat /\ pt \in Nat
      /\ buf.z - 1 <= MaxSize
      /\ 1 <= begv /\ begv <= pt /\ pt <= zv /\ zv <= buf.z
  BY InvParts DEF Sound, Block
<1>2. /\ buf'.mem = buf.mem /\ buf'.gpt = buf.gpt /\ buf'.gap = buf.gap
      /\ buf'.z = buf.z /\ buf'.bufpos = [buf.bufpos EXCEPT ![m] = Nowhere]
      /\ buf' = [mem |-> buf'.mem, gpt |-> buf'.gpt, gap |-> buf'.gap,
                 z |-> buf'.z, bufpos |-> buf'.bufpos]
      /\ begv' = begv /\ zv' = zv /\ pt' = pt
  BY DEF SetMarkerNowhere, WithMarkers
<1>3. buf'.bufpos[m] = Nowhere
  BY <1>1, <1>2
<1>4. \A k \in Marker : k # m => buf'.bufpos[k] = buf.bufpos[k]
  BY <1>1, <1>2
<1>5. OutsideGap(buf', m) /\ MarkerPosition(buf', m) = Nowhere
  BY <1>3 DEF OutsideGap, MarkerPosition
<1>6. ASSUME NEW k \in Marker, k # m
      PROVE  /\ OutsideGap(buf', k)
             /\ MarkerPosition(buf', k) = MarkerPosition(buf, k)
  <2>1. OutsideGap(buf, k)
    BY <1>1 DEF Sound
  <2>. QED  BY <1>2, <1>4, <1>6, <2>1 DEF OutsideGap, MarkerPosition
<1>7. \A p : FetchChar(buf', p) = FetchChar(buf, p)
  BY <1>2 DEF FetchChar, CharIndex
<1>8. Sound(buf')
  <2>1. buf'.bufpos \in [Marker -> Nat \cup {Nowhere}]
    BY <1>1, <1>2
  <2>2. Block(buf')
    BY <1>1, <1>2, <2>1 DEF Sound, Block
  <2>3. \A k \in Marker : OutsideGap(buf', k)
    BY <1>5, <1>6
  <2>4. \A p \in 1 .. buf'.z - 1 : FetchChar(buf', p) # Junk
    BY <1>1, <1>2, <1>7 DEF Sound
  <2>5. 1 <= buf'.gpt /\ buf'.gpt <= buf'.z
    BY <1>1, <1>2 DEF Sound
  <2>. QED  BY <2>2, <2>3, <2>4, <2>5 DEF Sound
<1>9. Inv'
  BY <1>1, <1>2, <1>8, InvPartsNext
<1>10. TextOf(buf') = TextOf(buf)
  BY <1>2, <1>7 DEF TextOf
<1>11. [k \in Marker |-> MarkerPosition(buf', k)]
         = [[k \in Marker |-> MarkerPosition(buf, k)] EXCEPT ![m] = Nowhere]
  BY <1>5, <1>6
<1>. QED  BY <1>2, <1>9, <1>10, <1>11 DEF Lisp!SetMarkerNowhere
-----------------------------------------------------------------------------
\* Every step keeps the invariant and is a BufferText step or none at all.
LEMMA StepSound ==
  Inv /\ [Next]_vars => Inv' /\ [Lisp!Next]_(Lisp!textVars)
<1> SUFFICES ASSUME Inv, [Next]_vars
             PROVE  Inv' /\ [Lisp!Next]_(Lisp!textVars)
  OBVIOUS
<1>1. /\ Sound(buf) /\ buf.z \in Nat
      /\ begv \in Nat /\ zv \in Nat /\ pt \in Nat
      /\ 1 <= begv /\ begv <= pt /\ pt <= zv /\ zv <= buf.z
  BY InvParts DEF Sound, Block
<1>2. Lisp!Position = Position /\ Lisp!Strings = Strings
  BY DEF Lisp!Position, Position, Lisp!Strings, Strings
<1>3. ASSUME NEW s \in Strings, Insert(s)
      PROVE  Inv' /\ [Lisp!Next]_(Lisp!textVars)
  BY <1>2, <1>3, InsertStep DEF Lisp!Next
<1>4. ASSUME NEW s \in Strings, InsertBeforeMarkers(s)
      PROVE  Inv' /\ [Lisp!Next]_(Lisp!textVars)
  BY <1>2, <1>4, InsertBeforeMarkersStep DEF Lisp!Next
<1>5. CASE InsertGivenUp
  <2>1. pt \in 1 .. buf.z
    BY <1>1
  <2>. QED  BY <1>5, <2>1, GiveUpStep DEF InsertGivenUp
<1>17. ASSUME NEW b \in Position, NEW e \in Position,
              InsertBufferSubstring(b, e)
       PROVE  Inv' /\ [Lisp!Next]_(Lisp!textVars)
  BY <1>2, <1>17, InsertBufferSubstringStep DEF Lisp!Next
<1>18. ASSUME NEW n \in 1 .. MaxInsert, InsertBufferSubstringRefused(n)
       PROVE  Inv' /\ [Lisp!Next]_(Lisp!textVars)
  BY <1>18, RoomStep
<1>6. ASSUME NEW b \in Position, NEW e \in Position, DelRange(b, e)
      PROVE  Inv' /\ [Lisp!Next]_(Lisp!textVars)
  BY <1>2, <1>6, DelRangeStep DEF Lisp!Next
<1>7. ASSUME NEW b \in Position, NEW e \in Position, DelRangeGivenUp(b, e)
      PROVE  Inv' /\ [Lisp!Next]_(Lisp!textVars)
  <2> DEFINE from == IF b < begv THEN begv ELSE b
             to == IF e > zv THEN zv ELSE e
  <2>1. from < to /\ (GiveUp(from) \/ GiveUp(to))
    BY <1>7 DEF DelRangeGivenUp, Lower, Upper
  <2>2. from \in 1 .. buf.z /\ to \in 1 .. buf.z
    BY <1>1, <2>1, GapBufferAssumption DEF Position
  <2>. QED  BY <2>1, <2>2, GiveUpStep
<1>8. ASSUME NEW b \in Position, NEW e \in Position, BufferSubstring(b, e)
      PROVE  Inv' /\ [Lisp!Next]_(Lisp!textVars)
  <2>1. GiveUp(b) /\ b \in 1 .. buf.z
    BY <1>1, <1>8, GapBufferAssumption DEF BufferSubstring, Position
  <2>. QED  BY <2>1, GiveUpStep
<1>9. ASSUME NEW b \in Position, NEW e \in Position,
             NEW c \in Char, NEW d \in Char, SubstCharInRegion(b, e, c, d)
      PROVE  Inv' /\ [Lisp!Next]_(Lisp!textVars)
  BY <1>2, <1>9, SubstStep DEF Lisp!Next
<1>10. ASSUME NEW n \in Position, GotoChar(n)
       PROVE  Inv' /\ [Lisp!Next]_(Lisp!textVars)
  BY <1>2, <1>10, GotoCharStep DEF Lisp!Next
<1>11. ASSUME NEW b \in Position, NEW e \in Position, NarrowToRegion(b, e)
       PROVE  Inv' /\ [Lisp!Next]_(Lisp!textVars)
  BY <1>2, <1>11, NarrowStep DEF Lisp!Next
<1>12. CASE Widen
  BY <1>12, WidenStep DEF Lisp!Next
<1>13. ASSUME NEW m \in Marker, NEW n \in Position, SetMarker(m, n)
       PROVE  Inv' /\ [Lisp!Next]_(Lisp!textVars)
  <2> DEFINE charno == Clip(1, n, buf.z)
  <2>1. charno \in 1 .. buf.z /\ StoreMarker(m, charno)
    BY <1>1, <1>13, GapBufferAssumption DEF SetMarker, Clip, Position
  <2>2. charno = Lisp!Clip(1, n, Lisp!Z)
    BY <1>1, TextLength DEF Lisp!Clip, Lisp!Z, Clip
  <2> HIDE DEF charno
  <2>3. Inv' /\ Lisp!SetMarker(m, n)
    BY <2>1, <2>2, StoreMarkerStep DEF Lisp!SetMarker
  <2>. QED  BY <1>2, <2>3 DEF Lisp!Next
<1>14. ASSUME NEW m \in Marker, NEW n \in Position, SetMarkerRestricted(m, n)
       PROVE  Inv' /\ [Lisp!Next]_(Lisp!textVars)
  <2> DEFINE charno == Clip(begv, n, zv)
  <2>1. charno \in 1 .. buf.z /\ StoreMarker(m, charno)
    BY <1>1, <1>14, GapBufferAssumption DEF SetMarkerRestricted, Clip, Position
  <2>2. charno = Lisp!Clip(begv, n, zv)
    BY DEF Lisp!Clip, Clip
  <2> HIDE DEF charno
  <2>3. Inv' /\ Lisp!SetMarkerRestricted(m, n)
    BY <2>1, <2>2, StoreMarkerStep DEF Lisp!SetMarkerRestricted
  <2>. QED  BY <1>2, <2>3 DEF Lisp!Next
<1>15. ASSUME NEW m \in Marker, SetMarkerNowhere(m)
       PROVE  Inv' /\ [Lisp!Next]_(Lisp!textVars)
  BY <1>15, SetMarkerNowhereStep DEF Lisp!Next
<1>16. CASE UNCHANGED vars
  <2>1. buf' = buf /\ begv' = begv /\ zv' = zv /\ pt' = pt
    BY <1>16 DEF vars
  <2>2. Inv'
    BY <2>1, InvParts, InvPartsNext
  <2>. QED  BY <2>1, <2>2 DEF Lisp!textVars
<1>. QED
  BY <1>3, <1>4, <1>5, <1>6, <1>7, <1>8, <1>9, <1>10, <1>11, <1>12, <1>13,
     <1>14, <1>15, <1>16, <1>17, <1>18 DEF Next

\* The storage is well-formed at all times, quits and failures included.
THEOREM InvHolds == Spec => []Inv
<1>1. Init => Inv
  BY InitSound
<1>2. Inv /\ [Next]_vars => Inv'
  BY StepSound
<1>. QED  BY <1>1, <1>2, PTL DEF Spec

\* The block is always as long as the text and the gap together.
THEOREM TypeCorrect == Spec => []TypeOK
<1>1. Inv => TypeOK
  BY DEF Inv
<1>. QED  BY <1>1, InvHolds, PTL

\* Point, narrowing and gap never leave the text, which never outgrows a Lisp
\* integer.
THEOREM PositionsStayOrdered == Spec => []PositionsOrdered
<1>1. Inv => PositionsOrdered
  BY DEF Inv
<1>. QED  BY <1>1, InvHolds, PTL

\* marker-position never reaches abort ().
THEOREM MarkersStayOutsideGap == Spec => []MarkersOutsideGap
<1>1. Inv => MarkersOutsideGap
  BY DEF Inv
<1>. QED  BY <1>1, InvHolds, PTL

\* Uninitialised or dead bytes never show up as text.
THEOREM NoJunkEver == Spec => []NoJunkInText
<1>1. Inv => NoJunkInText
  BY DEF Inv
<1>. QED  BY <1>1, InvHolds, PTL

\* insdel.c and marker.c implement the buffer Lisp programs believe in.
THEOREM GapBufferImplementsBufferText == Spec => ImplementsBufferText
<1>1. Init => Lisp!Init
  BY InitSound
<1>2. Inv /\ [Next]_vars => [Lisp!Next]_(Lisp!textVars)
  BY StepSound
<1>. QED  BY <1>1, <1>2, InvHolds, PTL DEF Spec, ImplementsBufferText, Lisp!Spec

\* insert-buffer-substring inserts the substring it was asked for, unless
\* point lies inside of it.
THEOREM InsertsSubstringBesidePointHolds == Spec => InsertsSubstringBesidePoint
<1>1. Inv /\ [Next]_vars =>
        [\A b, e \in Position :
           InsertBufferSubstring(b, e) /\ ~ (b < pt /\ pt < e)
             => Duplicates(b, e)]_vars
  BY BesidePoint
<1>. QED  BY <1>1, InvHolds, PTL DEF Spec, InsertsSubstringBesidePoint

-----------------------------------------------------------------------------
(***************************************************************************)
(* What redisplay leaves alone is right, for every size, chunk and text:   *)
(* the end of the buffer always, the start too unless text went in at a    *)
(* gap that beg_unchanged lay beyond.  Two facts make it so.  An edit at   *)
(* some place leaves the characters before it and behind it as they were,  *)
(* and after every edit what is kept reaches no further than that place;   *)
(* and what is kept, the gap included, never grows until the screen is     *)
(* right again, however far short of its goal a motion of the gap stopped. *)
(***************************************************************************)
SameStart(t, u, n) == \A i \in 1 .. n : t[i] = u[i]
SameEnd(t, u, n) == \A i \in 0 .. n - 1 : t[Len(t) - i] = u[Len(u) - i]

EndRight(t, u, j) == j <= Len(u) /\ SameEnd(t, u, j)
StartRight(t, u, i, j) == i + j <= Len(u) /\ SameStart(t, u, i)

\* u becomes t by a change after the first lo and before the last hi
\* characters.
ChangedWithin(t, u, lo, hi) ==
  /\ lo \in Nat /\ hi \in Nat
  /\ lo + hi <= Len(t) /\ lo + hi <= Len(u)
  /\ SameStart(t, u, lo) /\ SameEnd(t, u, hi)

KeptRight(t, u, kept, over) ==
  /\ EndRight(t, u, kept.end)
  /\ over \/ StartRight(t, u, kept.beg, kept.end)

IsHints(h) == h.beg \in Int /\ h.end \in Int

\* A screen that is right shows the text; while it is not, what redisplay
\* would keep is right.
HintOK ==
  /\ IsHints(hints)
  /\ edited \in BOOLEAN /\ overrun \in BOOLEAN
  /\ shown \in Seq(Char)
  /\ ~ edited => TextOf(buf) = shown
  /\ edited => KeptRight(TextOf(buf), shown, Kept(hints, buf), overrun)

HintInv == Inv /\ HintOK
-----------------------------------------------------------------------------
\* The characters before and behind an insertion are as they were.
LEMMA SplicedWithin ==
  ASSUME NEW t \in Seq(Char), NEW s \in Seq(Char), NEW p \in 1 .. Len(t) + 1
  PROVE  /\ Lisp!Spliced(t, p, s) \in Seq(Char)
         /\ ChangedWithin(Lisp!Spliced(t, p, s), t, p - 1, Len(t) + 1 - p)
<1> DEFINE u == Lisp!Spliced(t, p, s)
           n == Len(s)
           k == Len(t)
<1>1. k \in Nat /\ n \in Nat /\ p \in Nat /\ 1 <= p /\ p <= k + 1
  OBVIOUS
<1>2. u = [i \in 1 .. k + n |->
             IF i < p THEN t[i] ELSE IF i < p + n THEN s[i - p + 1]
             ELSE t[i - n]]
  BY DEF Lisp!Spliced
<1>3. u \in Seq(Char) /\ Len(u) = k + n
  <2>1. ASSUME NEW i \in 1 .. k + n
        PROVE  (IF i < p THEN t[i] ELSE IF i < p + n THEN s[i - p + 1]
                ELSE t[i - n]) \in Char
    BY <1>1, <2>1
  <2> HIDE DEF u, k, n
  <2>2. u \in [1 .. k + n -> Char]
    BY <1>2, <2>1
  <2>3. k + n \in Nat
    BY <1>1
  <2>. QED  BY <2>2, <2>3
<1>0. Len(t) = k
  OBVIOUS
<1> HIDE DEF u, k, n
<1>4. SameStart(u, t, p - 1)
  BY <1>1, <1>2 DEF SameStart
<1>5. ASSUME NEW i \in 0 .. (k + 1 - p) - 1
      PROVE  u[Len(u) - i] = t[Len(t) - i]
  <2>1. k + n - i \in 1 .. k + n /\ ~ (k + n - i < p)
        /\ ~ (k + n - i < p + n) /\ (k + n - i) - n = k - i
    BY <1>1
  <2>2. u[k + n - i] = t[k - i]
    BY <1>2, <2>1
  <2>3. Len(u) - i = k + n - i /\ Len(t) - i = k - i
    BY <1>0, <1>1, <1>3
  <2>. QED  BY <2>2, <2>3
<1>6. SameEnd(u, t, k + 1 - p)
  BY <1>5 DEF SameEnd
<1>7. /\ p - 1 \in Nat /\ k + 1 - p \in Nat
      /\ (p - 1) + (k + 1 - p) <= k
      /\ (p - 1) + (k + 1 - p) <= k + n
  BY <1>1
<1>. QED  BY <1>3, <1>4, <1>6, <1>7 DEF ChangedWithin, u, k

\* ... as are those around a deletion,
LEMMA CutWithin ==
  ASSUME NEW t \in Seq(Char), NEW from \in Nat, NEW to \in Nat,
         1 <= from, from <= to, to <= Len(t) + 1
  PROVE  /\ Lisp!Cut(t, from, to) \in Seq(Char)
         /\ ChangedWithin(Lisp!Cut(t, from, to), t,
                          from - 1, Len(t) + 1 - to)
<1> DEFINE u == Lisp!Cut(t, from, to)
           k == Len(t)
           d == to - from
<1>1. k \in Nat /\ d \in Nat /\ to = from + d /\ from + d <= k + 1
      /\ k - d \in Nat
  OBVIOUS
<1>2. u = [i \in 1 .. k - d |-> IF i < from THEN t[i] ELSE t[i + d]]
  BY DEF Lisp!Cut
<1>3. u \in Seq(Char) /\ Len(u) = k - d
  <2>1. ASSUME NEW i \in 1 .. k - d
        PROVE  (IF i < from THEN t[i] ELSE t[i + d]) \in Char
    <3>1. i \in 1 .. k /\ i + d \in 1 .. k
      BY <1>1
    <3>. QED  BY <3>1
  <2> HIDE DEF u, k, d
  <2>2. u \in [1 .. k - d -> Char]
    BY <1>2, <2>1
  <2>. QED  BY <1>1, <2>2
<1> HIDE DEF u, k, d
<1>4. SameStart(u, t, from - 1)
  BY <1>1, <1>2 DEF SameStart
<1>5. ASSUME NEW i \in 0 .. (k + 1 - to) - 1
      PROVE  u[Len(u) - i] = t[Len(t) - i]
  <2>1. k - d - i \in 1 .. k - d /\ ~ (k - d - i < from)
        /\ (k - d - i) + d = k - i
    BY <1>1
  <2>2. u[k - d - i] = t[k - i]
    BY <1>2, <2>1
  <2>. QED  BY <1>3, <2>2 DEF k
<1>6. SameEnd(u, t, k + 1 - to)
  BY <1>5 DEF SameEnd
<1>7. /\ from - 1 \in Nat /\ k + 1 - to \in Nat
      /\ (from - 1) + (k + 1 - to) <= k
      /\ (from - 1) + (k + 1 - to) <= k - d
  BY <1>1
<1>. QED  BY <1>3, <1>4, <1>6, <1>7 DEF ChangedWithin, u, k

\* ... and around characters replaced in place.
LEMMA ReplacedWithin ==
  ASSUME NEW t \in Seq(Char), NEW b \in Nat, NEW e \in Nat,
         1 <= b, b <= e, e <= Len(t) + 1, NEW fc \in Char, NEW tc \in Char,
         NEW u, u = [i \in 1 .. Len(t) |->
                       IF b <= i /\ i < e /\ t[i] = fc THEN tc ELSE t[i]]
  PROVE  u \in Seq(Char) /\ ChangedWithin(u, t, b - 1, Len(t) + 1 - e)
<1> DEFINE k == Len(t)
<1>1. k \in Nat /\ e <= k + 1
  OBVIOUS
<1>2. u \in Seq(Char) /\ Len(u) = k
  OBVIOUS
<1> HIDE DEF k
<1>3. SameStart(u, t, b - 1)
  BY <1>1 DEF SameStart, k
<1>4. ASSUME NEW i \in 0 .. (k + 1 - e) - 1
      PROVE  u[Len(u) - i] = t[Len(t) - i]
  <2>1. k - i \in 1 .. k /\ ~ (k - i < e)
    BY <1>1
  <2>. QED  BY <1>2, <2>1 DEF k
<1>5. SameEnd(u, t, k + 1 - e)
  BY <1>4 DEF SameEnd
<1>6. /\ b - 1 \in Nat /\ k + 1 - e \in Nat
      /\ (b - 1) + (k + 1 - e) <= k
  BY <1>1
<1>. QED  BY <1>2, <1>3, <1>5, <1>6 DEF ChangedWithin, k

\* Keeping less is right too.
LEMMA KeepingLess ==
  ASSUME NEW t \in Seq(Char), NEW u \in Seq(Char),
         NEW h, IsHints(h), NEW k, IsHints(k), NEW over \in BOOLEAN,
         KeptRight(t, u, h, over), k.beg <= h.beg, k.end <= h.end
  PROVE  KeptRight(t, u, k, over)
<1>1. Len(u) \in Nat
  OBVIOUS
<1>2. EndRight(t, u, k.end)
  <2>1. h.end <= Len(u) /\ SameEnd(t, u, h.end)
    BY DEF KeptRight, EndRight
  <2>. QED  BY <1>1, <2>1 DEF IsHints, EndRight, SameEnd
<1>3. ASSUME ~ over
      PROVE  StartRight(t, u, k.beg, k.end)
  <2>1. h.beg + h.end <= Len(u) /\ SameStart(t, u, h.beg)
    BY <1>3 DEF KeptRight, StartRight
  <2>. QED  BY <1>1, <2>1 DEF IsHints, StartRight, SameStart
<1>. QED  BY <1>2, <1>3 DEF KeptRight

\* What is kept beside the place of an edit is still right after it.
LEMMA KeptBesideEdit ==
  ASSUME NEW t \in Seq(Char), NEW u \in Seq(Char), NEW w \in Seq(Char),
         NEW lo, NEW hi, ChangedWithin(w, t, lo, hi),
         NEW k, IsHints(k), k.end <= hi,
         NEW over \in BOOLEAN, over \/ k.beg <= lo,
         t = u \/ KeptRight(t, u, k, over)
  PROVE  KeptRight(w, u, k, over)
<1>1. /\ Len(t) \in Nat /\ Len(u) \in Nat /\ Len(w) \in Nat
      /\ lo \in Nat /\ hi \in Nat /\ lo + hi <= Len(t)
      /\ k.beg \in Int /\ k.end \in Int
  BY DEF ChangedWithin, IsHints
<1>2. EndRight(w, u, k.end)
  <2>1. k.end <= Len(u) /\ SameEnd(t, u, k.end)
    <3>1. CASE t = u
      BY <1>1, <3>1 DEF SameEnd
    <3>2. CASE KeptRight(t, u, k, over)
      BY <3>2 DEF KeptRight, EndRight
    <3>. QED  BY <3>1, <3>2
  <2>2. SameEnd(w, u, k.end)
    <3>1. ASSUME NEW i \in 0 .. k.end - 1
          PROVE  w[Len(w) - i] = u[Len(u) - i]
      <4>1. i \in 0 .. hi - 1
        BY <1>1
      <4>2. w[Len(w) - i] = t[Len(t) - i]
        BY <4>1 DEF ChangedWithin, SameEnd
      <4>3. t[Len(t) - i] = u[Len(u) - i]
        BY <2>1 DEF SameEnd
      <4>. QED  BY <4>2, <4>3
    <3>. QED  BY <3>1 DEF SameEnd
  <2>. QED  BY <2>1, <2>2 DEF EndRight
<1>3. ASSUME ~ over
      PROVE  StartRight(w, u, k.beg, k.end)
  <2>1. k.beg + k.end <= Len(u) /\ SameStart(t, u, k.beg)
    <3>1. CASE t = u
      BY <1>1, <1>3, <3>1 DEF SameStart
    <3>2. CASE KeptRight(t, u, k, over)
      BY <1>3, <3>2 DEF KeptRight, StartRight
    <3>. QED  BY <3>1, <3>2
  <2>2. SameStart(w, u, k.beg)
    <3>1. ASSUME NEW i \in 1 .. k.beg
          PROVE  w[i] = u[i]
      <4>1. i \in 1 .. lo
        BY <1>1, <1>3
      <4>2. w[i] = t[i]
        BY <4>1 DEF ChangedWithin, SameStart
      <4>3. t[i] = u[i]
        BY <2>1 DEF SameStart
      <4>. QED  BY <4>2, <4>3
    <3>. QED  BY <3>1 DEF SameStart
  <2>. QED  BY <2>1, <2>2 DEF StartRight
<1>. QED  BY <1>2, <1>3 DEF KeptRight
-----------------------------------------------------------------------------

\* Where the gap lies and how far the hints reach, in numbers.
LEMMA HintNumbers ==
  ASSUME HintInv
  PROVE  /\ buf.gpt \in Nat /\ buf.z \in Nat /\ 1 <= buf.gpt
         /\ buf.gpt <= buf.z
         /\ hints.beg \in Int /\ hints.end \in Int
         /\ TextOf(buf) \in Seq(Char) /\ Len(TextOf(buf)) = buf.z - 1
         /\ pt \in Nat /\ begv \in Nat /\ zv \in Nat
         /\ 1 <= begv /\ begv <= pt /\ pt <= zv /\ zv <= buf.z
         /\ edited \in BOOLEAN /\ overrun \in BOOLEAN
         /\ shown \in Seq(Char)
<1>1. Sound(buf)
  BY InvParts DEF HintInv
<1>2. TextOf(buf) \in Seq(Char) /\ Len(TextOf(buf)) = buf.z - 1
  BY <1>1, TextIsSeq, TextLength
<1>. QED
  BY <1>1, <1>2, InvParts DEF HintInv, HintOK, IsHints, Sound, Block

\* What is kept with the gap at g and the hints i and j.
LEMMA KeptFields ==
  ASSUME NEW h, NEW b
  PROVE  /\ Kept(h, b).beg = Least(h.beg, b.gpt - 1)
         /\ Kept(h, b).end = Least(h.end, b.z - b.gpt)
  BY DEF Kept, AtMost

LEMMA KeptIsHints ==
  ASSUME NEW h, IsHints(h), NEW b, b.gpt \in Nat, b.z \in Nat
  PROVE  IsHints(Kept(h, b))
<1>1. /\ Kept(h, b).beg = Least(h.beg, b.gpt - 1)
      /\ Kept(h, b).end = Least(h.end, b.z - b.gpt)
  BY KeptFields
<1>2. h.beg \in Int /\ h.end \in Int
      /\ b.gpt - 1 \in Int /\ b.z - b.gpt \in Int
  BY DEF IsHints
<1>3. Kept(h, b).beg \in Int /\ Kept(h, b).end \in Int
  BY <1>1, <1>2, Zenon DEF Least
<1>. QED  BY <1>3 DEF IsHints

\* The hints before the gap leaves for pos.
LEMMA HintMoveFields ==
  ASSUME NEW pos
  PROVE  /\ IsHints(hints) /\ pos \in Nat /\ buf.z \in Nat /\ buf.gpt \in Nat
              => IsHints(HintMove(pos))
         /\ HintMove(pos).beg =
              IF pos < buf.gpt
              THEN IF edited THEN Least(hints.beg, pos - 1) ELSE pos - 1
              ELSE IF pos > buf.gpt
                   THEN IF edited THEN Least(hints.beg, buf.gpt - 1)
                        ELSE pos - 1
                   ELSE hints.beg
         /\ HintMove(pos).end =
              IF pos < buf.gpt
              THEN IF edited THEN Least(hints.end, buf.z - buf.gpt)
                   ELSE buf.z - pos
              ELSE IF pos > buf.gpt
                   THEN IF edited THEN Least(hints.end, buf.z - pos)
                        ELSE buf.z - pos
                   ELSE hints.end
<1>1. /\ HintMove(pos).beg =
              IF pos < buf.gpt
              THEN IF edited THEN Least(hints.beg, pos - 1) ELSE pos - 1
              ELSE IF pos > buf.gpt
                   THEN IF edited THEN Least(hints.beg, buf.gpt - 1)
                        ELSE pos - 1
                   ELSE hints.beg
      /\ HintMove(pos).end =
              IF pos < buf.gpt
              THEN IF edited THEN Least(hints.end, buf.z - buf.gpt)
                   ELSE buf.z - pos
              ELSE IF pos > buf.gpt
                   THEN IF edited THEN Least(hints.end, buf.z - pos)
                        ELSE buf.z - pos
                   ELSE hints.end
  BY DEF HintMove, HintLeft, HintRight, Noted, Bound, AtMost
<1>2. IsHints(hints) /\ pos \in Nat /\ buf.z \in Nat /\ buf.gpt \in Nat
        => IsHints(HintMove(pos))
  BY <1>1 DEF IsHints, Least
<1>. QED  BY <1>1, <1>2

\* What HintOK asks after a step, once the text is known.
LEMMA HintOKNext ==
  ASSUME IsHints(hints'), edited' \in BOOLEAN, overrun' \in BOOLEAN,
         shown' \in Seq(Char),
         ~ edited' => TextOf(buf') = shown',
         edited' => KeptRight(TextOf(buf'), shown', Kept(hints', buf'),
                              overrun')
  PROVE  HintOK'
  BY DEF HintOK, IsHints, KeptRight, EndRight, StartRight, SameEnd, SameStart,
         Kept, AtMost, TextOf, FetchChar, CharIndex
-----------------------------------------------------------------------------
LEMMA InitHints == HintInit => HintInv
<1> SUFFICES ASSUME HintInit PROVE HintInv
  OBVIOUS
<1>1. /\ Init /\ edited = FALSE /\ overrun = FALSE /\ shown = << >>
      /\ hints = [beg |-> 0, end |-> 0]
  BY DEF HintInit
<1>2. Inv
  BY <1>1, InitSound
<1>3. TextOf(buf) = << >>
  BY <1>1, GapBufferAssumption DEF Init, TextOf
<1>4. HintOK
  <2>1. IsHints(hints)
    BY <1>1 DEF IsHints
  <2>2. shown \in Seq(Char)
    BY <1>1
  <2>3. overrun \in BOOLEAN /\ edited \in BOOLEAN /\ ~ edited
    BY <1>1, Zenon
  <2>. QED  BY <1>1, <1>3, <2>1, <2>2, <2>3 DEF HintOK
<1>. QED  BY <1>2, <1>4 DEF HintInv

\* A gap on its way to pos, wherever it stops, keeps no more than before.
LEMMA MovedKeepsLess ==
  ASSUME HintInv, NEW pos \in 1 .. buf.z, GiveUp(pos), MovedOnly(pos)
  PROVE  HintInv'
<1>1. /\ buf.gpt \in Nat /\ buf.z \in Nat /\ 1 <= buf.gpt
      /\ buf.gpt <= buf.z
      /\ hints.beg \in Int /\ hints.end \in Int
      /\ TextOf(buf) \in Seq(Char) /\ shown \in Seq(Char)
      /\ edited \in BOOLEAN /\ overrun \in BOOLEAN
  BY HintNumbers
<1>2. Inv' /\ TextOf(buf') = TextOf(buf)
  BY GiveUpStep DEF HintInv, Lisp!textVars
<1>3. /\ hints' = HintMove(pos) /\ edited' = edited /\ shown' = shown
      /\ overrun' = overrun
  BY DEF MovedOnly
<1>4. PICK stop \in Stops(buf, pos) : buf' = MoveGap(buf, stop)
  BY DEF GiveUp
<1>5. /\ stop \in Nat /\ 1 <= stop /\ stop <= buf.z
      /\ pos <= buf.gpt => pos <= stop /\ stop <= buf.gpt
      /\ buf.gpt <= pos => buf.gpt <= stop /\ stop <= pos
  BY <1>1 DEF Stops
<1>6. buf'.gpt = stop /\ buf'.z = buf.z
  <2>1. Sound(buf)
    BY InvParts DEF HintInv
  <2>2. stop \in 1 .. buf.z
    BY <1>1, <1>5
  <2>. QED  BY <1>4, <2>1, <2>2, MoveGapSound DEF SameText
<1>7. IsHints(hints')
  <2>1. pos \in Nat
    BY <1>1
  <2>. QED  BY <1>1, <1>3, <2>1, HintMoveFields DEF IsHints
<1>8. ASSUME edited
      PROVE  KeptRight(TextOf(buf), shown, Kept(hints', buf'), overrun)
  <2>1. /\ Kept(hints', buf').beg <= Kept(hints, buf).beg
        /\ Kept(hints', buf').end <= Kept(hints, buf).end
    <3>1. /\ Kept(hints', buf').beg = Least(HintMove(pos).beg, stop - 1)
          /\ Kept(hints', buf').end = Least(HintMove(pos).end, buf.z - stop)
          /\ Kept(hints, buf).beg = Least(hints.beg, buf.gpt - 1)
          /\ Kept(hints, buf).end = Least(hints.end, buf.z - buf.gpt)
      BY <1>3, <1>6, KeptFields
    <3>2. /\ HintMove(pos).beg = IF pos < buf.gpt THEN Least(hints.beg, pos - 1)
                                 ELSE IF pos > buf.gpt
                                      THEN Least(hints.beg, buf.gpt - 1)
                                      ELSE hints.beg
          /\ HintMove(pos).end = IF pos < buf.gpt
                                 THEN Least(hints.end, buf.z - buf.gpt)
                                 ELSE IF pos > buf.gpt
                                      THEN Least(hints.end, buf.z - pos)
                                      ELSE hints.end
      BY <1>8, HintMoveFields
    <3>3. pos \in Nat
      BY <1>1
    <3> DEFINE B == hints.beg  E == hints.end  mB == HintMove(pos).beg
               mE == HintMove(pos).end  g == buf.gpt  z == buf.z
    <3>4. /\ Least(mB, stop - 1) <= Least(B, g - 1)
          /\ Least(mE, z - stop) <= Least(E, z - g)
      <4>1. /\ g \in Nat /\ z \in Nat /\ B \in Int /\ E \in Int
            /\ stop \in Nat /\ pos \in Nat
            /\ pos <= g => pos <= stop /\ stop <= g
            /\ g <= pos => g <= stop /\ stop <= pos
        BY <1>1, <1>5, <3>3
      <4>2. /\ mB = IF pos < g THEN Least(B, pos - 1)
                    ELSE IF pos > g THEN Least(B, g - 1) ELSE B
            /\ mE = IF pos < g THEN Least(E, z - g)
                    ELSE IF pos > g THEN Least(E, z - pos) ELSE E
        BY <3>2
      <4> HIDE DEF B, E, mB, mE, g, z
      <4>. QED  BY <4>1, <4>2 DEF Least
    <3>. QED  BY <3>1, <3>4
  <2>2. IsHints(Kept(hints, buf)) /\ IsHints(Kept(hints', buf'))
    <3>1. IsHints(hints) /\ buf'.gpt \in Nat /\ buf'.z \in Nat
      BY <1>1, <1>5, <1>6 DEF IsHints
    <3>. QED  BY <1>1, <1>7, <3>1, KeptIsHints
  <2>3. KeptRight(TextOf(buf), shown, Kept(hints, buf), overrun)
    BY <1>8 DEF HintInv, HintOK
  <2>. QED  BY <1>1, <2>1, <2>2, <2>3, KeepingLess
<1>9. ~ edited => TextOf(buf) = shown
  BY DEF HintInv, HintOK
<1>10. HintOK'
  BY <1>1, <1>2, <1>3, <1>7, <1>8, <1>9, HintOKNext
<1>. QED  BY <1>2, <1>10 DEF HintInv

\* An edit between the first lo and the last hi characters, after which no
\* more is kept than before and nothing of the place itself.
LEMMA EditKeepsRight ==
  ASSUME HintInv, Inv',
         NEW lo, NEW hi, ChangedWithin(TextOf(buf'), TextOf(buf), lo, hi),
         edited' = TRUE, shown' = shown, overrun' \in BOOLEAN,
         overrun => overrun',
         IsHints(hints'),
         Kept(hints', buf').end <= hi,
         overrun' \/ Kept(hints', buf').beg <= lo,
         edited => Kept(hints', buf').end <= Kept(hints, buf).end,
         edited => overrun' \/ Kept(hints', buf').beg <= Kept(hints, buf).beg
  PROVE  HintInv'
<1> DEFINE k == Kept(hints', buf')
           h == Kept(hints, buf)
           o == overrun'
<1>1. /\ buf.gpt \in Nat /\ buf.z \in Nat
      /\ hints.beg \in Int /\ hints.end \in Int
      /\ TextOf(buf) \in Seq(Char) /\ shown \in Seq(Char)
      /\ edited \in BOOLEAN /\ overrun \in BOOLEAN
  BY HintNumbers
<1>2. Sound(buf')
  BY DEF Inv, TypeOK, PositionsOrdered, MarkersOutsideGap, NoJunkInText,
         Sound, Block, OutsideGap, FetchChar, CharIndex
<1>3. TextOf(buf') \in Seq(Char) /\ buf'.gpt \in Nat /\ buf'.z \in Nat
  BY <1>2, TextIsSeq DEF Sound, Block
<1>4. IsHints(k) /\ IsHints(h)
  BY <1>1, <1>3, KeptIsHints DEF IsHints
<1>5. TextOf(buf) = shown \/ KeptRight(TextOf(buf), shown, k, o)
  <2>1. CASE ~ edited
    BY <2>1 DEF HintInv, HintOK
  <2>2. CASE edited
    <3>1. KeptRight(TextOf(buf), shown, h, overrun)
      BY <2>2 DEF HintInv, HintOK
    <3>2. EndRight(TextOf(buf), shown, h.end)
      BY <3>1 DEF KeptRight
    <3>3. KeptRight(TextOf(buf), shown, h, o)
      BY <3>1 DEF KeptRight
    <3> HIDE DEF h, k, o
    <3>4. k.end <= h.end /\ (o \/ k.beg <= h.beg)
      BY <2>2 DEF h, k, o
    <3>5. o \in BOOLEAN
      BY DEF o
    <3>6. CASE ~ o
      BY <1>1, <1>4, <3>3, <3>4, <3>5, <3>6, KeepingLess
    <3>7. CASE o
      <4>1. Len(shown) \in Nat
        BY <1>1
      <4>2. EndRight(TextOf(buf), shown, k.end)
        BY <1>4, <3>2, <3>4, <4>1 DEF EndRight, SameEnd, IsHints
      <4>. QED  BY <3>7, <4>2 DEF KeptRight
    <3>. QED  BY <3>6, <3>7
  <2>. QED  BY <1>1, <2>1, <2>2
<1>6. KeptRight(TextOf(buf'), shown, k, o)
  <2>1. k.end <= hi /\ (o \/ k.beg <= lo) /\ o \in BOOLEAN
    OBVIOUS
  <2> HIDE DEF h, k, o
  <2>. QED  BY <1>1, <1>3, <1>4, <1>5, <2>1, KeptBesideEdit
<1>7. HintOK'
  BY <1>1, <1>6, HintOKNext
<1>. QED  BY <1>7 DEF HintInv

\* An insertion: nothing redisplay keeps reaches into the new text from
\* behind, nor from before unless the hint lay beyond the gap.
LEMMA GrownStep ==
  ASSUME HintInv, Inv', NEW s \in Strings,
         TextOf(buf') = Lisp!Spliced(TextOf(buf), pt, s),
         buf'.z = buf.z + Len(s), buf'.gpt = pt + Len(s), Grown
  PROVE  HintInv'
<1> DEFINE lo == pt - 1
           hi == buf.z - pt
<1>1. /\ buf.gpt \in Nat /\ buf.z \in Nat /\ 1 <= buf.gpt
      /\ buf.gpt <= buf.z /\ 1 <= pt /\ pt <= buf.z /\ pt \in Nat
      /\ hints.beg \in Int /\ hints.end \in Int
      /\ TextOf(buf) \in Seq(Char) /\ Len(TextOf(buf)) = buf.z - 1
      /\ edited \in BOOLEAN /\ overrun \in BOOLEAN
  BY HintNumbers
<1>2. s \in Seq(Char) /\ Len(s) \in Nat
  BY StringLength
<1>3. /\ hints' = HintMove(pt) /\ edited' = TRUE /\ shown' = shown
      /\ overrun' = (overrun \/ (pt = buf.gpt /\ hints.beg > pt - 1))
  BY DEF Grown, Changed
<1>4. ChangedWithin(TextOf(buf'), TextOf(buf), lo, hi)
  <2>1. pt \in 1 .. Len(TextOf(buf)) + 1
        /\ Len(TextOf(buf)) + 1 - pt = buf.z - pt
    BY <1>1
  <2>2. ChangedWithin(Lisp!Spliced(TextOf(buf), pt, s), TextOf(buf),
                      pt - 1, Len(TextOf(buf)) + 1 - pt)
    BY <1>1, <1>2, <2>1, SplicedWithin
  <2>. QED  BY <2>1, <2>2
<1>5. IsHints(hints')
  BY <1>1, <1>3, HintMoveFields DEF IsHints
<1>6. overrun' \in BOOLEAN /\ (overrun => overrun')
  BY <1>1, <1>3
<1> DEFINE B == hints.beg  E == hints.end  mB == HintMove(pt).beg
           mE == HintMove(pt).end  g == buf.gpt  z == buf.z  n == Len(s)
           kB == Kept(hints', buf').beg  kE == Kept(hints', buf').end
<1>7. /\ kB = Least(mB, pt + n - 1) /\ kE = Least(mE, z - pt)
      /\ Kept(hints, buf).beg = Least(B, g - 1)
      /\ Kept(hints, buf).end = Least(E, z - g)
  <2>1. (z + n) - (pt + n) = z - pt
    BY <1>1, <1>2
  <2>2. /\ Kept(hints', buf').beg = Least(hints'.beg, buf'.gpt - 1)
        /\ Kept(hints', buf').end = Least(hints'.end, buf'.z - buf'.gpt)
        /\ Kept(hints, buf).beg = Least(hints.beg, buf.gpt - 1)
        /\ Kept(hints, buf).end = Least(hints.end, buf.z - buf.gpt)
    BY KeptFields
  <2>3. /\ hints'.beg = mB /\ hints'.end = mE
        /\ buf'.gpt = pt + n /\ buf'.z = z + n
    BY <1>3
  <2>5. /\ buf'.gpt - 1 = pt + n - 1
        /\ buf'.z - buf'.gpt = z - pt
    BY <1>1, <1>2, <2>1, <2>3
  <2> HIDE DEF B, E, mB, mE, kB, kE, n
  <2>4. /\ Kept(hints', buf').beg = Least(mB, pt + n - 1)
        /\ Kept(hints', buf').end = Least(mE, z - pt)
    BY <2>2, <2>3, <2>5, Zenon
  <2>. QED  BY <2>2, <2>4 DEF B, E, kB, kE
<1>8. /\ mB = IF pt < g THEN IF edited THEN Least(B, pt - 1) ELSE pt - 1
              ELSE IF pt > g THEN IF edited THEN Least(B, g - 1) ELSE pt - 1
                   ELSE B
      /\ mE = IF pt < g THEN IF edited THEN Least(E, z - g) ELSE z - pt
              ELSE IF pt > g THEN IF edited THEN Least(E, z - pt) ELSE z - pt
                   ELSE E
  BY HintMoveFields
<1>9. g \in Nat /\ z \in Nat /\ B \in Int /\ E \in Int /\ n \in Nat
      /\ pt \in Nat /\ 1 <= pt /\ pt <= z
  BY <1>1, <1>2
<1>10. ~ overrun' => pt # g \/ B <= pt - 1
  <2>1. ~ overrun' => ~ (pt = g /\ B > pt - 1)
    BY <1>3, Zenon
  <2>2. ~ (B > pt - 1) => B <= pt - 1
    BY <1>1
  <2>. QED  BY <2>1, <2>2
<1>11. kE <= hi /\ (edited => kE <= Kept(hints, buf).end)
  <2> HIDE DEF B, E, mB, mE, g, z, kB, kE, n
  <2>1. kE <= z - pt /\ (edited => kE <= Least(E, z - g))
    BY <1>7, <1>8, <1>9 DEF Least
  <2>. QED  BY <1>7, <2>1 DEF z
<1>12. /\ overrun' \/ kB <= lo
       /\ edited => overrun' \/ kB <= Kept(hints, buf).beg
  <2> HIDE DEF B, E, mB, mE, g, z, kB, kE, n
  <2>1. CASE pt # g \/ B <= pt - 1
    <3>1. kB <= pt - 1 /\ (edited => kB <= Least(B, g - 1))
      BY <1>7, <1>8, <1>9, <2>1 DEF Least
    <3>. QED  BY <1>7, <3>1
  <2>. QED  BY <1>10, <2>1
<1> HIDE DEF lo, hi, kB, kE
<1>. QED
  BY <1>3, <1>4, <1>5, <1>6, <1>11, <1>12, EditKeepsRight DEF kB, kE

LEMMA InsertHints ==
  ASSUME HintInv, NEW s \in Strings,
         InsertNoted(s) \/ InsertBeforeMarkersNoted(s)
  PROVE  HintInv'
<1> DEFINE r == RoomAt(buf, pt, Len(s))
           d == FillGap(r, s)
<1>1. /\ Inv /\ Sound(buf) /\ buf.z \in Nat
      /\ pt \in 1 .. buf.z /\ TextOf(buf) \in Seq(Char)
  BY HintNumbers, InvParts DEF HintInv
<1>2. s \in Seq(Char) /\ Len(s) \in Nat
  BY StringLength
<1>3. SameText(buf, r) /\ r.gpt = pt /\ r.gap >= Len(s)
  BY <1>1, <1>2, RoomAtSound
<1>4. d.gpt = pt + Len(s) /\ d.z = buf.z + Len(s)
  <2>1. r.z = buf.z
    BY <1>3 DEF SameText
  <2> HIDE DEF r
  <2>. QED  BY <1>3, <2>1 DEF FillGap
<1>5. buf'.gpt = d.gpt /\ buf'.z = d.z
  <2>1. CASE InsertNoted(s)
    <3>1. buf' = d
      BY <2>1 DEF InsertNoted, Insert, Inserted
    <3>. QED  BY <3>1
  <2>2. CASE InsertBeforeMarkersNoted(s)
    <3>1. buf' = WithMarkers(d, AdjustMarkers(d.bufpos, pt - 1, pt, Len(s)))
      BY <2>2 DEF InsertBeforeMarkersNoted, InsertBeforeMarkers, Inserted
    <3> HIDE DEF d
    <3>. QED  BY <3>1 DEF WithMarkers
  <2>. QED  BY <2>1, <2>2
<1>6. Inv' /\ TextOf(buf') = Lisp!Spliced(TextOf(buf), pt, s)
  <2>1. CASE InsertNoted(s)
    BY <1>1, <2>1, InsertStep
    DEF InsertNoted, Lisp!Insert, Lisp!InsertAtPoint
  <2>2. CASE InsertBeforeMarkersNoted(s)
    BY <1>1, <2>2, InsertBeforeMarkersStep
    DEF InsertBeforeMarkersNoted, Lisp!InsertBeforeMarkers,
        Lisp!InsertAtPoint
  <2>. QED  BY <2>1, <2>2
<1>7. Grown
  BY DEF InsertNoted, InsertBeforeMarkersNoted
<1>8. buf'.z = buf.z + Len(s) /\ buf'.gpt = pt + Len(s)
  BY <1>4, <1>5
<1>. QED  BY <1>6, <1>7, <1>8, GrownStep

\* A deletion: nothing redisplay keeps reaches across the place where the
\* text was.
LEMMA DelRangeHints ==
  ASSUME HintInv, NEW b \in Position, NEW e \in Position, DelRangeNoted(b, e)
  PROVE  HintInv'
<1> DEFINE from == Lower(b)
           to == Upper(e)
           near == NearGap(b, e)
           lo == from - 1
           hi == buf.z - to
<1>1. /\ buf.gpt \in Nat /\ buf.z \in Nat /\ 1 <= buf.gpt
      /\ buf.gpt <= buf.z /\ begv \in Nat /\ zv \in Nat
      /\ 1 <= begv /\ zv <= buf.z
      /\ hints.beg \in Int /\ hints.end \in Int
      /\ TextOf(buf) \in Seq(Char) /\ Len(TextOf(buf)) = buf.z - 1
      /\ edited \in BOOLEAN /\ overrun \in BOOLEAN
  BY HintNumbers
<1>2. /\ from < to
      /\ buf' = WidenGap(GapNear(buf, from, to), from, to)
      /\ hints' = AtMost(HintMove(near), buf'.gpt - 1, buf'.z - buf'.gpt)
      /\ overrun' = overrun /\ edited' = TRUE /\ shown' = shown
  BY DEF DelRangeNoted, DelRange, Changed
<1>3. from \in Nat /\ to \in Nat /\ 1 <= from /\ to <= buf.z
  BY <1>1, GapBufferAssumption DEF Lower, Upper, Position
<1>4. Inv' /\ TextOf(buf') = Lisp!Cut(TextOf(buf), from, to)
  <2>1. Inv' /\ Lisp!DelRange(b, e)
    BY DelRangeStep DEF HintInv, DelRangeNoted
  <2>. QED  BY <2>1 DEF Lisp!DelRange, Lower, Upper
<1>5. near = IF from > buf.gpt THEN from
             ELSE IF to < buf.gpt THEN to ELSE buf.gpt
  <2>1. CASE from > buf.gpt
    <3>1. ~ (to < buf.gpt)
      BY <1>1, <1>2, <1>3, <2>1
    <3>. QED  BY <2>1, <3>1 DEF NearGap
  <2>2. CASE ~ (from > buf.gpt) /\ to < buf.gpt
    BY <2>2 DEF NearGap
  <2>3. CASE ~ (from > buf.gpt) /\ ~ (to < buf.gpt)
    BY <2>3 DEF NearGap
  <2>. QED  BY <2>1, <2>2, <2>3
<1> HIDE DEF from, to, near
<1>6. near \in Nat
  BY <1>1, <1>3, <1>5
<1>7. buf'.gpt = from /\ buf'.z - buf'.gpt = hi /\ buf'.z \in Nat
  <2>1. Sound(buf)
    BY InvParts DEF HintInv
  <2>2. GapNear(buf, from, to).z = buf.z
    BY <1>1, <1>2, <1>3, <2>1, GapNearSound DEF SameText
  <2>3. buf'.gpt = from /\ buf'.z = buf.z - (to - from)
    BY <1>2, <2>2 DEF WidenGap
  <2>. QED  BY <1>1, <1>2, <1>3, <2>3
<1>8. ChangedWithin(TextOf(buf'), TextOf(buf), lo, hi)
  <2>1. to <= Len(TextOf(buf)) + 1
        /\ Len(TextOf(buf)) + 1 - to = buf.z - to /\ from <= to
    BY <1>1, <1>2, <1>3
  <2>2. ChangedWithin(Lisp!Cut(TextOf(buf), from, to), TextOf(buf),
                      from - 1, Len(TextOf(buf)) + 1 - to)
    BY <1>1, <1>3, <2>1, CutWithin
  <2>. QED  BY <1>4, <2>1, <2>2
<1> DEFINE B == hints.beg  E == hints.end  mB == HintMove(near).beg
           mE == HintMove(near).end  g == buf.gpt  z == buf.z
           kB == Kept(hints', buf').beg  kE == Kept(hints', buf').end
<1>9. mB \in Int /\ mE \in Int
  BY <1>1, <1>6, HintMoveFields DEF IsHints
<1>10. IsHints(hints')
  <2>1. hints'.beg = Least(mB, from - 1) /\ hints'.end = Least(mE, hi)
    BY <1>2, <1>7 DEF AtMost
  <2>2. from - 1 \in Int /\ hi \in Int
    BY <1>1, <1>3
  <2> HIDE DEF mB, mE, hi
  <2>3. hints'.beg \in Int /\ hints'.end \in Int
    BY <1>9, <2>1, <2>2, Zenon DEF Least
  <2>. QED  BY <2>3 DEF IsHints
<1>11. /\ kB = Least(Least(mB, from - 1), from - 1)
       /\ kE = Least(Least(mE, z - to), z - to)
       /\ Kept(hints, buf).beg = Least(B, g - 1)
       /\ Kept(hints, buf).end = Least(E, z - g)
  BY <1>2, <1>7, KeptFields DEF AtMost
<1>12. /\ mB = IF near < g THEN IF edited THEN Least(B, near - 1) ELSE near - 1
               ELSE IF near > g THEN IF edited THEN Least(B, g - 1)
                                     ELSE near - 1
                    ELSE B
       /\ mE = IF near < g THEN IF edited THEN Least(E, z - g) ELSE z - near
               ELSE IF near > g THEN IF edited THEN Least(E, z - near)
                                     ELSE z - near
                    ELSE E
  BY HintMoveFields
<1>13. /\ near = IF from > g THEN from ELSE IF to < g THEN to ELSE g
       /\ g \in Nat /\ z \in Nat /\ B \in Int /\ E \in Int
       /\ from \in Nat /\ to \in Nat /\ from < to /\ near \in Nat
  BY <1>1, <1>2, <1>3, <1>5, <1>6
<1>14. /\ kB <= lo /\ kE <= hi
       /\ edited => kB <= Kept(hints, buf).beg /\ kE <= Kept(hints, buf).end
  <2> HIDE DEF B, E, mB, mE, g, z, kB, kE
  <2>1. kB <= from - 1 /\ kE <= z - to
    BY <1>9, <1>11, <1>13 DEF Least
  <2>2. ASSUME edited
        PROVE  kB <= Least(B, g - 1) /\ kE <= Least(E, z - g)
    <3>1. CASE from > g
      BY <1>11, <1>12, <1>13, <2>2, <3>1 DEF Least
    <3>2. CASE to < g
      BY <1>11, <1>12, <1>13, <2>2, <3>2 DEF Least
    <3>3. CASE ~ (from > g) /\ ~ (to < g)
      BY <1>11, <1>12, <1>13, <2>2, <3>3 DEF Least
    <3>. QED  BY <3>1, <3>2, <3>3
  <2>. QED  BY <1>11, <2>1, <2>2 DEF z
<1>15. overrun' \in BOOLEAN /\ (overrun => overrun')
  BY <1>1, <1>2
<1> HIDE DEF lo, hi, kB, kE
<1>. QED
  BY <1>2, <1>4, <1>8, <1>10, <1>14, <1>15, EditKeepsRight DEF kB, kE

\* subst-char-in-region tells redisplay about the region it went through.
LEMMA SubstHints ==
  ASSUME HintInv, NEW b \in Position, NEW e \in Position,
         NEW c \in Char, NEW d \in Char, SubstCharInRegionNoted(b, e, c, d)
  PROVE  HintInv'
<1> DEFINE lo == b - 1
           hi == buf.z - e
<1>1. /\ buf.gpt \in Nat /\ buf.z \in Nat /\ zv \in Nat /\ begv \in Nat
      /\ 1 <= begv /\ zv <= buf.z
      /\ hints.beg \in Int /\ hints.end \in Int
      /\ TextOf(buf) \in Seq(Char) /\ Len(TextOf(buf)) = buf.z - 1
      /\ edited \in BOOLEAN /\ overrun \in BOOLEAN
  BY HintNumbers
<1>2. /\ hints' = HintModify(b, e) /\ begv <= b /\ b <= e /\ e <= zv
      /\ buf'.gpt = buf.gpt /\ buf'.z = buf.z
      /\ overrun' = overrun /\ edited' = TRUE /\ shown' = shown
  BY DEF SubstCharInRegionNoted, SubstCharInRegion, WithMem, Changed
<1>3. b \in Nat /\ e \in Nat /\ 1 <= b /\ b <= e /\ e <= buf.z
  BY <1>1, <1>2 DEF Position
<1>4. Inv' /\ Lisp!SubstCharInRegion(b, e, c, d)
  BY SubstStep DEF HintInv, SubstCharInRegionNoted
<1>5. ChangedWithin(TextOf(buf'), TextOf(buf), lo, hi)
  <2>1. e <= Len(TextOf(buf)) + 1 /\ Len(TextOf(buf)) + 1 - e = buf.z - e
    BY <1>1, <1>3
  <2>2. TextOf(buf') = [i \in 1 .. Len(TextOf(buf)) |->
                          IF b <= i /\ i < e /\ TextOf(buf)[i] = c
                          THEN d ELSE TextOf(buf)[i]]
    BY <1>4 DEF Lisp!SubstCharInRegion
  <2>3. ChangedWithin(TextOf(buf'), TextOf(buf),
                      b - 1, Len(TextOf(buf)) + 1 - e)
    BY <1>1, <1>3, <2>1, <2>2, ReplacedWithin
  <2>. QED  BY <2>1, <2>3
<1> DEFINE B == hints.beg  E == hints.end  g == buf.gpt  z == buf.z
           hB == hints'.beg  hE == hints'.end
           kB == Kept(hints', buf').beg  kE == Kept(hints', buf').end
<1>6. /\ hB = IF edited THEN Least(B, b - 1) ELSE b - 1
      /\ hE = IF edited THEN Least(E, z - e) ELSE z - e
  BY <1>2 DEF HintModify, Noted, AtMost
<1>7. /\ kB = Least(hB, g - 1) /\ kE = Least(hE, z - g)
      /\ Kept(hints, buf).beg = Least(B, g - 1)
      /\ Kept(hints, buf).end = Least(E, z - g)
  BY <1>2, KeptFields
<1>8. /\ g \in Nat /\ z \in Nat /\ B \in Int /\ E \in Int
      /\ b \in Nat /\ e \in Nat
  BY <1>1, <1>3
<1>9. /\ hB \in Int /\ hE \in Int /\ kB <= lo /\ kE <= hi
      /\ edited => kB <= Kept(hints, buf).beg /\ kE <= Kept(hints, buf).end
  <2> HIDE DEF B, E, g, z, hB, hE, kB, kE
  <2>1. /\ hB \in Int /\ hE \in Int /\ kB <= b - 1 /\ kE <= z - e
        /\ edited => kB <= Least(B, g - 1) /\ kE <= Least(E, z - g)
    BY <1>6, <1>7, <1>8 DEF Least
  <2>. QED  BY <1>7, <2>1 DEF z
<1>10. IsHints(hints')
  BY <1>9 DEF IsHints
<1>11. overrun' \in BOOLEAN /\ (overrun => overrun')
  BY <1>1, <1>2
<1> HIDE DEF lo, hi, kB, kE
<1>. QED
  BY <1>2, <1>4, <1>5, <1>9, <1>10, <1>11, EditKeepsRight DEF kB, kE

\* self-insert-command leaves the screen right.
LEMMA SelfInsertHints ==
  ASSUME HintInv, NEW c \in Char, SelfInsertShown(c)
  PROVE  HintInv'
<1> DEFINE s == <<c>>
           r == RoomAt(buf, pt, Len(s))
<1>1. /\ ~ edited /\ edited' = edited /\ overrun' = overrun
      /\ shown' = TextOf(buf')
      /\ hints' = [beg |-> buf'.gpt - 1, end |-> HintMove(pt).end]
      /\ buf' = FillGap(r, s) /\ Len(s) + buf.z - 1 <= MaxSize
      /\ pt' = pt + Len(s) /\ zv' = zv + Len(s) /\ begv' = begv
  BY DEF SelfInsertShown, Insert, Insertable, Inserted, AfterInsert
<1>2. /\ Sound(buf) /\ buf.z \in Nat /\ buf.gpt \in Nat
      /\ pt \in Nat /\ begv \in Nat /\ zv \in Nat
      /\ 1 <= begv /\ begv <= pt /\ pt <= zv /\ zv <= buf.z
      /\ edited \in BOOLEAN /\ overrun \in BOOLEAN /\ IsHints(hints)
  BY HintNumbers, InvParts DEF HintInv, HintOK
<1>3. IsString(s) /\ Len(s) = 1
  BY DEF IsString
<1>4. pt \in 1 .. buf.z
  BY <1>2
<1>5. SameText(buf, r) /\ r.gpt = pt /\ r.gap >= Len(s)
  BY <1>2, <1>3, <1>4, RoomAtSound
<1> HIDE DEF s, r
<1>6. Sound(buf') /\ buf'.z = buf.z + 1
  BY <1>1, <1>3, <1>5, FillGapSound DEF SameText
<1>7. Inv'
  <2>1. /\ begv' \in Nat /\ zv' \in Nat /\ pt' \in Nat
        /\ buf'.z - 1 <= MaxSize
        /\ 1 <= begv' /\ begv' <= pt' /\ pt' <= zv' /\ zv' <= buf'.z
    BY <1>1, <1>2, <1>3, <1>6, GapBufferAssumption
  <2>. QED  BY <1>6, <2>1, InvPartsNext
<1>8. IsHints(hints')
  <2>1. IsHints(HintMove(pt))
    BY <1>2, HintMoveFields
  <2>2. buf'.gpt \in Nat
    BY <1>6 DEF Sound, Block
  <2>. QED  BY <1>1, <2>1, <2>2 DEF IsHints
<1>9. TextOf(buf') \in Seq(Char)
  BY <1>6, TextIsSeq
<1>10. ~ edited' /\ edited' \in BOOLEAN /\ overrun' \in BOOLEAN
  BY <1>1, <1>2
<1>11. HintOK'
  BY <1>1, <1>8, <1>9, <1>10, HintOKNext
<1>. QED  BY <1>7, <1>11 DEF HintInv
-----------------------------------------------------------------------------
LEMMA HintStep == HintInv /\ [HintNext]_<<vars, hintVars>> => HintInv'
<1> SUFFICES ASSUME HintInv, [HintNext]_<<vars, hintVars>>
             PROVE  HintInv'
  OBVIOUS
<1>1. /\ buf.gpt \in Nat /\ buf.z \in Nat /\ 1 <= buf.gpt
      /\ buf.gpt <= buf.z /\ pt \in Nat /\ begv \in Nat /\ zv \in Nat
      /\ 1 <= begv /\ begv <= pt /\ pt <= zv /\ zv <= buf.z
      /\ TextOf(buf) \in Seq(Char) /\ shown \in Seq(Char)
      /\ edited \in BOOLEAN /\ overrun \in BOOLEAN
      /\ Inv /\ HintOK
  BY HintNumbers DEF HintInv
<1>2. ASSUME NEW s \in Strings,
             InsertNoted(s) \/ InsertBeforeMarkersNoted(s)
      PROVE  HintInv'
  BY <1>2, InsertHints
<1>3. CASE InsertGivenUpNoted
  <2>1. pt \in 1 .. buf.z
    BY <1>1
  <2>. QED
    BY <1>3, <2>1, MovedKeepsLess DEF InsertGivenUpNoted, InsertGivenUp
<1>4. ASSUME NEW b \in Position, NEW e \in Position,
             BufferSubstringNoted(b, e)
      PROVE  HintInv'
  <2>1. b \in 1 .. buf.z
    BY <1>1, <1>4 DEF BufferSubstringNoted, BufferSubstring, Position
  <2>. QED
    BY <1>4, <2>1, MovedKeepsLess DEF BufferSubstringNoted, BufferSubstring
<1>5. ASSUME NEW b \in Position, NEW e \in Position, DelRangeNoted(b, e)
      PROVE  HintInv'
  BY <1>5, DelRangeHints
<1>6. ASSUME NEW b \in Position, NEW e \in Position, DelRangeGivenUpNoted(b, e)
      PROVE  HintInv'
  <2> DEFINE from == Lower(b)
             to == Upper(e)
             near == NearGap(b, e)
  <2>1. /\ from < to
        /\ \/ from > buf.gpt /\ GiveUp(from)
           \/ to < buf.gpt /\ GiveUp(to)
        /\ MovedOnly(near)
    BY <1>6 DEF DelRangeGivenUpNoted, DelRangeGivenUp
  <2>2. from \in Nat /\ to \in Nat /\ 1 <= from /\ to <= buf.z
    BY <1>1, GapBufferAssumption DEF Lower, Upper, Position
  <2>3. CASE from > buf.gpt /\ GiveUp(from)
    <3>1. near = from
      <4>1. ~ (to < buf.gpt)
        BY <1>1, <2>1, <2>2, <2>3
      <4>. QED  BY <2>3, <4>1 DEF NearGap
    <3> HIDE DEF from, to, near
    <3>2. from \in 1 .. buf.z
      BY <1>1, <2>1, <2>2
    <3>. QED  BY <2>1, <2>3, <3>1, <3>2, MovedKeepsLess
  <2>4. CASE to < buf.gpt /\ GiveUp(to)
    <3>1. near = to
      <4>1. ~ (from > buf.gpt)
        BY <1>1, <2>1, <2>2, <2>4
      <4>. QED  BY <2>4, <4>1 DEF NearGap
    <3> HIDE DEF from, to, near
    <3>2. to \in 1 .. buf.z
      BY <1>1, <2>1, <2>2
    <3>. QED  BY <2>1, <2>4, <3>1, <3>2, MovedKeepsLess
  <2>. QED  BY <2>1, <2>3, <2>4
<1>7. ASSUME NEW b \in Position, NEW e \in Position, NEW c \in Char,
             NEW d \in Char, SubstCharInRegionNoted(b, e, c, d)
      PROVE  HintInv'
  BY <1>7, SubstHints
<1>8. CASE /\ buf' = buf /\ Inv'
           /\ UNCHANGED hintVars
  <2>1. HintOK'
    BY <1>1, <1>8 DEF HintOK, IsHints, hintVars
  <2>. QED  BY <1>8, <2>1 DEF HintInv
<1>9. ASSUME NEW n \in Position, GotoCharNoted(n)
      PROVE  HintInv'
  <2>1. Inv'
    BY <1>1, <1>9, GotoCharStep DEF GotoCharNoted
  <2>2. buf' = buf /\ UNCHANGED hintVars
    BY <1>9 DEF GotoCharNoted, GotoChar
  <2>. QED  BY <1>8, <2>1, <2>2
<1>10. ASSUME NEW c \in Char, SelfInsertShown(c)
       PROVE  HintInv'
  BY <1>10, SelfInsertHints
<1>11. CASE RedisplayDone
  <2>1. /\ edited' = FALSE /\ overrun' = FALSE /\ shown' = TextOf(buf)
        /\ hints' = [beg |-> buf.gpt - 1, end |-> buf.z - buf.gpt]
        /\ buf' = buf /\ begv' = begv /\ zv' = zv /\ pt' = pt
    BY <1>11 DEF RedisplayDone, vars
  <2>2. Inv'
    BY <1>1, <2>1, StepSound DEF vars
  <2>3. IsHints(hints')
    BY <1>1, <2>1 DEF IsHints
  <2>4. TextOf(buf') = shown'
    BY <2>1
  <2>5. edited' \in BOOLEAN /\ overrun' \in BOOLEAN /\ ~ edited'
    BY <2>1, Zenon
  <2>6. HintOK'
    BY <1>1, <2>1, <2>3, <2>4, <2>5, HintOKNext
  <2>. QED  BY <2>2, <2>6 DEF HintInv
<1>12. CASE RedisplayPaused
  <2>1. /\ edited /\ edited' = edited /\ overrun' = overrun /\ shown' = shown
        /\ hints' = Kept(hints, buf)
        /\ buf' = buf /\ begv' = begv /\ zv' = zv /\ pt' = pt
    BY <1>12 DEF RedisplayPaused, vars
  <2>2. Inv'
    BY <1>1, <2>1, StepSound DEF vars
  <2> DEFINE k == Kept(hints, buf)
  <2>3. IsHints(hints) /\ IsHints(k)
    BY <1>1, KeptIsHints DEF HintOK
  <2>4. IsHints(Kept(k, buf))
    BY <1>1, <2>3, KeptIsHints
  <2>5. Kept(k, buf).beg <= k.beg /\ Kept(k, buf).end <= k.end
    <3> HIDE DEF k
    <3>1. /\ Kept(k, buf).beg = Least(k.beg, buf.gpt - 1)
          /\ Kept(k, buf).end = Least(k.end, buf.z - buf.gpt)
      BY KeptFields
    <3>2. k.beg \in Int /\ k.end \in Int
      BY <2>3 DEF IsHints
    <3>. QED  BY <1>1, <3>1, <3>2 DEF Least
  <2>6. KeptRight(TextOf(buf), shown, k, overrun)
    BY <1>1, <2>1 DEF HintOK
  <2>7. KeptRight(TextOf(buf), shown, Kept(k, buf), overrun)
    <3> HIDE DEF k
    <3>. QED  BY <1>1, <2>3, <2>4, <2>5, <2>6, KeepingLess
  <2>8. HintOK'
    BY <1>1, <2>1, <2>3, <2>7, HintOKNext
  <2>. QED  BY <2>2, <2>8 DEF HintInv
<1>13. CASE UNCHANGED <<vars, hintVars>>
  <2>1. Inv' /\ buf' = buf
    BY <1>1, <1>13, StepSound DEF vars
  <2>. QED  BY <1>8, <1>13, <2>1
<1>. QED
  BY <1>2, <1>3, <1>4, <1>5, <1>6, <1>7, <1>9, <1>10, <1>11, <1>12, <1>13
  DEF HintNext

THEOREM HintInvariant == HintSpec => []HintInv
<1>. QED  BY InitHints, HintStep, PTL DEF HintSpec

\* Whatever was typed, deleted or given up half way, the end of the buffer
\* that redisplay does not draw again is what the screen shows there.
THEOREM EndUnchangedHolds == HintSpec => []EndUnchanged
<1>1. HintInv => EndUnchanged
  BY DEF HintInv, HintOK, KeptRight, EndRight, SameEnd, EndUnchanged
<1>. QED  BY <1>1, HintInvariant, PTL

\* So is the start, and the two do not overlap, until text goes in at a gap
\* that beg_unchanged lies beyond.
THEOREM RegionsUnchangedUnlessOverrunHolds ==
  HintSpec => []RegionsUnchangedUnlessOverrun
<1>1. HintInv => RegionsUnchangedUnlessOverrun
  BY DEF HintInv, HintOK, KeptRight, EndRight, StartRight, SameEnd, SameStart,
         RegionsUnchangedUnlessOverrun, RegionsUnchanged
<1>. QED  BY <1>1, HintInvariant, PTL
=============================================================================
