-------------------------------- MODULE Undo --------------------------------
(***************************************************************************)
(* The undo list of a buffer (undo.c) and the commands that write and read *)
(* it.  Every change records how to take it back; the first change of an   *)
(* unmodified buffer also records the modification time of the file, so    *)
(* that undoing it can mark the buffer unmodified again unless the file    *)
(* was saved since.  primitive-undo takes changes back through the same    *)
(* primitives, which record them in turn.                                  *)
(*                                                                         *)
(* MODIFF and save_modified are only ever compared: modified says that     *)
(* MODIFF is the greater.  Modification times are numbered; TickAtSave     *)
(* says that no two saves fall into the same second.  Left out: NOUNDO of  *)
(* subst-char-in-region, and programs that call set-buffer-modified-p.     *)
(***************************************************************************)
EXTENDS BufferText, SequencesExt

CONSTANTS
  Up(_),      \* a character in upper case
  Typed,      \* bound: the strings inserted
  Regions,    \* bound: what is narrowed to, pairs of positions
  MaxList,    \* bound: elements of the undo list
  MaxTime,    \* bound: modification times
  TickAtSave  \* every save gets a modification time of its own

ASSUME UndoAssumption ==
  /\ Typed \subseteq Strings
  /\ Regions \subseteq Position \X Position
  /\ MaxList \in Nat /\ MaxTime \in Nat
  /\ TickAtSave \in BOOLEAN
  /\ \A ch \in Char : Up(ch) \in Char

VARIABLES
  recording,  \* undo_list is not Qt
  undoList,   \* the elements, latest first
  here,       \* last_undo_buffer is this buffer
  modified,   \* MODIFF > save_modified
  modtime,    \* of the visited file
  slipped     \* subst-char-in-region changed an unmodified buffer

undoVars == <<recording, undoList, here, modified, modtime, slipped>>

(***************************************************************************)
(* The elements.  was is the text before the change and clean says that    *)
(* the buffer was unmodified then; both are for the properties only.       *)
(***************************************************************************)
BoundaryOf(t) == [kind |-> "boundary", was |-> t]
FirstChange(t) == [kind |-> "first", time |-> modtime, was |-> t]
Insertion(from, to, t, clean) ==
  [kind |-> "insertion", from |-> from, to |-> to, was |-> t, clean |-> clean]
\* The sign of the position recorded says whether point was after the text.
Deletion(string, at, after, t, clean) ==
  [kind |-> "deletion", string |-> string, at |-> at, after |-> after,
   was |-> t, clean |-> clean]

(***************************************************************************)
(* What one primitive sees of the buffer; primitive-undo calls several.    *)
(* clean says that it was unmodified when the primitive began.             *)
(***************************************************************************)
Now == [text |-> text, pt |-> pt, zv |-> zv, list |-> undoList,
        here |-> here, modified |-> modified, clean |-> ~ modified]

WithBoundary(list, t) ==
  IF ~ recording \/ list = << >> \/ Head(list).kind = "boundary"
  THEN list ELSE <<BoundaryOf(t)>> \o list

\* Mutant of Begun: the first change is recorded like any other.
BegunUnmarked(s) == IF s.here THEN s.list ELSE WithBoundary(s.list, s.text)

\* What record_insert and record_delete begin with.
Begun(s) ==
  LET list == IF s.here THEN s.list ELSE WithBoundary(s.list, s.text)
  IN IF s.modified THEN list ELSE <<FirstChange(s.text)>> \o list

\* Mutant of RecordInsert: joins the last insertion wherever that was.
RecordInsertJoining(s, beg, n) ==
  LET list == Begun(s)
      joins == list # << >> /\ Head(list).kind = "insertion"
  IN IF ~ recording THEN s.list
     ELSE IF joins THEN <<[Head(list) EXCEPT !.to = beg + n]>> \o Tail(list)
     ELSE <<Insertion(beg, beg + n, s.text, s.clean)>> \o list

RecordInsert(s, beg, n) ==
  LET list == Begun(s)
      joins == /\ list # << >> /\ Head(list).kind = "insertion"
               /\ Head(list).to = beg
  IN IF ~ recording THEN s.list
     ELSE IF joins THEN <<[Head(list) EXCEPT !.to = beg + n]>> \o Tail(list)
     ELSE <<Insertion(beg, beg + n, s.text, s.clean)>> \o list

RecordDelete(s, beg, n) ==
  IF ~ recording THEN s.list
  ELSE <<Deletion(SubSeq(s.text, beg, beg + n - 1), beg, s.pt = beg + n,
                  s.text, s.clean)>> \o Begun(s)

\* A deletion and an insertion of as much at the same place.
RecordChange(s, beg, n) ==
  RecordInsert([s EXCEPT !.text = Cut(s.text, beg, beg + n),
                         !.list = RecordDelete(s, beg, n), !.here = TRUE],
               beg, n)

Inserted(s, string) ==
  [text |-> Spliced(s.text, s.pt, string), pt |-> s.pt + Len(string),
   zv |-> s.zv + Len(string), list |-> RecordInsert(s, s.pt, Len(string)),
   here |-> TRUE, modified |-> TRUE, clean |-> FALSE]

Deleted(s, from, to) ==
  [text |-> Cut(s.text, from, to), pt |-> AfterDelete(s.pt, from, to),
   zv |-> s.zv - (to - from), list |-> RecordDelete(s, from, to - from),
   here |-> TRUE, modified |-> TRUE, clean |-> FALSE]

Become(s) ==
  /\ text' = s.text /\ pt' = s.pt /\ zv' = s.zv
  /\ undoList' = s.list /\ Len(s.list) <= MaxList
  /\ here' = s.here /\ modified' = s.modified
  /\ UNCHANGED <<begv, mpos, recording, modtime>>
-----------------------------------------------------------------------------
UndoInit ==
  /\ Init
  /\ recording = TRUE /\ undoList = << >> /\ here = FALSE
  /\ modified = FALSE /\ modtime = 0 /\ slipped = FALSE

InsertUndoably(string) ==
  /\ Len(text) + Len(string) <= MaxSize
  /\ Become(Inserted(Now, string))
  /\ UNCHANGED slipped

DeleteUndoably(b, e) ==
  /\ begv <= b /\ b < e /\ e <= zv
  /\ Become(Deleted(Now, b, e))
  /\ UNCHANGED slipped

\* The buffer is marked modified before the first change is recorded.
SubstUndoably(b, e, fromchar, tochar) ==
  LET marked == [Now EXCEPT !.modified = TRUE]
      One(s, p) ==
        IF s.text[p] = fromchar
        THEN [s EXCEPT !.list = RecordChange(s, p, 1), !.here = TRUE,
                       !.text[p] = tochar, !.clean = FALSE]
        ELSE s
  IN /\ begv <= b /\ b <= e /\ e <= zv
     /\ Become(FoldLeft(One, marked, [i \in 1 .. e - b |-> b + i - 1]))
     /\ slipped' = (slipped \/ (~ modified /\ text' # text))

\* upcase-region: recorded as one change, then made, then marked.
CasifyUndoably(b, e) ==
  /\ begv <= b /\ b <= e /\ e <= zv
  /\ Become([Now EXCEPT
               !.list = RecordChange(Now, b, e - b), !.here = TRUE,
               !.modified = TRUE,
               !.text = [i \in 1 .. Len(text) |->
                           IF b <= i /\ i < e THEN Up(text[i]) ELSE text[i]]])
  /\ UNCHANGED slipped

UndoBoundary ==
  /\ Become([Now EXCEPT !.list = WithBoundary(undoList, text)])
  /\ UNCHANGED slipped

\* Something is recorded in another buffer.
OtherBuffer ==
  /\ here' = FALSE
  /\ UNCHANGED <<textVars, recording, undoList, modified, modtime, slipped>>

\* Garbage collection cuts the list at a boundary, or drops it if the very
\* first unit is too large.
TruncateUndoList ==
  /\ \E i \in DOMAIN undoList :
       /\ undoList[i].kind = "boundary"
       /\ undoList' \in {SubSeq(undoList, 1, i - 1), << >>}
  /\ UNCHANGED <<textVars, recording, here, modified, modtime, slipped>>

BufferFlushUndo ==
  /\ recording' = FALSE /\ undoList' = << >>
  /\ UNCHANGED <<textVars, here, modified, modtime, slipped>>

BufferEnableUndo ==
  /\ recording' = TRUE
  /\ UNCHANGED <<textVars, undoList, here, modified, modtime, slipped>>

\* write-region of the whole buffer to the visited file.
NewModtime ==
  /\ modtime' \in IF TickAtSave THEN {modtime + 1} ELSE {modtime, modtime + 1}
  /\ modtime' <= MaxTime

Save ==
  /\ NewModtime
  /\ modified' = FALSE
  /\ UNCHANGED <<textVars, recording, undoList, here, slipped>>

\* After an I/O error the new modification time is noted all the same.
SaveFailed ==
  /\ NewModtime
  /\ UNCHANGED <<textVars, recording, undoList, here, modified, slipped>>

NarrowOnly(b, e) == NarrowToRegion(b, e) /\ UNCHANGED undoVars
WidenOnly == Widen /\ UNCHANGED undoVars
GotoOnly(n) == GotoChar(n) /\ UNCHANGED undoVars

(***************************************************************************)
(* primitive-undo.  u adds to the buffer the units left to undo and        *)
(* whether an error ended it ("outside visible portion of buffer").        *)
(***************************************************************************)
Visible(u, from, to) == begv <= from /\ to <= u.zv
Carry(u, s) ==
  [text |-> s.text, pt |-> s.pt, zv |-> s.zv, list |-> s.list,
   here |-> s.here, modified |-> s.modified, clean |-> s.clean,
   left |-> u.left, failed |-> u.failed]
Failed(u) == [u EXCEPT !.failed = TRUE]

UndoInsertion(u, elt) ==
  IF ~ Visible(u, elt.from, elt.to) THEN Failed(u)
  ELSE LET s == IF elt.from = elt.to THEN u ELSE Deleted(u, elt.from, elt.to)
       IN Carry(u, [s EXCEPT !.pt = Clip(begv, elt.from, s.zv)])

UndoDeletion(u, elt) ==
  LET there == [u EXCEPT !.pt = elt.at]
      s == IF elt.string = << >> THEN there ELSE Inserted(there, elt.string)
  IN IF ~ Visible(u, elt.at, elt.at) \/ Len(u.text) + Len(elt.string) > MaxSize
     THEN Failed(u)
     ELSE Carry(u, IF elt.after THEN s ELSE [s EXCEPT !.pt = elt.at])

UndoChange(u, elt) ==
  CASE elt.kind = "insertion" -> UndoInsertion(u, elt)
    [] elt.kind = "deletion"  -> UndoDeletion(u, elt)

\* Mutants of UndoElement: no modification time is obsolete; no boundary
\* ends the undoing.
UndoElementTrusting(u, elt) ==
  CASE u.left = 0 \/ u.failed -> u
    [] OTHER ->
       CASE elt.kind = "boundary" -> [u EXCEPT !.left = @ - 1]
         [] elt.kind = "first" -> [u EXCEPT !.modified = FALSE, !.clean = TRUE]
         [] OTHER -> UndoChange(u, elt)
UndoElementUnbounded(u, elt) ==
  CASE u.left = 0 \/ u.failed -> u
    [] OTHER ->
       CASE elt.kind = "boundary" -> u
         [] elt.kind = "first" ->
              IF elt.time # modtime THEN [u EXCEPT !.left = @ - 1]
              ELSE [u EXCEPT !.modified = FALSE, !.clean = TRUE]
         [] OTHER -> UndoChange(u, elt)

\* A modification time that is not the file's ends the unit.
UndoElement(u, elt) ==
  CASE u.left = 0 \/ u.failed -> u
    [] OTHER ->
       CASE elt.kind = "boundary" -> [u EXCEPT !.left = @ - 1]
         [] elt.kind = "first" ->
              IF elt.time # modtime THEN [u EXCEPT !.left = @ - 1]
              ELSE [u EXCEPT !.modified = FALSE, !.clean = TRUE]
         [] OTHER -> UndoChange(u, elt)

Undone(n) ==
  FoldLeft(UndoElement,
           [text |-> text, pt |-> pt, zv |-> zv, list |-> undoList,
            here |-> here, modified |-> modified, clean |-> ~ modified,
            left |-> n, failed |-> FALSE],
           undoList)

PrimitiveUndo(n) ==
  /\ Become(Undone(n))
  /\ UNCHANGED slipped

UndoNext ==
  \/ \E string \in Typed : InsertUndoably(string)
  \/ \E b, e \in Position : DeleteUndoably(b, e)
  \/ \E ch \in Char : \E d \in Char \ {ch} : SubstUndoably(begv, zv, ch, d)
  \/ CasifyUndoably(begv, zv)
  \/ UndoBoundary \/ OtherBuffer \/ TruncateUndoList
  \/ BufferFlushUndo \/ BufferEnableUndo \/ Save \/ SaveFailed
  \/ \E r \in Regions : NarrowOnly(r[1], r[2])
  \/ WidenOnly
  \/ \E n \in Position : GotoOnly(n)
  \/ \E n \in 1 .. 2 : PrimitiveUndo(n)

UndoSpec == UndoInit /\ [][UndoNext]_<<textVars, undoVars>>
-----------------------------------------------------------------------------
(***************************************************************************)
(* Properties.                                                             *)
(***************************************************************************)
\* The text an element leads back to.
TakenBack(t, elt) ==
  CASE elt.kind = "insertion" -> Cut(t, elt.from, elt.to)
    [] elt.kind = "deletion" -> Spliced(t, elt.at, elt.string)
    [] OTHER -> t

\* However changes, boundaries, saves, undos and undos of undos follow each
\* other, the list leads back through every text the buffer has had.
LeadsBack ==
  \A i \in DOMAIN undoList :
    LET from == IF i = 1 THEN text ELSE undoList[i - 1].was
    IN /\ undoList[i].kind = "insertion" => undoList[i].to <= Len(from) + 1
       /\ undoList[i].kind = "deletion" => undoList[i].at <= Len(from) + 1
       /\ TakenBack(from, undoList[i]) = undoList[i].was

\* The modification time of the file stands for one text: whenever the
\* buffer was unmodified under it, and if it claims to be so now, undone or
\* not, it held the same text, the one that was saved then.  (upcase-region
\* also records the time between the two halves of its change.)
WithinChange(j) ==
  /\ j - 1 \in DOMAIN undoList /\ undoList[j - 1].kind = "insertion"
  /\ j + 1 \in DOMAIN undoList /\ undoList[j + 1].kind = "deletion"
  /\ undoList[j - 1].from = undoList[j + 1].at
UnmodifiedTexts ==
  {undoList[i].was : i \in {j \in DOMAIN undoList :
                              /\ undoList[j].kind = "first"
                              /\ undoList[j].time = modtime
                              /\ ~ WithinChange(j)}}
    \cup (IF modified THEN {} ELSE {text})
UnmodifiedMeansSaved == Cardinality(UnmodifiedTexts) <= 1

\* The first change of an unmodified buffer can be told when it is undone:
\* subst-char-in-region alone forgets to record it.
OnUnmodified(elt) == elt.kind \in {"insertion", "deletion"} /\ elt.clean
FirstChangeRecorded ==
  slipped \/
    \A i \in DOMAIN undoList :
      OnUnmodified(undoList[i]) =>
        i < Len(undoList) /\ undoList[i + 1].kind = "first"

\* primitive-undo takes back whole units: unless it fails, the text is what
\* it was at the n-th boundary, or at the end of a list with fewer.
Boundaries(i) == {j \in 1 .. i : undoList[j].kind = "boundary"}
UnitEnd(n, i) ==
  \/ undoList[i].kind = "boundary" /\ Cardinality(Boundaries(i)) = n
  \/ i = Len(undoList) /\ Cardinality(Boundaries(i)) < n
WholeUnits(n) ==
  LET u == Undone(n)
  IN u.failed \/ undoList = << >> \/
       \E i \in DOMAIN undoList : UnitEnd(n, i) /\ text' = undoList[i].was
UndoesWholeUnits ==
  [][\A n \in 1 .. 2 : PrimitiveUndo(n) => WholeUnits(n)]_<<textVars, undoVars>>

\* It does unless it meets a modification time that is not the file's.
Obsolete == \E i \in DOMAIN undoList :
              undoList[i].kind = "first" /\ undoList[i].time # modtime
UndoesWholeUnitsUnlessSaved ==
  [][~ Obsolete =>
       \A n \in 1 .. 2 : PrimitiveUndo(n) => WholeUnits(n)]_<<textVars, undoVars>>
=============================================================================
