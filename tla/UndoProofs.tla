----------------------------- MODULE UndoProofs -----------------------------
(***************************************************************************)
(* Proofs about Undo.  First what cutting and splicing do to texts, then   *)
(* what one more element does to an undo list, then what each primitive    *)
(* and primitive-undo leave of the list, and last the inductive invariant. *)
(*                                                                         *)
(* primitive-undo and subst-char-in-region are folds: they are taken apart *)
(* into their steps by FoldExists, and what holds after i elements is      *)
(* shown by induction on i.                                                *)
(***************************************************************************)
EXTENDS Undo, Induction

-----------------------------------------------------------------------------
(***************************************************************************)
(* Texts.                                                                  *)
(***************************************************************************)
Texts == Seq(Char)

LEMMA SplicedText ==
  ASSUME NEW t \in Texts, NEW s \in Texts, NEW p \in 1 .. Len(t) + 1
  PROVE  /\ Spliced(t, p, s) \in Texts
         /\ Len(Spliced(t, p, s)) = Len(t) + Len(s)
         /\ \A i \in 1 .. Len(t) + Len(s) :
              Spliced(t, p, s)[i] = IF i < p THEN t[i]
                                    ELSE IF i < p + Len(s) THEN s[i - p + 1]
                                    ELSE t[i - Len(s)]
<1> DEFINE n == Len(t) + Len(s)
           r == Spliced(t, p, s)
<1>1. Len(t) \in Nat /\ Len(s) \in Nat /\ n \in Nat
  BY DEF Texts
<1>2. ASSUME NEW i \in 1 .. n PROVE
        /\ i < p => i \in 1 .. Len(t)
        /\ ~ (i < p) /\ i < p + Len(s) => i - p + 1 \in 1 .. Len(s)
        /\ ~ (i < p + Len(s)) => i - Len(s) \in 1 .. Len(t)
  BY <1>1
<1>3. /\ \A i \in 1 .. Len(t) : t[i] \in Char
      /\ \A i \in 1 .. Len(s) : s[i] \in Char
  BY DEF Texts
<1>4. r = [i \in 1 .. n |-> IF i < p THEN t[i]
                            ELSE IF i < p + Len(s) THEN s[i - p + 1]
                            ELSE t[i - Len(s)]]
  BY DEF Spliced
<1> HIDE DEF r, n
<1>5. r \in [1 .. n -> Char]
  BY <1>2, <1>3, <1>4
<1>6. r \in Seq(Char) /\ Len(r) = n
  BY <1>1, <1>5
<1> QED BY <1>4, <1>6 DEF r, n, Texts

LEMMA CutText ==
  ASSUME NEW t \in Texts, NEW to \in 1 .. Len(t) + 1, NEW from \in 1 .. to
  PROVE  /\ Cut(t, from, to) \in Texts
         /\ Len(Cut(t, from, to)) = Len(t) - (to - from)
         /\ \A i \in 1 .. Len(t) - (to - from) :
              Cut(t, from, to)[i] = IF i < from THEN t[i] ELSE t[i + (to - from)]
<1> DEFINE n == Len(t) - (to - from)
           r == Cut(t, from, to)
<1>1. Len(t) \in Nat /\ n \in Nat /\ from \in Nat /\ to \in Nat
  BY DEF Texts
<1>2. ASSUME NEW i \in 1 .. n PROVE
        /\ i < from => i \in 1 .. Len(t)
        /\ ~ (i < from) => i + (to - from) \in 1 .. Len(t)
  BY <1>1
<1>3. \A i \in 1 .. Len(t) : t[i] \in Char
  BY DEF Texts
<1>4. r = [i \in 1 .. n |-> IF i < from THEN t[i] ELSE t[i + (to - from)]]
  BY DEF Cut
<1> HIDE DEF r, n
<1>5. r \in [1 .. n -> Char]
  BY <1>2, <1>3, <1>4
<1>6. r \in Seq(Char) /\ Len(r) = n
  BY <1>1, <1>5
<1> QED BY <1>4, <1>6 DEF r, n, Texts

\* Two texts are equal when they have the same characters.
LEMMA SameText ==
  ASSUME NEW t \in Texts, NEW u \in Texts, Len(t) = Len(u),
         \A i \in 1 .. Len(t) : t[i] = u[i]
  PROVE  t = u
<1>1. t \in Seq(Char) /\ u \in Seq(Char)
  BY DEF Texts
<1>2. Len(t) \in Nat
  BY <1>1
<1> QED BY <1>1, <1>2

\* What was put into a text can be cut out again, with what is before it.
LEMMA CutSpliced ==
  ASSUME NEW t \in Texts, NEW s \in Texts, NEW p \in 1 .. Len(t) + 1,
         NEW from \in 1 .. p
  PROVE  Cut(Spliced(t, p, s), from, p + Len(s)) = Cut(t, from, p)
<1> DEFINE u == Spliced(t, p, s)
           to == p + Len(s)
<1>1. /\ u \in Texts /\ Len(u) = Len(t) + Len(s)
      /\ \A i \in 1 .. Len(t) + Len(s) :
              u[i] = IF i < p THEN t[i] ELSE IF i < p + Len(s) THEN s[i - p + 1]
                     ELSE t[i - Len(s)]
  BY SplicedText
<1>2. Len(t) \in Nat /\ Len(s) \in Nat /\ p \in Nat /\ from \in Nat
  BY DEF Texts
<1> HIDE DEF u
<1>3. to \in 1 .. Len(u) + 1 /\ from \in 1 .. to
  BY <1>1, <1>2
<1>4. /\ Cut(u, from, to) \in Texts
      /\ Len(Cut(u, from, to)) = Len(u) - (to - from)
      /\ \A i \in 1 .. Len(u) - (to - from) :
              Cut(u, from, to)[i] = IF i < from THEN u[i] ELSE u[i + (to - from)]
  <2> HIDE DEF to
  <2> QED BY <1>1, <1>3, CutText
<1>5. /\ Cut(t, from, p) \in Texts
      /\ Len(Cut(t, from, p)) = Len(t) - (p - from)
      /\ \A i \in 1 .. Len(t) - (p - from) :
              Cut(t, from, p)[i] = IF i < from THEN t[i] ELSE t[i + (p - from)]
  BY CutText
<1>6. Len(u) - (to - from) = Len(t) - (p - from)
  BY <1>1, <1>2
<1>7. ASSUME NEW i \in 1 .. Len(t) - (p - from)
      PROVE  Cut(u, from, to)[i] = Cut(t, from, p)[i]
  <2>1. CASE i < from
    <3>1. i \in 1 .. Len(t) + Len(s) /\ i < p
      BY <1>2, <2>1
    <3>2. u[i] = t[i]
      BY <1>1, <3>1
    <3> QED BY <1>4, <1>5, <1>6, <1>7, <2>1, <3>2
  <2>2. CASE ~ (i < from)
    <3>1. /\ i + (to - from) \in 1 .. Len(t) + Len(s)
          /\ ~ (i + (to - from) < p) /\ ~ (i + (to - from) < p + Len(s))
          /\ i + (to - from) - Len(s) = i + (p - from)
      BY <1>2, <2>2
    <3>2. u[i + (to - from)] = t[i + (p - from)]
      BY <1>1, <3>1
    <3> QED BY <1>4, <1>5, <1>6, <1>7, <2>2, <3>2
  <2> QED BY <2>1, <2>2
<1> HIDE DEF to
<1>8. Cut(u, from, to) = Cut(t, from, p)
  BY <1>4, <1>5, <1>6, <1>7, SameText
<1> QED BY <1>8 DEF u, to

\* What was cut out can be put back.
LEMMA SplicedCut ==
  ASSUME NEW t \in Texts, NEW to \in 1 .. Len(t) + 1, NEW from \in 1 .. to
  PROVE  /\ SubSeq(t, from, to - 1) \in Texts
         /\ Len(SubSeq(t, from, to - 1)) = to - from
         /\ Spliced(Cut(t, from, to), from, SubSeq(t, from, to - 1)) = t
<1> DEFINE c == Cut(t, from, to)
           s == SubSeq(t, from, to - 1)
<1>1. /\ c \in Texts /\ Len(c) = Len(t) - (to - from)
      /\ \A i \in 1 .. Len(t) - (to - from) :
              c[i] = IF i < from THEN t[i] ELSE t[i + (to - from)]
  BY CutText
<1>2. Len(t) \in Nat /\ from \in Nat /\ to \in Nat
  BY DEF Texts
<1>3. /\ s \in Texts /\ Len(s) = to - from
      /\ \A i \in 1 .. to - from : s[i] = t[from + i - 1]
  BY <1>2 DEF Texts
<1> HIDE DEF c, s
<1>4. from \in 1 .. Len(c) + 1
  BY <1>1, <1>2
<1>5. /\ Spliced(c, from, s) \in Texts
      /\ Len(Spliced(c, from, s)) = Len(c) + Len(s)
      /\ \A i \in 1 .. Len(c) + Len(s) :
           Spliced(c, from, s)[i] = IF i < from THEN c[i]
                                    ELSE IF i < from + Len(s) THEN s[i - from + 1]
                                    ELSE c[i - Len(s)]
  BY <1>1, <1>3, <1>4, SplicedText
<1>6. Len(c) + Len(s) = Len(t)
  BY <1>1, <1>2, <1>3
<1>7. ASSUME NEW i \in 1 .. Len(t) PROVE Spliced(c, from, s)[i] = t[i]
  <2>1. CASE i < from
    <3>1. i \in 1 .. Len(t) - (to - from)
      BY <1>2, <2>1
    <3> QED BY <1>1, <1>5, <1>6, <2>1, <3>1
  <2>2. CASE ~ (i < from) /\ i < to
    <3>1. /\ i - from + 1 \in 1 .. to - from /\ from + (i - from + 1) - 1 = i
          /\ i < from + (to - from)
      BY <1>2, <2>2
    <3>2. s[i - from + 1] = t[i]
      BY <1>3, <3>1
    <3>3. Spliced(c, from, s)[i] = s[i - from + 1]
      BY <1>3, <1>5, <1>6, <2>2, <3>1
    <3> QED BY <3>2, <3>3
  <2>3. CASE ~ (i < to)
    <3>1. /\ i - (to - from) \in 1 .. Len(t) - (to - from)
          /\ ~ (i < from) /\ ~ (i < from + (to - from))
          /\ ~ (i - (to - from) < from)
          /\ i - (to - from) + (to - from) = i
      BY <1>2, <2>3
    <3>2. c[i - (to - from)] = t[i]
      BY <1>1, <3>1
    <3>3. Spliced(c, from, s)[i] = c[i - (to - from)]
      BY <1>3, <1>5, <1>6, <3>1
    <3> QED BY <3>2, <3>3
  <2> QED BY <1>2, <2>1, <2>2, <2>3
<1>8. Spliced(c, from, s) = t
  BY <1>5, <1>6, <1>7, SameText
<1> QED BY <1>3, <1>8 DEF c, s

\* Texts that differ between two positions only are the same without that.
LEMMA CutSame ==
  ASSUME NEW t \in Texts, NEW u \in Texts, Len(u) = Len(t),
         NEW to \in 1 .. Len(t) + 1, NEW from \in 1 .. to,
         \A i \in 1 .. Len(t) : i < from \/ to <= i => u[i] = t[i]
  PROVE  Cut(u, from, to) = Cut(t, from, to)
<1>1. Len(t) \in Nat /\ from \in Nat /\ to \in Nat
  BY DEF Texts
<1>2. ASSUME NEW i \in 1 .. Len(t) - (to - from)
      PROVE  (IF i < from THEN u[i] ELSE u[i + (to - from)])
               = (IF i < from THEN t[i] ELSE t[i + (to - from)])
  <2>1. CASE i < from
    <3>1. i \in 1 .. Len(t)
      BY <1>1, <2>1
    <3> QED BY <2>1, <3>1
  <2>2. CASE ~ (i < from)
    <3>1. i + (to - from) \in 1 .. Len(t) /\ to <= i + (to - from)
      BY <1>1, <2>2
    <3> QED BY <2>2, <3>1
  <2> QED BY <2>1, <2>2
<1> QED BY <1>2 DEF Cut

LEMMA CutNothing ==
  ASSUME NEW t \in Texts, NEW p \in 1 .. Len(t) + 1
  PROVE  Cut(t, p, p) = t
<1>1. Len(t) \in Nat /\ p \in Nat /\ p \in 1 .. p
  BY DEF Texts
<1>2. /\ Cut(t, p, p) \in Texts /\ Len(Cut(t, p, p)) = Len(t)
      /\ \A i \in 1 .. Len(t) : Cut(t, p, p)[i] = t[i]
  <2>1. p - p = 0 /\ Len(t) - 0 = Len(t) /\ \A i \in 1 .. Len(t) : i + 0 = i
    BY <1>1
  <2>2. /\ Cut(t, p, p) \in Texts /\ Len(Cut(t, p, p)) = Len(t) - (p - p)
        /\ \A i \in 1 .. Len(t) - (p - p) :
             Cut(t, p, p)[i] = IF i < p THEN t[i] ELSE t[i + (p - p)]
    BY <1>1, CutText
  <2>3. \A i \in 1 .. Len(t) :
          Cut(t, p, p)[i] = IF i < p THEN t[i] ELSE t[i + 0]
    BY <2>1, <2>2
  <2> QED BY <2>1, <2>2, <2>3
<1> QED BY <1>2, SameText

LEMMA SplicedNothing ==
  ASSUME NEW t \in Texts, NEW p \in 1 .. Len(t) + 1
  PROVE  Spliced(t, p, << >>) = t
<1>1. Len(t) \in Nat /\ p \in Nat /\ << >> \in Texts /\ Len(<< >>) = 0
  BY DEF Texts
<1>2. Len(t) + 0 = Len(t) /\ p + 0 = p /\ \A i \in 1 .. Len(t) : i - 0 = i
  BY <1>1
<1>3. /\ Spliced(t, p, << >>) \in Texts
      /\ Len(Spliced(t, p, << >>)) = Len(t) + Len(<< >>)
      /\ \A i \in 1 .. Len(t) + Len(<< >>) :
              Spliced(t, p, << >>)[i] = IF i < p THEN t[i]
                                    ELSE IF i < p + Len(<< >>) THEN << >>[i - p + 1]
                                    ELSE t[i - Len(<< >>)]
  BY <1>1, SplicedText
<1>4. \A i \in 1 .. Len(t) : Spliced(t, p, << >>)[i] = t[i]
  BY <1>1, <1>2, <1>3
<1> QED BY <1>1, <1>2, <1>3, <1>4, SameText

-----------------------------------------------------------------------------
(***************************************************************************)
(* Undo lists.                                                             *)
(***************************************************************************)
Boundary == [kind : {"boundary"}, was : Texts]
First == [kind : {"first"}, time : Nat, was : Texts]
Inserts == {e \in [kind : {"insertion"}, from : Nat, to : Nat, was : Texts,
                   clean : BOOLEAN] : e.from <= e.to}
Deletes == [kind : {"deletion"}, string : Texts, at : Nat, after : BOOLEAN,
            was : Texts, clean : BOOLEAN]
Elements == Boundary \cup First \cup Inserts \cup Deletes
Lists == Seq(Elements)

\* e can be taken back in t, and that gives the text there was.
Leads(t, e) ==
  /\ e.kind = "insertion" => e.to \in 1 .. Len(t) + 1 /\ e.from \in 1 .. e.to
  /\ e.kind = "deletion" => e.at \in 1 .. Len(t) + 1
  /\ TakenBack(t, e) = e.was

\* What the first i - 1 elements lead back to.
Before(list, t, i) == IF i = 1 THEN t ELSE list[i - 1].was
AllLead(list, t) ==
  \A i \in 1 .. Len(list) : Leads(Before(list, t, i), list[i])

\* The first change of an unmodified buffer was recorded.
Recorded(list) ==
  \A i \in 1 .. Len(list) :
    OnUnmodified(list[i]) => i + 1 \in 1 .. Len(list) /\ list[i + 1].kind = "first"

\* The time recorded in the middle of a change: it will not be met but on the
\* way to the end of that change.
InMiddle(list, j) ==
  /\ j - 1 \in 1 .. Len(list) /\ list[j - 1].kind = "insertion"
  /\ j + 1 \in 1 .. Len(list) /\ list[j + 1].kind = "deletion"
  /\ list[j - 1].from = list[j + 1].at /\ list[j - 1].from < list[j - 1].to
  /\ list[j + 1].string # << >> /\ Len(list[j + 1].was) <= MaxSize

\* T is the text that the modification time of the file stands for.
Saved(list, T) ==
  \A j \in 1 .. Len(list) :
    list[j].kind = "first" =>
      /\ list[j].time <= modtime
      /\ list[j].time = modtime => list[j].was = T \/ InMiddle(list, j)

LEMMA ElementParts ==
  ASSUME NEW e \in Elements
  PROVE  /\ e.kind \in {"boundary", "first", "insertion", "deletion"}
         /\ e.was \in Texts
         /\ e.kind = "boundary" => e \in Boundary
         /\ e.kind = "first" => e \in First
         /\ e.kind = "insertion" => e \in Inserts
         /\ e.kind = "deletion" => e \in Deletes
BY DEF Elements, Boundary, First, Inserts, Deletes

LEMMA TakenBackIs ==
  ASSUME NEW t, NEW e \in Elements
  PROVE  /\ e.kind = "insertion" => TakenBack(t, e) = Cut(t, e.from, e.to)
         /\ e.kind = "deletion" => TakenBack(t, e) = Spliced(t, e.at, e.string)
         /\ e.kind \in {"boundary", "first"} => TakenBack(t, e) = t
BY DEF TakenBack

\* One more element.
LEMMA Push ==
  ASSUME NEW list \in Lists, NEW e \in Elements
  PROVE  LET more == <<e>> \o list
         IN /\ more \in Lists /\ Len(more) = Len(list) + 1 /\ more # << >>
            /\ more[1] = e /\ Head(more) = e
            /\ \A i \in 1 .. Len(list) : more[i + 1] = list[i]
            /\ \A i \in 2 .. Len(list) + 1 : more[i] = list[i - 1]
            /\ Len(list) \in Nat
BY DEF Lists

LEMMA PushLeads ==
  ASSUME NEW list \in Lists, NEW e \in Elements, NEW t, NEW u,
         AllLead(list, t), Leads(u, e), e.was = t
  PROVE  AllLead(<<e>> \o list, u)
<1> DEFINE more == <<e>> \o list
<1>1. /\ Len(more) = Len(list) + 1 /\ more[1] = e /\ Len(list) \in Nat
      /\ \A i \in 2 .. Len(list) + 1 : more[i] = list[i - 1]
  BY Push
<1> HIDE DEF more
<1> SUFFICES ASSUME NEW i \in 1 .. Len(more) PROVE Leads(Before(more, u, i), more[i])
  BY DEF AllLead, more
<1>2. CASE i = 1
  BY <1>1, <1>2 DEF Before
<1>3. CASE i # 1
  <2>1. i \in 2 .. Len(list) + 1 /\ i - 1 \in 1 .. Len(list)
    BY <1>1, <1>3
  <2>2. Before(more, u, i) = Before(list, t, i - 1)
    <3>1. CASE i = 2
      BY <1>1, <3>1 DEF Before
    <3>2. CASE i # 2
      <4>1. i - 1 \in 2 .. Len(list) + 1 /\ i - 1 # 1 /\ i - 1 - 1 = i - 2
        BY <1>1, <2>1, <3>2
      <4> QED BY <1>1, <1>3, <4>1 DEF Before
    <3> QED BY <3>1, <3>2
  <2> QED BY <1>1, <2>1, <2>2 DEF AllLead
<1> QED BY <1>2, <1>3

LEMMA PushRecorded ==
  ASSUME NEW list \in Lists, NEW e \in Elements, Recorded(list),
         OnUnmodified(e) => list # << >> /\ list[1].kind = "first"
  PROVE  Recorded(<<e>> \o list)
<1> DEFINE more == <<e>> \o list
<1>1. /\ Len(more) = Len(list) + 1 /\ more[1] = e /\ Len(list) \in Nat
      /\ \A i \in 1 .. Len(list) : more[i + 1] = list[i]
  BY Push
<1>0. list # << >> => 1 \in 1 .. Len(list)
  BY DEF Lists
<1> HIDE DEF more
<1> SUFFICES ASSUME NEW i \in 1 .. Len(more), OnUnmodified(more[i])
             PROVE  i + 1 \in 1 .. Len(more) /\ more[i + 1].kind = "first"
  BY DEF Recorded, more
<1>2. CASE i = 1
  BY <1>0, <1>1, <1>2
<1>3. CASE i # 1
  <2> DEFINE k == i - 1
  <2>1. k \in 1 .. Len(list) /\ k + 1 = i
    BY <1>1, <1>3
  <2> HIDE DEF k
  <2>2. more[i] = list[k]
    BY <1>1, <2>1
  <2>3. k + 1 \in 1 .. Len(list) /\ list[k + 1].kind = "first"
    BY <2>1, <2>2 DEF Recorded
  <2>4. more[i + 1] = list[k + 1] /\ i + 1 \in 1 .. Len(more)
    BY <1>1, <2>1, <2>3
  <2> QED BY <2>3, <2>4
<1> QED BY <1>2, <1>3

\* What is in the middle of a change stays there.
LEMMA PushMiddle ==
  ASSUME NEW list \in Lists, NEW e \in Elements, NEW j \in Nat, InMiddle(list, j)
  PROVE  InMiddle(<<e>> \o list, j + 1)
<1> DEFINE more == <<e>> \o list
<1>1. /\ Len(more) = Len(list) + 1 /\ Len(list) \in Nat
      /\ \A i \in 1 .. Len(list) : more[i + 1] = list[i]
  BY Push
<1>2. j - 1 \in 1 .. Len(list) /\ j + 1 \in 1 .. Len(list)
  BY DEF InMiddle
<1> HIDE DEF more
<1>3. /\ j + 1 - 1 \in 1 .. Len(more) /\ j + 1 + 1 \in 1 .. Len(more)
      /\ j + 1 - 1 = j - 1 + 1
  BY <1>1, <1>2
<1>4. more[j + 1 - 1] = list[j - 1] /\ more[j + 1 + 1] = list[j + 1]
  BY <1>1, <1>2, <1>3
<1> QED BY <1>3, <1>4 DEF InMiddle, more

LEMMA PushSaved ==
  ASSUME NEW list \in Lists, NEW e \in Elements, NEW T, Saved(list, T),
         e.kind = "first" => e.time <= modtime
                               /\ (e.time = modtime => e.was = T)
  PROVE  Saved(<<e>> \o list, T)
<1> DEFINE more == <<e>> \o list
<1>1. /\ Len(more) = Len(list) + 1 /\ more[1] = e /\ Len(list) \in Nat
      /\ \A i \in 1 .. Len(list) : more[i + 1] = list[i]
  BY Push
<1>2. \A j \in 1 .. Len(list) : InMiddle(list, j) => InMiddle(more, j + 1)
  <2>1. \A j \in 1 .. Len(list) : j \in Nat
    BY <1>1
  <2> QED BY <2>1, PushMiddle
<1> HIDE DEF more
<1> SUFFICES ASSUME NEW j \in 1 .. Len(more), more[j].kind = "first"
             PROVE  /\ more[j].time <= modtime
                    /\ more[j].time = modtime => more[j].was = T \/ InMiddle(more, j)
  BY DEF Saved, more
<1>3. CASE j = 1
  BY <1>1, <1>3
<1>4. CASE j # 1
  <2>1. PICK k \in 1 .. Len(list) : j = k + 1
    <3>1. j - 1 \in 1 .. Len(list) /\ j = j - 1 + 1
      BY <1>1, <1>4
    <3> QED BY <3>1
  <2>2. more[j] = list[k]
    BY <1>1, <2>1
  <2> QED BY <1>2, <2>1, <2>2 DEF Saved
<1> QED BY <1>3, <1>4

\* A change in the middle of which the time is recorded.
LEMMA PushMiddleOfChange ==
  ASSUME NEW list \in Lists, NEW f \in First, NEW e \in Inserts, NEW T,
         Saved(list, T), f.time <= modtime,
         list # << >>, list[1].kind = "deletion", list[1].at = e.from,
         list[1].string # << >>, Len(list[1].was) <= MaxSize, e.from < e.to
  PROVE  Saved(<<e>> \o (<<f>> \o list), T)
<1> DEFINE one == <<f>> \o list
           two == <<e>> \o one
<1>0. f \in Elements /\ e \in Elements /\ e.kind = "insertion" /\ f.kind = "first"
  BY DEF Elements, First, Inserts
<1>1. /\ one \in Lists /\ Len(one) = Len(list) + 1 /\ one[1] = f /\ Len(list) \in Nat
      /\ \A i \in 1 .. Len(list) : one[i + 1] = list[i]
  BY <1>0, Push
<1>2. \A j \in 1 .. Len(list) : InMiddle(list, j) => InMiddle(one, j + 1)
  <2>1. \A j \in 1 .. Len(list) : j \in Nat
    BY <1>1
  <2> QED BY <1>0, <2>1, PushMiddle
<1> HIDE DEF one
<1>3. /\ Len(two) = Len(one) + 1 /\ two[1] = e
      /\ \A i \in 1 .. Len(one) : two[i + 1] = one[i]
  BY <1>0, <1>1, Push
<1>4. \A j \in 1 .. Len(list) : InMiddle(list, j) => InMiddle(two, j + 2)
  <2> SUFFICES ASSUME NEW j \in 1 .. Len(list), InMiddle(list, j)
               PROVE  InMiddle(two, j + 2)
    OBVIOUS
  <2>1. j + 1 \in Nat /\ j + 1 + 1 = j + 2
    BY <1>1
  <2>2. InMiddle(two, j + 1 + 1)
    BY <1>0, <1>1, <1>2, <2>1, PushMiddle
  <2> QED BY <2>1, <2>2
<1> HIDE DEF two
<1>5. 1 \in 1 .. Len(list)
  BY <1>1 DEF Lists
<1>6. two[1] = e /\ two[2] = f /\ two[3] = list[1] /\ Len(two) = Len(list) + 2
  <2>1. 1 \in 1 .. Len(one) /\ 2 \in 1 .. Len(one) /\ 1 + 1 = 2 /\ 2 + 1 = 3
    BY <1>1, <1>5
  <2>2. two[1 + 1] = one[1] /\ two[2 + 1] = one[2] /\ one[1 + 1] = list[1]
    BY <1>1, <1>3, <1>5, <2>1
  <2> QED BY <1>1, <1>3, <2>1, <2>2
<1>7. InMiddle(two, 2)
  <2>1. 2 - 1 = 1 /\ 2 + 1 = 3 /\ 1 \in 1 .. Len(two) /\ 3 \in 1 .. Len(two)
    BY <1>1, <1>5, <1>6
  <2> QED BY <1>0, <1>6, <2>1 DEF InMiddle
<1> SUFFICES ASSUME NEW j \in 1 .. Len(two), two[j].kind = "first"
             PROVE  /\ two[j].time <= modtime
                    /\ two[j].time = modtime => two[j].was = T \/ InMiddle(two, j)
  BY DEF Saved, two, one
<1>8. CASE j = 1
  BY <1>0, <1>6, <1>8
<1>9. CASE j = 2
  BY <1>6, <1>7, <1>9
<1>10. CASE j # 1 /\ j # 2
  <2>1. PICK k \in 1 .. Len(list) : j = k + 2
    <3>1. j - 2 \in 1 .. Len(list) /\ j = j - 2 + 2
      BY <1>1, <1>6, <1>10
    <3> QED BY <3>1
  <2>2. k + 1 \in 1 .. Len(one) /\ k + 1 + 1 = k + 2
    BY <1>1
  <2>3. two[j] = list[k]
    BY <1>1, <1>3, <2>1, <2>2
  <2> QED BY <1>4, <2>1, <2>3 DEF Saved
<1> QED BY <1>8, <1>9, <1>10

\* Typing on extends the last insertion.
LEMMA JoinedList ==
  ASSUME NEW list \in Lists, list # << >>, Head(list).kind = "insertion",
         NEW to \in Nat, Head(list).from <= to, NEW t, NEW u, NEW T
  PROVE  LET e == [Head(list) EXCEPT !.to = to]
             more == <<e>> \o Tail(list)
         IN /\ more \in Lists /\ more # << >>
            /\ AllLead(list, t) /\ Leads(u, e) => AllLead(more, u)
            /\ Recorded(list) => Recorded(more)
            /\ Saved(list, T) /\ Head(list).to <= to => Saved(more, T)
<1> DEFINE e == [Head(list) EXCEPT !.to = to]
           more == <<e>> \o Tail(list)
<1>1. /\ Len(list) \in Nat /\ 1 \in 1 .. Len(list) /\ Head(list) = list[1]
      /\ list[1] \in Elements
  BY DEF Lists
<1>2. list[1] \in Inserts
  BY <1>1, ElementParts
<1>3. /\ e \in Inserts /\ e.kind = "insertion" /\ e.from = list[1].from /\ e.to = to
      /\ e.was = list[1].was /\ e.clean = list[1].clean
  BY <1>1, <1>2 DEF Inserts
<1> HIDE DEF e
<1>4. e \in Elements
  BY <1>3 DEF Elements
<1>5. /\ Tail(list) \in Lists /\ Len(Tail(list)) = Len(list) - 1
      /\ \A i \in 1 .. Len(list) - 1 : Tail(list)[i] = list[i + 1]
  BY <1>1 DEF Lists
<1>6. /\ more \in Lists /\ more # << >> /\ Len(more) = Len(list) /\ more[1] = e
      /\ \A i \in 2 .. Len(list) : more[i] = list[i]
  <2> DEFINE rest == Tail(list)
  <2> HIDE DEF rest
  <2>1. rest \in Lists /\ Len(rest) = Len(list) - 1
        /\ \A i \in 1 .. Len(list) - 1 : rest[i] = list[i + 1]
    BY <1>5 DEF rest
  <2>2. LET l == <<e>> \o rest
        IN /\ l \in Lists /\ Len(l) = Len(rest) + 1 /\ l # << >>
           /\ l[1] = e
           /\ \A i \in 2 .. Len(rest) + 1 : l[i] = rest[i - 1]
    BY <1>4, <2>1, Push
  <2>3. \A i \in 2 .. Len(list) : i - 1 \in 1 .. Len(list) - 1 /\ i - 1 + 1 = i
    BY <1>1
  <2>4. Len(rest) + 1 = Len(list)
    BY <1>1, <2>1
  <2> QED BY <2>1, <2>2, <2>3, <2>4 DEF rest
<1> HIDE DEF more
<1>7. ASSUME AllLead(list, t), Leads(u, e) PROVE AllLead(more, u)
  <2> SUFFICES ASSUME NEW i \in 1 .. Len(list) PROVE Leads(Before(more, u, i), more[i])
    BY <1>6 DEF AllLead
  <2>1. CASE i = 1
    BY <1>6, <1>7, <2>1 DEF Before
  <2>2. CASE i # 1
    <3>1. i \in 2 .. Len(list)
      BY <1>1, <2>2
    <3>2. more[i - 1].was = list[i - 1].was
      <4>1. CASE i = 2
        BY <1>3, <1>6, <4>1
      <4>2. CASE i # 2
        <5>1. i - 1 \in 2 .. Len(list)
          BY <1>1, <3>1, <4>2
        <5> QED BY <1>6, <5>1
      <4> QED BY <4>1, <4>2
    <3>3. Before(more, u, i) = Before(list, t, i) /\ more[i] = list[i]
      BY <1>6, <2>2, <3>1, <3>2 DEF Before
    <3> QED BY <1>7, <3>3 DEF AllLead
  <2> QED BY <2>1, <2>2
<1>8. ASSUME Recorded(list) PROVE Recorded(more)
  <2> SUFFICES ASSUME NEW i \in 1 .. Len(list), OnUnmodified(more[i])
               PROVE  i + 1 \in 1 .. Len(list) /\ more[i + 1].kind = "first"
    BY <1>6 DEF Recorded
  <2>1. OnUnmodified(list[i])
    <3>1. CASE i = 1
      BY <1>1, <1>3, <1>6, <3>1 DEF OnUnmodified
    <3>2. CASE i # 1
      <4>1. i \in 2 .. Len(list)
        BY <1>1, <3>2
      <4> QED BY <1>6, <4>1
    <3> QED BY <3>1, <3>2
  <2>2. i + 1 \in 1 .. Len(list) /\ list[i + 1].kind = "first"
    BY <1>8, <2>1 DEF Recorded
  <2>3. i + 1 \in 2 .. Len(list)
    BY <1>1, <2>2
  <2> QED BY <1>6, <2>2, <2>3
<1>9. ASSUME Saved(list, T), Head(list).to <= to PROVE Saved(more, T)
  <2> SUFFICES ASSUME NEW j \in 1 .. Len(list), more[j].kind = "first"
               PROVE  /\ more[j].time <= modtime
                      /\ more[j].time = modtime => more[j].was = T \/ InMiddle(more, j)
    BY <1>6 DEF Saved
  <2>1. j # 1
    BY <1>3, <1>6
  <2>2. j \in 2 .. Len(list) /\ more[j] = list[j]
    <3>1. j \in 2 .. Len(list)
      BY <1>1, <2>1
    <3> QED BY <1>6, <3>1
  <2>3. InMiddle(list, j) => InMiddle(more, j)
    <3> SUFFICES ASSUME InMiddle(list, j) PROVE InMiddle(more, j)
      OBVIOUS
    <3>1. j + 1 \in 1 .. Len(list) /\ j - 1 \in 1 .. Len(list)
      BY DEF InMiddle
    <3>2. more[j + 1] = list[j + 1]
      <4>1. j + 1 \in 2 .. Len(list)
        BY <1>1, <2>2, <3>1
      <4> QED BY <1>6, <4>1
    <3>3. CASE j = 2
      <4>1. j - 1 = 1
        BY <3>3
      <4>2. more[j - 1].kind = "insertion" /\ more[j - 1].from = list[j - 1].from
            /\ more[j - 1].to = to /\ list[j - 1] = Head(list)
        BY <1>1, <1>3, <1>6, <4>1
      <4>3. list[j - 1].from < list[j - 1].to
        BY DEF InMiddle
      <4>4. list[j - 1].from \in Nat /\ list[j - 1].to \in Nat
        BY <1>1, <1>2, <4>1 DEF Inserts
      <4>5. more[j - 1].from < more[j - 1].to
        BY <1>9, <4>2, <4>3, <4>4
      <4> QED BY <1>6, <3>1, <3>2, <4>2, <4>5 DEF InMiddle
    <3>4. CASE j # 2
      <4>1. j - 1 \in 2 .. Len(list)
        BY <1>1, <2>2, <3>4
      <4>2. more[j - 1] = list[j - 1]
        BY <1>6, <4>1
      <4> QED BY <1>6, <3>1, <3>2, <4>2 DEF InMiddle
    <3> QED BY <3>3, <3>4
  <2> QED BY <1>9, <2>2, <2>3 DEF Saved
<1> QED BY <1>6, <1>7, <1>8, <1>9 DEF e, more

-----------------------------------------------------------------------------
(***************************************************************************)
(* What is recorded of one change.                                         *)
(***************************************************************************)
\* What a primitive is shown of the buffer.
Shots == [text : Texts, pt : Nat, zv : Nat, list : Lists, here : BOOLEAN,
          modified : BOOLEAN, clean : BOOLEAN]
View(s) ==
  /\ s.text \in Texts /\ Len(s.text) <= MaxSize
  /\ s.list \in Lists
  /\ s.here \in BOOLEAN /\ s.modified \in BOOLEAN /\ s.clean \in BOOLEAN

\* The list leads back from the text; without undo there is none.
Traced(s) == AllLead(s.list, s.text) /\ (~ recording => s.list = << >>)
\* The changes of this primitive will be recorded as what they are.
Noted(s) == Recorded(s.list) /\ (s.clean => ~ s.modified)
\* T is what the modification time stands for.
Sound(s, T) == Saved(s.list, T) /\ (~ s.modified => s.text = T)
\* The deletion at p is half of a change.
Halfway(s, p) ==
  /\ s.here /\ s.list # << >> /\ s.list[1].kind = "deletion" /\ s.list[1].at = p
  /\ s.list[1].string # << >> /\ Len(s.list[1].was) <= MaxSize

LEMMA NoList ==
  /\ << >> \in Lists
  /\ \A t : AllLead(<< >>, t)
  /\ Recorded(<< >>)
  /\ \A T : Saved(<< >>, T)
BY DEF Lists, AllLead, Recorded, Saved

LEMMA WithBoundaryList ==
  ASSUME NEW list \in Lists, NEW t \in Texts, NEW T
  PROVE  LET more == WithBoundary(list, t)
         IN /\ more \in Lists
            /\ AllLead(list, t) => AllLead(more, t)
            /\ Recorded(list) => Recorded(more)
            /\ Saved(list, T) => Saved(more, T)
            /\ ~ recording => more = list
<1> DEFINE e == BoundaryOf(t)
<1>1. e \in Elements /\ e.kind = "boundary" /\ e.was = t
  BY DEF BoundaryOf, Elements, Boundary
<1> HIDE DEF e
<1>2. Leads(t, e) /\ ~ OnUnmodified(e)
  BY <1>1, TakenBackIs DEF Leads, OnUnmodified
<1>3. <<e>> \o list \in Lists
  BY <1>1, Push
<1>4. AllLead(list, t) => AllLead(<<e>> \o list, t)
  BY <1>1, <1>2, PushLeads
<1>5. Recorded(list) => Recorded(<<e>> \o list)
  BY <1>1, <1>2, PushRecorded
<1>6. Saved(list, T) => Saved(<<e>> \o list, T)
  BY <1>1, PushSaved
<1>7. \/ WithBoundary(list, t) = list
      \/ recording /\ WithBoundary(list, t) = <<e>> \o list
  BY DEF WithBoundary, e
<1> HIDE DEF WithBoundary
<1> QED BY <1>3, <1>4, <1>5, <1>6, <1>7

LEMMA BegunList ==
  ASSUME NEW s, View(s), NEW T, modtime \in Nat
  PROVE  LET more == Begun(s)
         IN /\ more \in Lists
            /\ AllLead(s.list, s.text) => AllLead(more, s.text)
            /\ Recorded(s.list) => Recorded(more)
            /\ Sound(s, T) => Saved(more, T)
            /\ ~ s.modified => /\ more # << >> /\ Head(more) = more[1]
                               /\ more[1] = FirstChange(s.text)
            /\ s.here /\ ~ s.modified => more = <<FirstChange(s.text)>> \o s.list
<1> DEFINE f == FirstChange(s.text)
           list == IF s.here THEN s.list ELSE WithBoundary(s.list, s.text)
<1>1. /\ f \in Elements /\ f.kind = "first" /\ f.was = s.text /\ f.time = modtime
      /\ f.time <= modtime
  BY DEF View, FirstChange, Elements, First
<1>2. /\ list \in Lists
      /\ AllLead(s.list, s.text) => AllLead(list, s.text)
      /\ Recorded(s.list) => Recorded(list)
      /\ Saved(s.list, T) => Saved(list, T)
  BY WithBoundaryList DEF View
<1>3. Begun(s) = IF s.modified THEN list ELSE <<f>> \o list
  BY DEF Begun
<1>4. s.here => list = s.list
  OBVIOUS
<1> HIDE DEF f, list
<1>5. CASE s.modified
  BY <1>2, <1>3, <1>5 DEF Sound
<1>6. CASE ~ s.modified
  <2>1. Leads(s.text, f) /\ ~ OnUnmodified(f)
    BY <1>1, TakenBackIs DEF Leads, OnUnmodified
  <2>2. LET more == <<f>> \o list
        IN more \in Lists /\ more # << >> /\ more[1] = f /\ Head(more) = f
    BY <1>1, <1>2, Push
  <2>3. AllLead(s.list, s.text) => AllLead(<<f>> \o list, s.text)
    BY <1>1, <1>2, <2>1, PushLeads
  <2>4. Recorded(s.list) => Recorded(<<f>> \o list)
    BY <1>1, <1>2, <2>1, PushRecorded
  <2>5. Sound(s, T) => Saved(<<f>> \o list, T)
    BY <1>1, <1>2, <1>6, PushSaved DEF Sound
  <2>6. Begun(s) = <<f>> \o list
    BY <1>3, <1>6
  <2> QED BY <1>4, <1>6, <2>2, <2>3, <2>4, <2>5, <2>6 DEF f
<1> QED BY <1>5, <1>6 DEF View

\* u is the text with n characters put in before position beg.
Longer(u, t, beg, n) ==
  /\ u \in Texts /\ beg + n <= Len(u) + 1
  /\ \A from \in 1 .. beg : Cut(u, from, beg + n) = Cut(t, from, beg)

LEMMA RecordInsertList ==
  ASSUME NEW s, View(s), NEW T, modtime \in Nat,
         NEW beg \in 1 .. Len(s.text) + 1, NEW n \in Nat, NEW u
  PROVE  LET more == RecordInsert(s, beg, n)
         IN /\ more \in Lists
            /\ Traced(s) /\ Longer(u, s.text, beg, n)
                 => AllLead(more, u) /\ (~ recording => more = << >>)
            /\ Noted(s) => Recorded(more)
            /\ Sound(s, T) => Saved(more, T)
            /\ recording /\ ~ s.modified /\ Halfway(s, beg) /\ Saved(s.list, T) /\ n # 0
                 => Saved(more, T)
<1> DEFINE list == Begun(s)
           e == Insertion(beg, beg + n, s.text, s.clean)
           joins == list # << >> /\ Head(list).kind = "insertion" /\ Head(list).to = beg
           joined == [Head(list) EXCEPT !.to = beg + n]
<1>1. CASE ~ recording
  BY <1>1, NoList DEF RecordInsert, View, Traced, Noted, Sound
<1>2. CASE recording
  <2>0. Len(s.text) \in Nat /\ beg \in Nat /\ beg + n \in Nat /\ beg <= beg + n
        /\ 1 <= beg
    BY DEF View, Texts
  <2>1. /\ e \in Inserts /\ e \in Elements /\ e.kind = "insertion" /\ e.was = s.text
        /\ e.from = beg /\ e.to = beg + n /\ e.clean = s.clean
    BY <2>0 DEF View, Insertion, Inserts, Elements
  <2>2. /\ list \in Lists
        /\ AllLead(s.list, s.text) => AllLead(list, s.text)
        /\ Recorded(s.list) => Recorded(list)
        /\ Sound(s, T) => Saved(list, T)
        /\ ~ s.modified => /\ list # << >> /\ Head(list) = list[1]
                           /\ list[1] = FirstChange(s.text)
        /\ s.here /\ ~ s.modified => list = <<FirstChange(s.text)>> \o s.list
    BY BegunList
  <2>3. RecordInsert(s, beg, n) =
          IF joins THEN <<joined>> \o Tail(list) ELSE <<e>> \o list
    BY <1>2 DEF RecordInsert
  <2>4. FirstChange(s.text).kind = "first"
    BY DEF FirstChange
  <2> HIDE DEF list, e
  <2>5. CASE joins
    <3>1. list # << >> /\ Head(list).kind = "insertion" /\ Head(list).to = beg
      BY <2>5
    <3>2. s.modified
      BY <2>2, <2>4, <3>1
    <3>3. Head(list) \in Inserts
      <4>1. Head(list) \in Elements
        BY <2>2, <3>1 DEF Lists
      <4> QED BY <3>1, <4>1, ElementParts
    <3>4. /\ joined.kind = "insertion" /\ joined.from = Head(list).from
          /\ joined.to = beg + n /\ joined.was = Head(list).was
          /\ joined.from \in Nat /\ joined.from <= beg
      BY <3>1, <3>3 DEF Inserts
    <3>4a. joined \in Elements
      <4>1. joined.from <= beg + n
        BY <2>0, <3>4
      <4>2. joined \in Inserts
        BY <2>0, <3>3, <4>1 DEF Inserts
      <4> QED BY <4>2 DEF Elements
    <3> DEFINE more == <<joined>> \o Tail(list)
    <3>5. /\ more \in Lists /\ more # << >>
          /\ AllLead(list, s.text) /\ Leads(u, joined) => AllLead(more, u)
          /\ Recorded(list) => Recorded(more)
          /\ Saved(list, T) => Saved(more, T)
      <4>1. beg + n \in Nat /\ Head(list).from <= beg + n
        BY <2>0, <3>4
      <4>2. PICK to \in Nat : to = beg + n
        BY <4>1
      <4>3. LET je == [Head(list) EXCEPT !.to = to]
                jl == <<je>> \o Tail(list)
            IN /\ jl \in Lists /\ jl # << >>
               /\ AllLead(list, s.text) /\ Leads(u, je) => AllLead(jl, u)
               /\ Recorded(list) => Recorded(jl)
               /\ Saved(list, T) /\ Head(list).from <= to /\ Head(list).to <= to
                     => Saved(jl, T)
        BY <2>2, <3>1, <4>1, <4>2, JoinedList, Zenon
      <4>4. Head(list).to <= to
        BY <2>0, <3>1, <4>2
      <4> HIDE DEF joins
      <4> QED BY <4>1, <4>2, <4>3, <4>4
    <3> HIDE DEF more, joined
    <3>6. ASSUME AllLead(list, s.text), Longer(u, s.text, beg, n)
          PROVE  Leads(u, joined)
      <4>1. Leads(s.text, Head(list))
        <5>1. 1 \in 1 .. Len(list) /\ Head(list) = list[1]
          BY <2>2, <3>1 DEF Lists
        <5> QED BY <3>6, <5>1 DEF AllLead, Before
      <4>2. Head(list).from \in 1 .. beg
            /\ Cut(s.text, Head(list).from, beg) = Head(list).was
        BY <3>1, <3>3, <4>1 DEF Leads, TakenBack, Inserts
      <4>3. Cut(u, joined.from, beg + n) = joined.was
        BY <3>4, <3>6, <4>2 DEF Longer
      <4>4. beg + n \in 1 .. Len(u) + 1
        BY <2>0, <3>6 DEF Longer, Texts
      <4>5. joined.from \in 1 .. beg + n
        BY <2>0, <3>4, <4>2
      <4>6. TakenBack(u, joined) = joined.was
        BY <3>4, <3>4a, <4>3, TakenBackIs
      <4> QED BY <3>4, <4>4, <4>5, <4>6 DEF Leads
    <3>7. RecordInsert(s, beg, n) = more
      BY <2>3, <2>5 DEF more
    <3> QED BY <1>2, <2>2, <3>2, <3>5, <3>6, <3>7 DEF Traced, Noted
  <2>6. CASE ~ joins
    <3> DEFINE more == <<e>> \o list
    <3>1. more \in Lists
      BY <2>1, <2>2, Push
    <3>2. ASSUME AllLead(list, s.text), Longer(u, s.text, beg, n)
          PROVE  AllLead(more, u)
      <4>1. Cut(u, beg, beg + n) = s.text
        <5>1. beg \in 1 .. beg
          BY <2>0
        <5>2. Cut(u, beg, beg + n) = Cut(s.text, beg, beg)
          BY <3>2, <5>1 DEF Longer
        <5> QED BY <5>2, CutNothing DEF View
      <4>2. beg + n \in 1 .. Len(u) + 1 /\ beg \in 1 .. beg + n
        BY <2>0, <3>2 DEF Longer, Texts
      <4>3. Leads(u, e)
        BY <2>1, <4>1, <4>2, TakenBackIs DEF Leads
      <4> QED BY <2>1, <2>2, <3>2, <4>3, PushLeads
    <3>3. Noted(s) => Recorded(more)
      BY <2>1, <2>2, <2>4, PushRecorded DEF Noted, OnUnmodified
    <3>4. Sound(s, T) => Saved(more, T)
      BY <2>1, <2>2, PushSaved
    <3>5. ASSUME ~ s.modified, Halfway(s, beg), Saved(s.list, T), n # 0
          PROVE  Saved(more, T)
      <4> DEFINE f == FirstChange(s.text)
      <4>1. f \in First /\ f.time <= modtime
        BY DEF View, FirstChange, First
      <4>2. list = <<f>> \o s.list /\ s.list \in Lists
        BY <2>2, <3>5 DEF Halfway, View
      <4>3. e.from < e.to
        BY <2>0, <2>1, <3>5
      <4> HIDE DEF f
      <4>4. Saved(<<e>> \o (<<f>> \o s.list), T)
        BY <2>1, <3>5, <4>1, <4>2, <4>3, PushMiddleOfChange DEF Halfway
      <4> QED BY <4>2, <4>4
    <3>6. RecordInsert(s, beg, n) = more
      BY <2>3, <2>6
    <3> HIDE DEF more
    <3> QED BY <1>2, <2>2, <3>1, <3>2, <3>3, <3>4, <3>5, <3>6 DEF Traced
  <2> QED BY <2>5, <2>6
<1> QED BY <1>1, <1>2

LEMMA RecordDeleteList ==
  ASSUME NEW s, View(s), NEW T, modtime \in Nat,
         NEW beg \in 1 .. Len(s.text) + 1, NEW n \in Nat, beg + n <= Len(s.text) + 1
  PROVE  LET more == RecordDelete(s, beg, n)
             u == Cut(s.text, beg, beg + n)
         IN /\ more \in Lists
            /\ u \in Texts /\ Len(u) = Len(s.text) - n
            /\ Traced(s) => AllLead(more, u) /\ (~ recording => more = << >>)
            /\ Noted(s) => Recorded(more)
            /\ Sound(s, T) => Saved(more, T)
            /\ recording =>
                 /\ more # << >> /\ more[1].kind = "deletion" /\ more[1].at = beg
                 /\ n # 0 => more[1].string # << >>
                 /\ Len(more[1].was) <= MaxSize
<1> DEFINE u == Cut(s.text, beg, beg + n)
           list == Begun(s)
           e == Deletion(SubSeq(s.text, beg, beg + n - 1), beg, s.pt = beg + n,
                         s.text, s.clean)
           more == <<e>> \o list
<1>0. /\ Len(s.text) \in Nat /\ beg \in Nat /\ beg + n \in 1 .. Len(s.text) + 1
      /\ beg \in 1 .. beg + n /\ beg + n - beg = n /\ s.text \in Texts
      /\ beg \in 1 .. Len(s.text) - n + 1
  BY DEF View, Texts
<1>1. /\ u \in Texts /\ Len(u) = Len(s.text) - n
      /\ SubSeq(s.text, beg, beg + n - 1) \in Texts
      /\ Len(SubSeq(s.text, beg, beg + n - 1)) = n
      /\ Spliced(u, beg, SubSeq(s.text, beg, beg + n - 1)) = s.text
  <2> HIDE DEF u
  <2>1. u \in Texts /\ Len(u) = Len(s.text) - (beg + n - beg)
    <3>1. PICK q : q = beg + n
      OBVIOUS
    <3>2. /\ Cut(s.text, beg, q) \in Texts
          /\ Len(Cut(s.text, beg, q)) = Len(s.text) - (q - beg)
      BY <1>0, <3>1, CutText
    <3> QED BY <3>1, <3>2 DEF u
  <2>2. /\ SubSeq(s.text, beg, beg + n - 1) \in Texts
        /\ Len(SubSeq(s.text, beg, beg + n - 1)) = beg + n - beg
        /\ Spliced(u, beg, SubSeq(s.text, beg, beg + n - 1)) = s.text
    BY <1>0, SplicedCut DEF u
  <2> QED BY <1>0, <2>1, <2>2
<1> HIDE DEF u
<1>2. CASE ~ recording
  BY <1>1, <1>2, NoList DEF RecordDelete, View, Traced, Noted, Sound, u
<1>3. CASE recording
  <2>1. /\ e \in Elements /\ e.kind = "deletion" /\ e.was = s.text /\ e.at = beg
        /\ e.string = SubSeq(s.text, beg, beg + n - 1) /\ e.clean = s.clean
    BY <1>0, <1>1 DEF View, Deletion, Deletes, Elements
  <2>2. /\ list \in Lists
        /\ AllLead(s.list, s.text) => AllLead(list, s.text)
        /\ Recorded(s.list) => Recorded(list)
        /\ Sound(s, T) => Saved(list, T)
        /\ ~ s.modified => list # << >> /\ list[1] = FirstChange(s.text)
    BY BegunList
  <2>3. RecordDelete(s, beg, n) = more
    BY <1>3 DEF RecordDelete
  <2>4. FirstChange(s.text).kind = "first"
    BY DEF FirstChange
  <2> HIDE DEF list, e
  <2>5. more \in Lists /\ more # << >> /\ more[1] = e
    BY <2>1, <2>2, Push
  <2>6. Leads(u, e)
    <3>1. TakenBack(u, e) = s.text
      <4>1. TakenBack(u, e) = Spliced(u, e.at, e.string)
        BY <2>1, TakenBackIs
      <4> QED BY <1>1, <2>1, <4>1, Zenon
    <3>2. beg \in 1 .. Len(u) + 1
      BY <1>0, <1>1
    <3> QED BY <2>1, <3>1, <3>2 DEF Leads
  <2>7. AllLead(list, s.text) => AllLead(more, u)
    BY <2>1, <2>2, <2>6, PushLeads
  <2>8. Noted(s) => Recorded(more)
    BY <2>1, <2>2, <2>4, PushRecorded DEF Noted, OnUnmodified
  <2>9. Sound(s, T) => Saved(more, T)
    BY <2>1, <2>2, PushSaved
  <2>10. n # 0 => e.string # << >>
    <3>1. Len(<< >>) = 0
      OBVIOUS
    <3> QED BY <1>1, <2>1, <3>1
  <2>11. Len(e.was) <= MaxSize
    BY <2>1 DEF View
  <2> HIDE DEF more
  <2> QED BY <1>1, <1>3, <2>1, <2>2, <2>3, <2>5, <2>7, <2>8, <2>9, <2>10, <2>11
             DEF Traced, u
<1> QED BY <1>2, <1>3

\* A deletion and an insertion of as much: between the two the buffer is not
\* told to be modified.
LEMMA RecordChangeList ==
  ASSUME NEW s \in Shots, View(s), NEW T, modtime \in Nat,
         NEW beg \in 1 .. Len(s.text) + 1, NEW n \in Nat, beg + n <= Len(s.text) + 1,
         NEW u \in Texts, Len(u) = Len(s.text),
         \A i \in 1 .. Len(s.text) : i < beg \/ beg + n <= i => u[i] = s.text[i]
  PROVE  LET more == RecordChange(s, beg, n)
         IN /\ more \in Lists
            /\ Traced(s) => AllLead(more, u) /\ (~ recording => more = << >>)
            /\ Noted(s) => Recorded(more)
            /\ Sound(s, T) => Saved(more, T)
<1> DEFINE c == Cut(s.text, beg, beg + n)
           list == RecordDelete(s, beg, n)
           mid == [s EXCEPT !.text = c, !.list = list, !.here = TRUE]
<1>1. /\ list \in Lists /\ c \in Texts /\ Len(c) = Len(s.text) - n
      /\ Traced(s) => AllLead(list, c) /\ (~ recording => list = << >>)
      /\ Noted(s) => Recorded(list)
      /\ Sound(s, T) => Saved(list, T)
      /\ recording =>
           /\ list # << >> /\ list[1].kind = "deletion" /\ list[1].at = beg
           /\ n # 0 => list[1].string # << >>
           /\ Len(list[1].was) <= MaxSize
  BY RecordDeleteList
<1>2. /\ mid.text = c /\ mid.list = list /\ mid.here = TRUE
      /\ mid.modified = s.modified /\ mid.clean = s.clean
  BY DEF Shots
<1>3. RecordChange(s, beg, n) = RecordInsert(mid, beg, n)
  BY DEF RecordChange
<1>0. /\ Len(s.text) \in Nat /\ beg \in Nat /\ s.text \in Texts
      /\ Len(s.text) - n <= Len(s.text) /\ MaxSize \in Nat
  BY BufferTextAssumption DEF View, Texts
<1> HIDE DEF mid, list
<1>4. View(mid)
  <2>1. Len(c) <= MaxSize
    <3> HIDE DEF c
    <3> QED BY <1>0, <1>1 DEF View
  <2> QED BY <1>1, <1>2, <2>1 DEF View
<1>5. beg \in 1 .. Len(c) + 1
  <2> HIDE DEF c
  <2> QED BY <1>0, <1>1
<1>6. Longer(u, c, beg, n)
  <2>0. PICK q \in 1 .. Len(s.text) + 1 : q = beg + n /\ beg \in 1 .. q /\ q - beg = n
    BY <1>0
  <2>1. Cut(u, beg, q) = c
    BY <1>0, <2>0, CutSame
  <2> DEFINE x == SubSeq(u, beg, q - 1)
  <2>2. x \in Texts /\ Len(x) = n /\ Spliced(c, beg, x) = u
    BY <2>0, <2>1, SplicedCut
  <2> HIDE DEF x, c
  <2>3. \A from \in 1 .. beg : Cut(Spliced(c, beg, x), from, beg + Len(x)) = Cut(c, from, beg)
    BY <1>1, <1>5, <2>2, CutSpliced
  <2>4. beg + n <= Len(u) + 1
    BY <1>0
  <2> QED BY <2>2, <2>3, <2>4 DEF Longer
<1>7. LET more == RecordInsert(mid, beg, n)
      IN /\ more \in Lists
         /\ Traced(mid) /\ Longer(u, mid.text, beg, n)
              => AllLead(more, u) /\ (~ recording => more = << >>)
         /\ Noted(mid) => Recorded(more)
         /\ Sound(mid, T) => Saved(more, T)
         /\ recording /\ ~ mid.modified /\ Halfway(mid, beg) /\ Saved(mid.list, T) /\ n # 0
              => Saved(more, T)
  <2> HIDE DEF c
  <2> QED BY <1>2, <1>4, <1>5, RecordInsertList
<1>8. Traced(s) => Traced(mid)
  BY <1>1, <1>2 DEF Traced
<1>9. Noted(s) => Noted(mid)
  BY <1>1, <1>2 DEF Noted
<1>10. n = 0 => c = s.text
  <2>1. n = 0 => beg + n = beg
    BY <1>0
  <2> QED BY <1>0, <2>1, CutNothing
<1>11. ASSUME Sound(s, T) PROVE Saved(RecordInsert(mid, beg, n), T)
  <2>1. CASE ~ recording
    BY <1>1, <1>2, <1>11, <2>1 DEF RecordInsert
  <2>2. CASE n = 0 \/ s.modified
    <3>1. Sound(mid, T)
      BY <1>1, <1>2, <1>10, <1>11, <2>2 DEF Sound
    <3> QED BY <1>7, <3>1
  <2>3. CASE recording /\ n # 0 /\ ~ s.modified
    <3>1. Halfway(mid, beg)
      BY <1>1, <1>2, <2>3 DEF Halfway
    <3> QED BY <1>1, <1>2, <1>7, <1>11, <2>3, <3>1
  <2> QED BY <2>1, <2>2, <2>3
<1> QED BY <1>2, <1>3, <1>6, <1>7, <1>8, <1>9, <1>11

\* Point and the end of the accessible part.
Placed(s) == s.zv \in begv .. Len(s.text) + 1 /\ s.pt \in begv .. s.zv

LEMMA MovedPlaces ==
  ASSUME NEW l \in Nat, NEW n \in Nat, NEW z \in Nat, NEW p \in Nat, NEW b \in Nat,
         1 <= b, b <= p, p <= z, z <= l + 1
  PROVE  /\ p \in 1 .. l + 1 /\ z + n \in b .. l + n + 1 /\ p + n \in b .. z + n
         /\ p <= p + n /\ z + n \in Nat /\ p + n \in Nat
<1>1. z + n <= l + n + 1 /\ b <= z + n
  OBVIOUS
<1>2. b <= p + n /\ p + n <= z + n /\ p <= l + 1
  OBVIOUS
<1> QED BY <1>1, <1>2

LEMMA InsertedView ==
  ASSUME NEW s, View(s), Placed(s), NEW string \in Texts, NEW T,
         modtime \in Nat, begv \in Nat \ {0}, Len(s.text) + Len(string) <= MaxSize
  PROVE  LET r == Inserted(s, string)
         IN /\ r \in Shots /\ View(r) /\ Placed(r)
            /\ r.text = Spliced(s.text, s.pt, string)
            /\ r.zv = s.zv + Len(string) /\ r.pt = s.pt + Len(string)
            /\ r.modified /\ s.pt <= r.pt
            /\ Traced(s) => Traced(r)
            /\ Noted(s) => Noted(r)
            /\ Sound(s, T) => Sound(r, T)
            /\ recording /\ ~ s.modified /\ Halfway(s, s.pt) /\ Saved(s.list, T)
                 /\ string # << >> => Sound(r, T)
<1> DEFINE n == Len(string)
           u == Spliced(s.text, s.pt, string)
           list == RecordInsert(s, s.pt, n)
           r == Inserted(s, string)
<1>0. /\ Len(s.text) \in Nat /\ n \in Nat /\ s.zv \in Nat /\ s.pt \in Nat
      /\ s.pt \in 1 .. Len(s.text) + 1 /\ s.text \in Texts
      /\ s.zv + n \in begv .. Len(s.text) + n + 1 /\ s.pt + n \in begv .. s.zv + n
      /\ s.pt <= s.pt + n /\ s.zv + n \in Nat /\ s.pt + n \in Nat
  <2>1. Len(s.text) \in Nat /\ n \in Nat /\ s.text \in Texts
    BY DEF View, Texts
  <2>2. /\ s.zv \in Nat /\ s.pt \in Nat /\ s.pt <= s.zv /\ begv <= s.pt
        /\ s.zv <= Len(s.text) + 1 /\ 1 <= begv
    BY <2>1 DEF Placed
  <2> HIDE DEF n
  <2>3. begv \in Nat
    OBVIOUS
  <2>4. /\ s.pt \in 1 .. Len(s.text) + 1
        /\ s.zv + n \in begv .. Len(s.text) + n + 1 /\ s.pt + n \in begv .. s.zv + n
        /\ s.pt <= s.pt + n /\ s.zv + n \in Nat /\ s.pt + n \in Nat
    BY <2>1, <2>2, <2>3, MovedPlaces, Zenon
  <2> QED BY <2>1, <2>2, <2>4, Zenon
<1>1. /\ r.text = u /\ r.pt = s.pt + n /\ r.zv = s.zv + n /\ r.list = list
      /\ r.here = TRUE /\ r.modified = TRUE /\ r.clean = FALSE
  BY DEF Inserted
<1>1a. r = [text |-> u, pt |-> s.pt + n, zv |-> s.zv + n, list |-> list,
            here |-> TRUE, modified |-> TRUE, clean |-> FALSE]
  BY DEF Inserted
<1>2. u \in Texts /\ Len(u) = Len(s.text) + n
  BY <1>0, SplicedText
<1>3. Longer(u, s.text, s.pt, n)
  <2>1. s.pt + n <= Len(s.text) + n + 1
    BY <1>0
  <2>2. \A from \in 1 .. s.pt : Cut(u, from, s.pt + n) = Cut(s.text, from, s.pt)
    BY <1>0, CutSpliced
  <2> HIDE DEF u
  <2>3. s.pt + n <= Len(u) + 1
    BY <1>0, <1>2, <2>1
  <2> QED BY <1>2, <2>2, <2>3 DEF Longer
<1>4. n = 0 => string = << >>
  BY DEF Texts
<1> HIDE DEF u, r, n
<1>5. /\ list \in Lists
      /\ Traced(s) => AllLead(list, u) /\ (~ recording => list = << >>)
      /\ Noted(s) => Recorded(list)
      /\ Sound(s, T) => Saved(list, T)
      /\ recording /\ ~ s.modified /\ Halfway(s, s.pt) /\ Saved(s.list, T) /\ n # 0
           => Saved(list, T)
  BY <1>0, <1>3, RecordInsertList
<1> HIDE DEF list
<1>6. View(r)
  <2>1. Len(u) <= MaxSize
    BY <1>2 DEF n
  <2> QED BY <1>1, <1>2, <1>5, <2>1 DEF View
<1>7. Placed(r)
  BY <1>0, <1>1, <1>2 DEF Placed
<1>8. r \in Shots
  BY <1>0, <1>1a, <1>2, <1>5 DEF Shots
<1>9. Traced(s) => Traced(r)
  BY <1>1, <1>5 DEF Traced
<1>10. Noted(s) => Noted(r)
  BY <1>1, <1>5 DEF Noted
<1>11. Saved(list, T) => Sound(r, T)
  BY <1>1 DEF Sound
<1> QED BY <1>0, <1>1, <1>4, <1>5, <1>6, <1>7, <1>8, <1>9, <1>10, <1>11 DEF r, u, n

LEMMA DeletedView ==
  ASSUME NEW s, View(s), Placed(s), NEW to \in begv .. s.zv, NEW from \in begv .. to,
         NEW T, modtime \in Nat, begv \in Nat \ {0}
  PROVE  LET r == Deleted(s, from, to)
         IN /\ r \in Shots /\ View(r) /\ Placed(r)
            /\ r.text = Cut(s.text, from, to)
            /\ r.modified /\ from <= r.zv /\ r.zv = s.zv - (to - from)
            /\ Traced(s) => Traced(r)
            /\ Noted(s) => Noted(r)
            /\ Sound(s, T) => Sound(r, T)
            /\ recording /\ from < to => Halfway(r, from)
<1> DEFINE n == to - from
           u == Cut(s.text, from, to)
           list == RecordDelete(s, from, n)
           r == Deleted(s, from, to)
           pt1 == AfterDelete(s.pt, from, to)
<1>0. /\ Len(s.text) \in Nat /\ n \in Nat /\ s.zv \in Nat /\ s.pt \in Nat
      /\ from \in 1 .. Len(s.text) + 1 /\ from + n = to /\ to <= Len(s.text) + 1
      /\ s.text \in Texts /\ MaxSize \in Nat
      /\ s.zv - n \in begv .. Len(s.text) - n + 1 /\ from <= s.zv - n
      /\ Len(s.text) - n <= Len(s.text) /\ s.zv - n \in Nat
  BY BufferTextAssumption, SMTT(20) DEF View, Placed, Texts
<1>0a. pt1 \in begv .. s.zv - n /\ pt1 \in Nat
  BY <1>0 DEF Placed, AfterDelete
<1>1a. r = [text |-> u, pt |-> pt1, zv |-> s.zv - n, list |-> list,
            here |-> TRUE, modified |-> TRUE, clean |-> FALSE]
  BY DEF Deleted
<1>1. /\ r.text = u /\ r.pt = pt1 /\ r.zv = s.zv - n /\ r.list = list
      /\ r.here = TRUE /\ r.modified = TRUE /\ r.clean = FALSE
  BY DEF Deleted
<1>1b. from < to <=> n # 0
  BY <1>0
<1> HIDE DEF r, n, pt1
<1>2. /\ list \in Lists
      /\ u \in Texts /\ Len(u) = Len(s.text) - n
      /\ Traced(s) => AllLead(list, u) /\ (~ recording => list = << >>)
      /\ Noted(s) => Recorded(list)
      /\ Sound(s, T) => Saved(list, T)
      /\ recording =>
           /\ list # << >> /\ list[1].kind = "deletion" /\ list[1].at = from
           /\ n # 0 => list[1].string # << >>
           /\ Len(list[1].was) <= MaxSize
  <2>1. from + n <= Len(s.text) + 1 /\ u = Cut(s.text, from, from + n)
    BY <1>0
  <2> HIDE DEF u
  <2> QED BY <1>0, <2>1, RecordDeleteList
<1> HIDE DEF list, u
<1>6. View(r)
  <2>1. Len(u) <= MaxSize
    BY <1>0, <1>2 DEF View
  <2> QED BY <1>1, <1>2, <2>1 DEF View
<1>7. Placed(r)
  BY <1>0, <1>0a, <1>1, <1>2 DEF Placed
<1>8. r \in Shots
  BY <1>0, <1>0a, <1>1a, <1>2 DEF Shots
<1>9. Traced(s) => Traced(r)
  BY <1>1, <1>2 DEF Traced
<1>10. Noted(s) => Noted(r)
  BY <1>1, <1>2 DEF Noted
<1>11. Saved(list, T) => Sound(r, T)
  BY <1>1 DEF Sound
<1>12. recording /\ from < to => Halfway(r, from)
  BY <1>1, <1>1b, <1>2 DEF Halfway
<1> QED BY <1>0, <1>1, <1>2, <1>6, <1>7, <1>8, <1>9, <1>10, <1>11, <1>12 DEF r, u, n

-----------------------------------------------------------------------------
(***************************************************************************)
(* primitive-undo, element by element.                                     *)
(***************************************************************************)
Undoings == [text : Texts, pt : Nat, zv : Nat, list : Lists, here : BOOLEAN,
             modified : BOOLEAN, clean : BOOLEAN, left : Nat, failed : BOOLEAN]
Steady == {u \in Undoings : View(u) /\ Placed(u)}
Running(u) == u.left # 0 /\ ~ u.failed

\* All that undoing keeps of the lists.
Keeps(u, r, T) ==
  /\ Traced(u) => Traced(r)
  /\ Noted(u) => Noted(r)
  /\ Sound(u, T) => Sound(r, T)

\* Only point, and what is left to undo, is set apart from the primitives.
LEMMA CarryView ==
  ASSUME NEW u \in Steady, NEW s, NEW p \in Nat, NEW T,
         s \in Shots \/ s \in Undoings, View(s), Placed(s), p \in begv .. s.zv,
         Keeps(u, s, T)
  PROVE  LET r == Carry(u, [s EXCEPT !.pt = p])
         IN /\ r \in Steady /\ r.left = u.left /\ r.failed = u.failed
            /\ r.text = s.text /\ r.zv = s.zv /\ r.list = s.list /\ r.here = s.here
            /\ r.modified = s.modified
            /\ Keeps(u, r, T)
<1> DEFINE q == [s EXCEPT !.pt = p]
           r == Carry(u, q)
<1>1. /\ q.text = s.text /\ q.pt = p /\ q.zv = s.zv /\ q.list = s.list
      /\ q.here = s.here /\ q.modified = s.modified /\ q.clean = s.clean
  BY DEF Shots, Undoings
<1> HIDE DEF q
<1>2. /\ r.text = s.text /\ r.pt = p /\ r.zv = s.zv /\ r.list = s.list
      /\ r.here = s.here /\ r.modified = s.modified /\ r.clean = s.clean
      /\ r.left = u.left /\ r.failed = u.failed
  BY <1>1 DEF Carry
<1>3. r \in Undoings
  <2>1. s.text \in Texts /\ s.zv \in Nat /\ s.list \in Lists /\ s.here \in BOOLEAN
        /\ s.modified \in BOOLEAN /\ s.clean \in BOOLEAN
    BY DEF Shots, Undoings
  <2>2. u.left \in Nat /\ u.failed \in BOOLEAN
    BY DEF Steady, Undoings
  <2> QED BY <1>1, <2>1, <2>2 DEF Carry, Undoings
<1> HIDE DEF r
<1>4. View(r) /\ Placed(r)
  BY <1>2 DEF View, Placed
<1>5. Keeps(u, r, T)
  BY <1>2 DEF Keeps, Traced, Noted, Sound
<1> QED BY <1>2, <1>3, <1>4, <1>5 DEF Steady, r, q

LEMMA FailedView ==
  ASSUME NEW u \in Steady, NEW T
  PROVE  LET r == Failed(u)
         IN r \in Steady /\ r.left = u.left /\ r.failed /\ Keeps(u, r, T)
<1> DEFINE r == Failed(u)
<1>1. /\ r.text = u.text /\ r.pt = u.pt /\ r.zv = u.zv /\ r.list = u.list
      /\ r.here = u.here /\ r.modified = u.modified /\ r.clean = u.clean
      /\ r.left = u.left /\ r.failed = TRUE /\ r \in Undoings
  BY DEF Failed, Steady, Undoings
<1> HIDE DEF r
<1>2. View(r) /\ Placed(r)
  BY <1>1 DEF Steady, View, Placed
<1>3. Keeps(u, r, T)
  BY <1>1 DEF Keeps, Traced, Noted, Sound
<1> QED BY <1>1, <1>2, <1>3 DEF Steady, r

LEMMA UndoInsertionStep ==
  ASSUME NEW u \in Steady, NEW elt \in Inserts, NEW T,
         modtime \in Nat, begv \in Nat \ {0}
  PROVE  LET r == UndoInsertion(u, elt)
         IN /\ r \in Steady /\ r.left = u.left /\ Keeps(u, r, T)
            /\ ~ r.failed =>
                 /\ r.text = TakenBack(u.text, elt)
                 /\ recording /\ elt.from < elt.to =>
                      Halfway(r, elt.from) /\ elt.from \in begv .. r.zv
<1>0. /\ elt.from \in Nat /\ elt.to \in Nat /\ elt.from <= elt.to
      /\ elt.kind = "insertion" /\ elt \in Elements
  BY DEF Inserts, Elements
<1>1. /\ u \in Undoings /\ View(u) /\ Placed(u)
      /\ u.zv \in Nat /\ u.text \in Texts
  BY DEF Steady, Undoings
<1>2. TakenBack(u.text, elt) = Cut(u.text, elt.from, elt.to)
  BY <1>0, TakenBackIs
<1>3. CASE ~ Visible(u, elt.from, elt.to)
  BY <1>3, FailedView DEF UndoInsertion
<1>4. CASE Visible(u, elt.from, elt.to)
  <2> DEFINE s == IF elt.from = elt.to THEN u ELSE Deleted(u, elt.from, elt.to)
             p == Clip(begv, elt.from, s.zv)
  <2>1. elt.to \in begv .. u.zv /\ elt.from \in begv .. elt.to
    BY <1>0, <1>1, <1>4 DEF Visible
  <2>2. /\ s \in Shots \/ s \in Undoings
        /\ View(s) /\ Placed(s) /\ Keeps(u, s, T)
        /\ s.text = Cut(u.text, elt.from, elt.to) /\ elt.from <= s.zv /\ s.zv \in Nat
        /\ recording /\ elt.from < elt.to => Halfway(s, elt.from)
    <3>1. CASE elt.from = elt.to
      <4>1. elt.from \in 1 .. Len(u.text) + 1 /\ elt.from <= u.zv
        BY <1>0, <1>1, <2>1, <3>1 DEF Placed, Texts
      <4>2. Cut(u.text, elt.from, elt.from) = u.text
        BY <1>1, <4>1, CutNothing
      <4> QED BY <1>0, <1>1, <3>1, <4>1, <4>2 DEF Keeps
    <3>2. CASE elt.from # elt.to
      <4> DEFINE d == Deleted(u, elt.from, elt.to)
      <4>1. /\ d \in Shots /\ View(d) /\ Placed(d)
            /\ d.text = Cut(u.text, elt.from, elt.to)
            /\ d.modified /\ elt.from <= d.zv
            /\ Traced(u) => Traced(d)
            /\ Noted(u) => Noted(d)
            /\ Sound(u, T) => Sound(d, T)
            /\ recording /\ elt.from < elt.to => Halfway(d, elt.from)
        BY <1>1, <2>1, DeletedView
      <4>2. s = d
        BY <3>2
      <4> HIDE DEF d, s
      <4>3. d.zv \in Nat
        BY <4>1 DEF Shots
      <4> QED BY <4>1, <4>2, <4>3 DEF Keeps
    <3> QED BY <3>1, <3>2
  <2>3. UndoInsertion(u, elt) = Carry(u, [s EXCEPT !.pt = p])
    BY <1>4 DEF UndoInsertion
  <2> HIDE DEF s
  <2>4. p = elt.from /\ p \in Nat /\ p \in begv .. s.zv
    BY <1>0, <2>1, <2>2 DEF Clip
  <2> HIDE DEF p
  <2>5. LET r == Carry(u, [s EXCEPT !.pt = p])
        IN /\ r \in Steady /\ r.left = u.left /\ r.failed = u.failed
           /\ r.text = s.text /\ r.zv = s.zv /\ r.list = s.list /\ r.here = s.here
           /\ r.modified = s.modified
           /\ Keeps(u, r, T)
    BY <2>2, <2>4, CarryView
  <2> DEFINE r == UndoInsertion(u, elt)
  <2>6. /\ r \in Steady /\ r.left = u.left
        /\ r.text = s.text /\ r.zv = s.zv /\ r.list = s.list /\ r.here = s.here
        /\ Keeps(u, r, T)
    BY <2>3, <2>5
  <2> HIDE DEF r
  <2>7. Halfway(s, elt.from) => Halfway(r, elt.from)
    BY <2>6 DEF Halfway
  <2> QED BY <1>2, <2>2, <2>4, <2>6, <2>7 DEF r
<1> QED BY <1>3, <1>4

LEMMA TooLong ==
  ASSUME NEW x \in Nat, NEW y \in Nat, NEW m \in Nat
  PROVE  x + y > m <=> ~ (x + y <= m)
OBVIOUS

LEMMA UndoDeletionStep ==
  ASSUME NEW u \in Steady, NEW elt \in Deletes, NEW T,
         modtime \in Nat, begv \in Nat \ {0}
  PROVE  LET r == UndoDeletion(u, elt)
         IN /\ r \in Steady /\ r.left = u.left /\ Keeps(u, r, T)
            /\ ~ r.failed => r.text = TakenBack(u.text, elt)
            /\ recording /\ ~ u.modified /\ Halfway(u, elt.at) /\ Saved(u.list, T)
                 /\ elt.string # << >> /\ elt.at \in begv .. u.zv
                 /\ Len(u.text) + Len(elt.string) <= MaxSize
                 => Sound(r, T)
<1>0. /\ elt.at \in Nat /\ elt.string \in Texts
      /\ elt.kind = "deletion" /\ elt \in Elements
  BY DEF Deletes, Elements
<1>1. /\ u \in Undoings /\ View(u) /\ Placed(u)
      /\ u.zv \in Nat /\ u.text \in Texts
  BY DEF Steady, Undoings
<1>2. TakenBack(u.text, elt) = Spliced(u.text, elt.at, elt.string)
  BY <1>0, TakenBackIs
<1> DEFINE fails == ~ Visible(u, elt.at, elt.at)
                      \/ Len(u.text) + Len(elt.string) > MaxSize
<1>3. CASE fails
  <2>1. UndoDeletion(u, elt) = Failed(u)
    BY <1>3 DEF UndoDeletion
  <2>2. ~ (elt.at \in begv .. u.zv /\ Len(u.text) + Len(elt.string) <= MaxSize)
    <3>1. fails <=> ~ (begv <= elt.at /\ elt.at <= u.zv)
                      \/ Len(u.text) + Len(elt.string) > MaxSize
      BY DEF Visible
    <3>2. Len(u.text) \in Nat /\ Len(elt.string) \in Nat /\ MaxSize \in Nat
      BY <1>0, <1>1, BufferTextAssumption DEF Texts
    <3>3. Len(u.text) + Len(elt.string) > MaxSize
            <=> ~ (Len(u.text) + Len(elt.string) <= MaxSize)
      BY <3>2, TooLong, Zenon
    <3>4. begv <= elt.at /\ elt.at <= u.zv <=> elt.at \in begv .. u.zv
      BY <1>0, <1>1
    <3> HIDE DEF fails
    <3> QED BY <1>3, <3>1, <3>3, <3>4
  <2> QED BY <2>1, <2>2, FailedView
<1>4. CASE ~ fails
  <2> DEFINE there == [u EXCEPT !.pt = elt.at]
             s == IF elt.string = << >> THEN there ELSE Inserted(there, elt.string)
             p == IF elt.after THEN s.pt ELSE elt.at
  <2>1. elt.at \in begv .. u.zv /\ Len(u.text) + Len(elt.string) <= MaxSize
    <3>1. fails <=> ~ (begv <= elt.at /\ elt.at <= u.zv)
                      \/ Len(u.text) + Len(elt.string) > MaxSize
      BY DEF Visible
    <3>2. Len(u.text) \in Nat /\ Len(elt.string) \in Nat /\ MaxSize \in Nat
      BY <1>0, <1>1, BufferTextAssumption DEF Texts
    <3>3. Len(u.text) + Len(elt.string) > MaxSize
            <=> ~ (Len(u.text) + Len(elt.string) <= MaxSize)
      BY <3>2, TooLong, Zenon
    <3>4. begv <= elt.at /\ elt.at <= u.zv <=> elt.at \in begv .. u.zv
      BY <1>0, <1>1
    <3> HIDE DEF fails
    <3> QED BY <1>4, <3>1, <3>3, <3>4
  <2>2. /\ there.text = u.text /\ there.pt = elt.at /\ there.zv = u.zv
        /\ there.list = u.list /\ there.here = u.here /\ there.modified = u.modified
        /\ there.clean = u.clean /\ there \in Undoings
    BY <1>0, <1>1 DEF Undoings
  <2>3. UndoDeletion(u, elt) = Carry(u, IF elt.after THEN s ELSE [s EXCEPT !.pt = elt.at])
    BY <1>4 DEF UndoDeletion
  <2> HIDE DEF there
  <2>4. View(there) /\ Placed(there)
    BY <1>1, <2>1, <2>2 DEF View, Placed
  <2>5. Keeps(u, there, T)
    BY <2>2 DEF Keeps, Traced, Noted, Sound
  <2>6. Halfway(u, elt.at) => Halfway(there, there.pt)
    BY <2>2 DEF Halfway
  <2>7. /\ s \in Shots \/ s \in Undoings
        /\ View(s) /\ Placed(s) /\ Keeps(u, s, T)
        /\ s.text = Spliced(u.text, elt.at, elt.string)
        /\ elt.at <= s.pt /\ s.pt \in Nat
        /\ recording /\ ~ u.modified /\ Halfway(u, elt.at) /\ Saved(u.list, T)
             /\ elt.string # << >> => Sound(s, T)
    <3>1. CASE elt.string = << >>
      <4>1. elt.at \in 1 .. Len(u.text) + 1 /\ elt.at <= elt.at
        BY <1>0, <1>1, <2>1 DEF Placed, Texts
      <4>2. Spliced(u.text, elt.at, << >>) = u.text
        BY <1>1, <4>1, SplicedNothing
      <4> QED BY <1>0, <2>2, <2>4, <2>5, <3>1, <4>1, <4>2
    <3>2. CASE elt.string # << >>
      <4> DEFINE d == Inserted(there, elt.string)
      <4>1. /\ d \in Shots /\ View(d) /\ Placed(d)
            /\ d.text = Spliced(there.text, there.pt, elt.string)
            /\ there.pt <= d.pt
            /\ Traced(there) => Traced(d)
            /\ Noted(there) => Noted(d)
            /\ Sound(there, T) => Sound(d, T)
            /\ recording /\ ~ there.modified /\ Halfway(there, there.pt)
                 /\ Saved(there.list, T) /\ elt.string # << >> => Sound(d, T)
        <5>1. Len(there.text) + Len(elt.string) <= MaxSize
          BY <2>1, <2>2
        <5> QED BY <1>0, <2>4, <5>1, InsertedView
      <4>2. s = d
        BY <3>2
      <4> HIDE DEF d, s
      <4>3. d.pt \in Nat
        BY <4>1 DEF Shots
      <4> QED BY <2>2, <2>5, <2>6, <4>1, <4>2, <4>3 DEF Keeps
    <3> QED BY <3>1, <3>2
  <2> HIDE DEF s
  <2>8. UndoDeletion(u, elt) = Carry(u, [s EXCEPT !.pt = p])
    <3>1. [s EXCEPT !.pt = s.pt] = s
      BY <2>7 DEF Shots, Undoings
    <3> QED BY <2>3, <3>1
  <2>9. p \in Nat /\ p \in begv .. s.zv
    BY <1>0, <2>1, <2>7 DEF Placed
  <2> HIDE DEF p
  <2>10. LET r == Carry(u, [s EXCEPT !.pt = p])
         IN /\ r \in Steady /\ r.left = u.left /\ r.failed = u.failed
            /\ r.text = s.text /\ r.zv = s.zv /\ r.list = s.list /\ r.here = s.here
            /\ r.modified = s.modified
            /\ Keeps(u, r, T)
    BY <2>7, <2>9, CarryView
  <2> DEFINE r == UndoDeletion(u, elt)
  <2>11. /\ r \in Steady /\ r.left = u.left
         /\ r.text = s.text /\ r.list = s.list /\ r.modified = s.modified
         /\ Keeps(u, r, T)
    BY <2>8, <2>10
  <2> HIDE DEF r
  <2>12. Sound(s, T) => Sound(r, T)
    BY <2>11 DEF Sound
  <2> QED BY <1>2, <2>7, <2>11, <2>12 DEF r
<1> HIDE DEF fails
<1> QED BY <1>3, <1>4

LEMMA UndoElementStep ==
  ASSUME NEW u \in Steady, NEW elt \in Elements, NEW T,
         modtime \in Nat, begv \in Nat \ {0}
  PROVE  LET r == UndoElement(u, elt)
         IN /\ r \in Steady
            /\ ~ Running(u) => r = u
            /\ Running(u) /\ elt.kind = "insertion" => r = UndoInsertion(u, elt)
            /\ Running(u) /\ elt.kind = "deletion" => r = UndoDeletion(u, elt)
            /\ Running(u) /\ (\/ elt.kind = "boundary"
                              \/ elt.kind = "first" /\ elt.time # modtime) =>
                 /\ r.left = u.left - 1 /\ r.text = u.text /\ ~ r.failed
                 /\ Keeps(u, r, T)
            /\ Running(u) /\ elt.kind = "first" /\ elt.time = modtime =>
                 /\ r.left = u.left /\ r.text = u.text /\ ~ r.failed
                 /\ r.list = u.list /\ r.here = u.here /\ r.zv = u.zv
                 /\ ~ r.modified
                 /\ Traced(u) => Traced(r)
                 /\ Noted(u) => Noted(r)
<1> DEFINE r == UndoElement(u, elt)
<1>0. u \in Undoings /\ View(u) /\ Placed(u) /\ u.left \in Nat /\ u.failed \in BOOLEAN
  BY DEF Steady, Undoings
<1>1. CASE ~ Running(u)
  <2>1. r = u
    BY <1>1 DEF Running, UndoElement
  <2> QED BY <1>1, <2>1
<1>2. CASE Running(u) /\ (\/ elt.kind = "boundary"
                          \/ elt.kind = "first" /\ elt.time # modtime)
  <2>1. r = [u EXCEPT !.left = @ - 1]
    BY <1>2 DEF Running, UndoElement
  <2>2. u.left - 1 \in Nat
    BY <1>0, <1>2 DEF Running
  <2>3. r \in Undoings
    BY <1>0, <2>1, <2>2 DEF Undoings
  <2>4. /\ r.text = u.text /\ r.pt = u.pt /\ r.zv = u.zv /\ r.list = u.list
        /\ r.here = u.here /\ r.modified = u.modified /\ r.clean = u.clean
        /\ r.left = u.left - 1 /\ r.failed = u.failed
    BY <1>0, <2>1 DEF Undoings
  <2> HIDE DEF r
  <2>5. r \in Steady
    BY <1>0, <2>3, <2>4 DEF Steady, View, Placed
  <2>6. Keeps(u, r, T)
    BY <2>4 DEF Keeps, Traced, Noted, Sound
  <2>7. elt.kind \notin {"insertion", "deletion"}
    BY <1>2
  <2> QED BY <1>2, <2>4, <2>5, <2>6, <2>7 DEF r, Running
<1>3. CASE Running(u) /\ elt.kind = "first" /\ elt.time = modtime
  <2>1. r = [u EXCEPT !.modified = FALSE, !.clean = TRUE]
    BY <1>3 DEF Running, UndoElement
  <2>3. r \in Undoings
    BY <1>0, <2>1 DEF Undoings
  <2>4. /\ r.text = u.text /\ r.pt = u.pt /\ r.zv = u.zv /\ r.list = u.list
        /\ r.here = u.here /\ r.modified = FALSE /\ r.clean = TRUE
        /\ r.left = u.left /\ r.failed = u.failed
    BY <1>0, <2>1 DEF Undoings
  <2> HIDE DEF r
  <2>5. r \in Steady
    BY <1>0, <2>3, <2>4 DEF Steady, View, Placed
  <2>6. (Traced(u) => Traced(r)) /\ (Noted(u) => Noted(r))
    BY <2>4 DEF Traced, Noted
  <2>7. elt.kind \notin {"insertion", "deletion", "boundary"}
    BY <1>3
  <2> QED BY <1>3, <2>4, <2>5, <2>6, <2>7 DEF r, Running
<1>4. CASE Running(u) /\ elt.kind = "insertion"
  <2>1. r = UndoInsertion(u, elt)
    BY <1>4 DEF Running, UndoElement, UndoChange
  <2>2. r \in Steady
    BY <1>4, <2>1, ElementParts, UndoInsertionStep
  <2>3. elt.kind \notin {"first", "deletion", "boundary"}
    BY <1>4
  <2> QED BY <1>4, <2>1, <2>2, <2>3
<1>5. CASE Running(u) /\ elt.kind = "deletion"
  <2>1. r = UndoDeletion(u, elt)
    BY <1>5 DEF Running, UndoElement, UndoChange
  <2>2. r \in Steady
    BY <1>5, <2>1, ElementParts, UndoDeletionStep
  <2>3. elt.kind \notin {"first", "insertion", "boundary"}
    BY <1>5
  <2> QED BY <1>5, <2>1, <2>2, <2>3
<1>6. elt.kind \in {"boundary", "first", "insertion", "deletion"}
  BY ElementParts
<1> QED BY <1>1, <1>2, <1>3, <1>4, <1>5, <1>6

\* What there is to begin with.
Places ==
  /\ text \in Texts /\ Len(text) <= MaxSize
  /\ begv \in Nat \ {0} /\ zv \in begv .. Len(text) + 1 /\ pt \in begv .. zv
  /\ undoList \in Lists /\ here \in BOOLEAN /\ modified \in BOOLEAN
  /\ modtime \in Nat
Start(n) ==
  [text |-> text, pt |-> pt, zv |-> zv, list |-> undoList,
   here |-> here, modified |-> modified, clean |-> ~ modified,
   left |-> n, failed |-> FALSE]

LEMMA StartSteady ==
  ASSUME Places, NEW n \in Nat
  PROVE  Start(n) \in Steady
<1>1. pt \in Nat /\ zv \in Nat /\ Len(text) \in Nat
  BY DEF Places, Texts
<1>2. Start(n) \in Undoings
  BY <1>1 DEF Places, Start, Undoings
<1>3. View(Start(n)) /\ Placed(Start(n))
  BY DEF Places, Start, View, Placed
<1> QED BY <1>2, <1>3 DEF Steady

\* The undoing, one element after the other.
LEMMA UndoneBySteps ==
  ASSUME Places, NEW n \in Nat
  PROVE  \E h \in [0 .. Len(undoList) -> Steady] :
           /\ h[0] = Start(n)
           /\ \A i \in 0 .. Len(undoList) - 1 :
                h[i + 1] = UndoElement(h[i], undoList[i + 1])
           /\ Undone(n) = h[Len(undoList)]
<1> DEFINE l == Len(undoList)
           D == SUBSET (1 .. l)
           base == Start(n)
           Step == [i \in 1 .. l |-> [u \in Steady |-> UndoElement(u, undoList[i])]]
           Fold(g) == [s \in D |->
                         IF s = {} THEN base
                         ELSE UndoElement(g[s \ {Max(s)}], undoList[Max(s)])]
           iter == CHOOSE g : g = Fold(g)
<1>1. l \in Nat /\ DOMAIN undoList = 1 .. l /\ \A i \in 1 .. l : undoList[i] \in Elements
  BY DEF Places, Lists
<1>2. Undone(n) = iter[1 .. l]
  BY <1>1 DEF Undone, FoldLeft, MapThenFoldSet, Start
<1>2a. base \in Steady
  BY StartSteady
<1> HIDE DEF l, base
<1>3. Step \in [1 .. l -> [Steady -> Steady]]
  <2>1. \A i \in 1 .. l : \A u \in Steady : UndoElement(u, undoList[i]) \in Steady
    BY <1>1, UndoElementStep DEF Places
  <2> QED BY <2>1
<1>4. PICK g \in [D -> Steady] : IsFold(l, base, Step, g)
  <2> HIDE DEF Step
  <2> QED BY <1>1, <1>2a, <1>3, FoldExists
<1>5. g = Fold(g)
  <2>1. ASSUME NEW s \in D, s # {}
        PROVE  g[s] = UndoElement(g[s \ {Max(s)}], undoList[Max(s)])
    <3>1. Max(s) \in 1 .. l
      BY <1>1, <2>1, MaxOfInterval
    <3>2. s \ {Max(s)} \in D
      OBVIOUS
    <3> QED BY <1>4, <2>1, <3>1, <3>2 DEF IsFold
  <2> QED BY <1>4, <2>1 DEF IsFold
<1>6. iter = Fold(iter)
  <2> HIDE DEF Fold
  <2> QED BY <1>5
<1> HIDE DEF iter
<1> DEFINE P(i) == i <= l => iter[1 .. i] \in Steady
           S == {i \in Nat : P(i)}
<1>7. iter[1 .. 0] = base
  <2>1. 1 .. 0 = {} /\ {} \in D
    OBVIOUS
  <2> QED BY <1>6, <2>1
<1>8. ASSUME NEW i \in 0 .. l - 1
      PROVE  iter[1 .. i + 1] = UndoElement(iter[1 .. i], undoList[i + 1])
  <2>1. /\ 1 .. i + 1 \in D /\ 1 .. i + 1 # {} /\ Max(1 .. i + 1) = i + 1
        /\ (1 .. i + 1) \ {i + 1} = 1 .. i
    BY <1>1, MaxOfPrefix
  <2> QED BY <1>6, <2>1
<1>9. S = Nat
  <2>1. S \in SUBSET Nat
    OBVIOUS
  <2>2. P(0)
    BY <1>2a, <1>7
  <2>3. ASSUME NEW i \in Nat, P(i) PROVE P(i + 1)
    <3> SUFFICES ASSUME i + 1 <= l PROVE iter[1 .. i + 1] \in Steady
      OBVIOUS
    <3>1. i \in 0 .. l - 1 /\ i <= l /\ i + 1 \in 1 .. l
      BY <1>1
    <3>2. iter[1 .. i] \in Steady
      BY <2>3, <3>1
    <3>3. UndoElement(iter[1 .. i], undoList[i + 1]) \in Steady
      BY <1>1, <3>1, <3>2, UndoElementStep DEF Places
    <3> QED BY <1>8, <3>1, <3>3
  <2> HIDE DEF P
  <2>4. 0 \in S /\ \A i \in S : i + 1 \in S
    BY <2>2, <2>3
  <2> HIDE DEF S
  <2> QED BY <2>1, <2>4, NatSetInduction
<1> DEFINE h == [i \in 0 .. l |-> iter[1 .. i]]
<1>10. h \in [0 .. l -> Steady]
  <2>1. \A i \in 0 .. l : i \in Nat /\ P(i)
    <3> HIDE DEF P
    <3> QED BY <1>1, <1>9
  <2> QED BY <1>1, <2>1
<1>11. h[0] = base /\ h[l] = iter[1 .. l]
  BY <1>1, <1>7
<1>12. \A i \in 0 .. l - 1 : h[i + 1] = UndoElement(h[i], undoList[i + 1])
  <2>1. ASSUME NEW i \in 0 .. l - 1 PROVE h[i + 1] = UndoElement(h[i], undoList[i + 1])
    <3>1. i \in 0 .. l /\ i + 1 \in 0 .. l
      BY <1>1
    <3> QED BY <1>8, <3>1
  <2> QED BY <2>1
<1> HIDE DEF h
<1> QED BY <1>2, <1>10, <1>11, <1>12 DEF l, base


\* As far as i elements have been undone, the text is what it was before them.
OnTheWay(i, u) ==
  /\ Traced(u)
  /\ Running(u) => u.text = Before(undoList, text, i + 1)
  /\ Running(u) /\ i # 0 /\ undoList[i].kind = "insertion"
       /\ undoList[i].from < undoList[i].to =>
         Halfway(u, undoList[i].from) /\ undoList[i].from \in begv .. u.zv

\* Only between the halves of a change that is undone can the buffer be marked
\* unmodified with a text that is not the one saved; it cannot be left so.
BetweenHalves(i, u, T) ==
  /\ Running(u) /\ ~ u.modified /\ Saved(u.list, T)
  /\ InMiddle(undoList, i) /\ Halfway(u, undoList[i + 1].at)
  /\ undoList[i + 1].at \in begv .. u.zv

\* What has been undone is whole units, and a part of one while it goes on.
InUnits(n, i, u) ==
  \/ u.failed
  \/ Running(u) /\ u.left + Cardinality(Boundaries(i)) = n
  \/ u.left = 0 /\ \E j \in 1 .. i :
       /\ undoList[j].kind = "boundary" /\ Cardinality(Boundaries(j)) = n
       /\ u.text = undoList[j].was

UndoOK ==
  /\ Places
  /\ AllLead(undoList, text)
  /\ ~ recording => undoList = << >>

LEMMA OnTheWayStep ==
  ASSUME UndoOK, NEW i \in 0 .. Len(undoList) - 1, NEW u \in Steady, OnTheWay(i, u)
  PROVE  OnTheWay(i + 1, UndoElement(u, undoList[i + 1]))
<1> DEFINE elt == undoList[i + 1]
           r == UndoElement(u, elt)
<1>0. /\ Len(undoList) \in Nat /\ i + 1 \in 1 .. Len(undoList) /\ i + 1 # 0
      /\ i + 1 + 1 - 1 = i + 1 /\ i + 1 + 1 # 1
      /\ undoList # << >>
  BY DEF UndoOK, Places, Lists
<1>1. elt \in Elements /\ recording
  BY <1>0 DEF UndoOK, Places, Lists
<1>2. Before(undoList, text, i + 1 + 1) = elt.was
  BY <1>0 DEF Before
<1>3. TakenBack(Before(undoList, text, i + 1), elt) = elt.was
  BY <1>0 DEF UndoOK, AllLead, Leads
<1>4. modtime \in Nat /\ begv \in Nat \ {0}
  BY DEF UndoOK, Places
<1> HIDE DEF elt
<1>5. r \in Steady /\ (~ Running(u) => r = u)
  BY <1>1, <1>4, UndoElementStep
<1> SUFFICES /\ Traced(r)
             /\ Running(r) => r.text = elt.was
             /\ Running(r) /\ elt.kind = "insertion" /\ elt.from < elt.to =>
                  Halfway(r, elt.from) /\ elt.from \in begv .. r.zv
  BY <1>0, <1>2 DEF OnTheWay, elt
<1>6. CASE ~ Running(u)
  BY <1>5, <1>6 DEF OnTheWay
<1>7. CASE Running(u) /\ elt.kind \in {"boundary", "first"}
  <2>1. Traced(r) /\ r.text = u.text
    BY <1>1, <1>4, <1>7, UndoElementStep DEF OnTheWay, Keeps
  <2>2. TakenBack(u.text, elt) = u.text
    BY <1>1, <1>7, TakenBackIs
  <2>3. elt.kind # "insertion"
    BY <1>7
  <2> QED BY <1>3, <1>7, <2>1, <2>2, <2>3 DEF OnTheWay
<1>8. CASE Running(u) /\ elt.kind = "insertion"
  <2>1. r = UndoInsertion(u, elt) /\ elt \in Inserts
    BY <1>1, <1>4, <1>8, UndoElementStep, ElementParts
  <2>2. /\ Traced(u) => Traced(r)
        /\ ~ r.failed =>
             /\ r.text = TakenBack(u.text, elt)
             /\ recording /\ elt.from < elt.to =>
                  Halfway(r, elt.from) /\ elt.from \in begv .. r.zv
    BY <1>4, <2>1, UndoInsertionStep DEF Keeps
  <2> QED BY <1>1, <1>3, <1>8, <2>2 DEF OnTheWay, Running
<1>9. CASE Running(u) /\ elt.kind = "deletion"
  <2>1. r = UndoDeletion(u, elt) /\ elt \in Deletes
    BY <1>1, <1>4, <1>9, UndoElementStep, ElementParts
  <2>2. /\ Traced(u) => Traced(r)
        /\ ~ r.failed => r.text = TakenBack(u.text, elt)
    BY <1>4, <2>1, UndoDeletionStep DEF Keeps
  <2>3. elt.kind # "insertion"
    BY <1>9
  <2> QED BY <1>3, <1>9, <2>2, <2>3 DEF OnTheWay, Running
<1> QED BY <1>1, <1>6, <1>7, <1>8, <1>9, ElementParts

LEMMA NotedStep ==
  ASSUME UndoOK, NEW i \in 0 .. Len(undoList) - 1, NEW u \in Steady, Noted(u)
  PROVE  Noted(UndoElement(u, undoList[i + 1]))
<1> DEFINE elt == undoList[i + 1]
           r == UndoElement(u, elt)
<1>1. elt \in Elements
  <2>1. i + 1 \in 1 .. Len(undoList)
    BY DEF UndoOK, Places, Lists
  <2> QED BY <2>1 DEF UndoOK, Places, Lists
<1>4. modtime \in Nat /\ begv \in Nat \ {0}
  BY DEF UndoOK, Places
<1> SUFFICES Noted(r)
  OBVIOUS
<1> HIDE DEF elt
<1>6. CASE ~ Running(u)
  BY <1>1, <1>4, <1>6, UndoElementStep
<1>7. CASE Running(u) /\ elt.kind \in {"boundary", "first"}
  BY <1>1, <1>4, <1>7, UndoElementStep DEF Keeps
<1>8. CASE Running(u) /\ elt.kind = "insertion"
  <2>1. r = UndoInsertion(u, elt) /\ elt \in Inserts
    BY <1>1, <1>4, <1>8, UndoElementStep, ElementParts
  <2>2. Noted(UndoInsertion(u, elt))
    BY <1>4, <2>1, UndoInsertionStep DEF Keeps
  <2> QED BY <2>1, <2>2
<1>9. CASE Running(u) /\ elt.kind = "deletion"
  <2>1. r = UndoDeletion(u, elt) /\ elt \in Deletes
    BY <1>1, <1>4, <1>9, UndoElementStep, ElementParts
  <2>2. Noted(UndoDeletion(u, elt))
    BY <1>4, <2>1, UndoDeletionStep DEF Keeps
  <2> QED BY <2>1, <2>2
<1> QED BY <1>1, <1>6, <1>7, <1>8, <1>9, ElementParts

LEMMA SoundStep ==
  ASSUME UndoOK, NEW i \in 0 .. Len(undoList) - 1, NEW u \in Steady, OnTheWay(i, u),
         NEW T, Saved(undoList, T), Sound(u, T) \/ BetweenHalves(i, u, T)
  PROVE  LET r == UndoElement(u, undoList[i + 1])
         IN Sound(r, T) \/ BetweenHalves(i + 1, r, T)
<1> DEFINE elt == undoList[i + 1]
           r == UndoElement(u, elt)
<1>0. /\ Len(undoList) \in Nat /\ i + 1 \in 1 .. Len(undoList) /\ i \in Nat
      /\ undoList # << >>
  BY DEF UndoOK, Places, Lists
<1>1. elt \in Elements /\ recording
  BY <1>0 DEF UndoOK, Places, Lists
<1>3. Leads(Before(undoList, text, i + 1), elt)
  BY <1>0 DEF UndoOK, AllLead
<1>4. modtime \in Nat /\ begv \in Nat \ {0} /\ MaxSize \in Nat
  BY BufferTextAssumption DEF UndoOK, Places
<1>5. u.text \in Texts
  BY DEF Steady, Undoings
<1> SUFFICES Sound(r, T) \/ BetweenHalves(i + 1, r, T)
  OBVIOUS
<1>6. CASE ~ Running(u)
  <2>1. Sound(u, T)
    BY <1>6 DEF BetweenHalves
  <2> HIDE DEF elt
  <2>2. r = u
    BY <1>1, <1>4, <1>6, UndoElementStep
  <2> QED BY <2>1, <2>2 DEF elt
<1>7. CASE Running(u) /\ BetweenHalves(i, u, T)
  <2>1. /\ elt.kind = "deletion" /\ elt.string # << >> /\ Len(elt.was) <= MaxSize
        /\ ~ u.modified /\ Saved(u.list, T) /\ Halfway(u, elt.at)
        /\ elt.at \in begv .. u.zv
    BY <1>7 DEF BetweenHalves, InMiddle
  <2>2. elt \in Deletes
    BY <1>1, <2>1, ElementParts
  <2>3. u.text = Before(undoList, text, i + 1)
    BY <1>7 DEF OnTheWay
  <2> HIDE DEF elt
  <2>4. r = UndoDeletion(u, elt)
    BY <1>1, <1>4, <1>7, <2>1, UndoElementStep
  <2>5. Len(u.text) + Len(elt.string) <= MaxSize
    <3>1. /\ Spliced(u.text, elt.at, elt.string) = elt.was
          /\ elt.at \in 1 .. Len(u.text) + 1
      BY <1>1, <1>3, <2>1, <2>3, TakenBackIs DEF Leads
    <3>2. elt.string \in Texts
      BY <2>2 DEF Deletes
    <3>3. Len(Spliced(u.text, elt.at, elt.string)) = Len(u.text) + Len(elt.string)
      BY <1>5, <3>1, <3>2, SplicedText
    <3> QED BY <2>1, <3>1, <3>3
  <2>6. Sound(r, T)
    <3>1. Sound(UndoDeletion(u, elt), T)
      BY <1>1, <1>4, <2>1, <2>2, <2>5, UndoDeletionStep
    <3> QED BY <2>4, <3>1
  <2> QED BY <2>6 DEF elt
<1>8. CASE Running(u) /\ Sound(u, T)
  <2>1. CASE elt.kind = "insertion"
    <3> HIDE DEF elt
    <3>1. Sound(r, T)
      <4>1. r = UndoInsertion(u, elt) /\ elt \in Inserts
        BY <1>1, <1>4, <1>8, <2>1, UndoElementStep, ElementParts
      <4>2. Keeps(u, UndoInsertion(u, elt), T)
        BY <1>4, <4>1, UndoInsertionStep
      <4> QED BY <1>8, <4>1, <4>2 DEF Keeps
    <3> QED BY <3>1 DEF elt
  <2>2. CASE elt.kind = "deletion"
    <3> HIDE DEF elt
    <3>1. Sound(r, T)
      <4>1. r = UndoDeletion(u, elt) /\ elt \in Deletes
        BY <1>1, <1>4, <1>8, <2>2, UndoElementStep, ElementParts
      <4>2. Keeps(u, UndoDeletion(u, elt), T)
        BY <1>4, <4>1, UndoDeletionStep
      <4> QED BY <1>8, <4>1, <4>2 DEF Keeps
    <3> QED BY <3>1 DEF elt
  <2>3. CASE elt.kind = "boundary" \/ (elt.kind = "first" /\ elt.time # modtime)
    <3> HIDE DEF elt
    <3>1. Sound(r, T)
      BY <1>1, <1>4, <1>8, <2>3, UndoElementStep DEF Keeps
    <3> QED BY <3>1 DEF elt
  <2>4. CASE elt.kind = "first" /\ elt.time = modtime
    <3>1. elt.was = T \/ InMiddle(undoList, i + 1)
      BY <1>0, <2>4 DEF Saved
    <3>2. u.text = elt.was
      BY <1>1, <1>3, <1>8, <2>4, TakenBackIs DEF OnTheWay, Leads
    <3>3. /\ r.left = u.left /\ r.text = u.text /\ ~ r.failed
          /\ r.list = u.list /\ r.here = u.here /\ r.zv = u.zv /\ ~ r.modified
      <4> HIDE DEF elt
      <4> QED BY <1>1, <1>4, <1>8, <2>4, UndoElementStep
    <3> HIDE DEF elt, r
    <3>4. CASE elt.was = T
      <4>1. Sound(r, T)
        BY <1>8, <3>2, <3>3, <3>4 DEF Sound
      <4> QED BY <4>1 DEF r, elt
    <3>5. CASE InMiddle(undoList, i + 1)
      <4>1. /\ i \in 1 .. Len(undoList) /\ undoList[i].kind = "insertion"
            /\ undoList[i].from < undoList[i].to
            /\ undoList[i].from = undoList[i + 1 + 1].at
        <5>1. i + 1 - 1 = i
          BY <1>0
        <5> QED BY <3>5, <5>1 DEF InMiddle
      <4>2. i # 0
        BY <4>1
      <4>3. Halfway(u, undoList[i + 1 + 1].at) /\ undoList[i + 1 + 1].at \in begv .. u.zv
        BY <1>8, <4>1, <4>2 DEF OnTheWay
      <4>4. Halfway(r, undoList[i + 1 + 1].at) /\ undoList[i + 1 + 1].at \in begv .. r.zv
        BY <3>3, <4>3 DEF Halfway
      <4>5. BetweenHalves(i + 1, r, T)
        BY <1>8, <3>3, <3>5, <4>4 DEF BetweenHalves, Running, Sound
      <4> QED BY <4>5 DEF r, elt
    <3> QED BY <3>1, <3>4, <3>5
  <2>5. elt.kind \in {"boundary", "first", "insertion", "deletion"}
    <3> HIDE DEF elt
    <3> QED BY <1>1, ElementParts
  <2> QED BY <2>1, <2>2, <2>3, <2>4, <2>5
<1> QED BY <1>6, <1>7, <1>8


LEMMA BoundariesCount ==
  ASSUME UndoOK, NEW i \in 0 .. Len(undoList) - 1
  PROVE  /\ Cardinality(Boundaries(i)) \in Nat
         /\ Cardinality(Boundaries(i + 1)) =
              IF undoList[i + 1].kind = "boundary" THEN Cardinality(Boundaries(i)) + 1
              ELSE Cardinality(Boundaries(i))
<1>0. Len(undoList) \in Nat /\ i \in Nat /\ i + 1 \notin 1 .. i
  BY DEF UndoOK, Places, Lists
<1>1. IsFiniteSet(Boundaries(i))
  <2>1. IsFiniteSet(1 .. i)
    BY <1>0, FS_Interval
  <2> QED BY <2>1, FS_Subset DEF Boundaries
<1>2. 1 .. i + 1 = (1 .. i) \cup {i + 1}
  BY <1>0
<1>3. CASE undoList[i + 1].kind = "boundary"
  <2>1. Boundaries(i + 1) = Boundaries(i) \cup {i + 1}
    BY <1>2, <1>3 DEF Boundaries
  <2>2. i + 1 \notin Boundaries(i)
    BY <1>0 DEF Boundaries
  <2> QED BY <1>1, <1>3, <2>1, <2>2, FS_CardinalityType, FS_AddElement
<1>4. CASE undoList[i + 1].kind # "boundary"
  <2>1. Boundaries(i + 1) = Boundaries(i)
    BY <1>2, <1>4 DEF Boundaries
  <2> QED BY <1>1, <1>4, <2>1, FS_CardinalityType
<1> QED BY <1>3, <1>4

LEMMA InUnitsStep ==
  ASSUME UndoOK, ~ Obsolete, NEW n \in Nat, NEW i \in 0 .. Len(undoList) - 1,
         NEW u \in Steady, OnTheWay(i, u), InUnits(n, i, u)
  PROVE  InUnits(n, i + 1, UndoElement(u, undoList[i + 1]))
<1> DEFINE elt == undoList[i + 1]
           r == UndoElement(u, elt)
<1>0. /\ Len(undoList) \in Nat /\ i + 1 \in 1 .. Len(undoList) /\ i \in Nat
      /\ i + 1 \in 1 .. i + 1 /\ DOMAIN undoList = 1 .. Len(undoList)
      /\ \A j \in 1 .. i : j \in 1 .. i + 1
  BY DEF UndoOK, Places, Lists
<1>1. elt \in Elements
  BY <1>0 DEF UndoOK, Places, Lists
<1>2. elt.kind = "first" => elt.time = modtime
  BY <1>0 DEF Obsolete
<1>3. TakenBack(Before(undoList, text, i + 1), elt) = elt.was
  BY <1>0 DEF UndoOK, AllLead, Leads
<1>4. modtime \in Nat /\ begv \in Nat \ {0} /\ u.left \in Nat
  BY DEF UndoOK, Places, Steady, Undoings
<1>5. /\ Cardinality(Boundaries(i)) \in Nat
      /\ Cardinality(Boundaries(i + 1)) =
           IF elt.kind = "boundary" THEN Cardinality(Boundaries(i)) + 1
           ELSE Cardinality(Boundaries(i))
  BY BoundariesCount
<1>6. CASE ~ Running(u)
  <2>1. r = u
    <3> HIDE DEF elt
    <3> QED BY <1>1, <1>4, <1>6, UndoElementStep
  <2> QED BY <1>0, <1>6, <2>1 DEF InUnits
<1>7. CASE Running(u)
  <2>0. u.left + Cardinality(Boundaries(i)) = n
    BY <1>7 DEF InUnits, Running
  <2>1. CASE elt.kind = "boundary"
    <3>1. r.left = u.left - 1 /\ r.text = u.text /\ ~ r.failed
      <4> HIDE DEF elt
      <4> QED BY <1>1, <1>4, <1>7, <2>1, UndoElementStep
    <3>2. u.text = elt.was
      BY <1>1, <1>3, <1>7, <2>1, TakenBackIs DEF OnTheWay
    <3> HIDE DEF r
    <3>3. r.left + Cardinality(Boundaries(i + 1)) = n
      BY <1>4, <1>5, <2>0, <2>1, <3>1
    <3>4. CASE r.left = 0
      <4>1. Cardinality(Boundaries(i + 1)) = n
        BY <1>5, <2>1, <3>3, <3>4
      <4>2. InUnits(n, i + 1, r)
        BY <1>0, <2>1, <3>1, <3>2, <3>4, <4>1 DEF InUnits
      <4> QED BY <4>2 DEF r
    <3>5. CASE r.left # 0
      <4>1. InUnits(n, i + 1, r)
        BY <3>1, <3>3, <3>5 DEF InUnits, Running
      <4> QED BY <4>1 DEF r
    <3> QED BY <3>4, <3>5
  <2>2. CASE elt.kind # "boundary"
    <3>1. r.left = u.left
      <4> HIDE DEF elt
      <4>1. CASE elt.kind = "first"
        BY <1>1, <1>2, <1>4, <1>7, <4>1, UndoElementStep
      <4>2. CASE elt.kind = "insertion"
        <5>1. r = UndoInsertion(u, elt) /\ elt \in Inserts
          BY <1>1, <1>4, <1>7, <4>2, UndoElementStep, ElementParts
        <5>2. UndoInsertion(u, elt).left = u.left
          BY <1>4, <5>1, UndoInsertionStep
        <5> QED BY <5>1, <5>2
      <4>3. CASE elt.kind = "deletion"
        <5>1. r = UndoDeletion(u, elt) /\ elt \in Deletes
          BY <1>1, <1>4, <1>7, <4>3, UndoElementStep, ElementParts
        <5>2. UndoDeletion(u, elt).left = u.left
          BY <1>4, <5>1, UndoDeletionStep
        <5> QED BY <5>1, <5>2
      <4> QED BY <1>1, <2>2, <4>1, <4>2, <4>3, ElementParts
    <3>2. Cardinality(Boundaries(i + 1)) = Cardinality(Boundaries(i))
      BY <1>5, <2>2
    <3> HIDE DEF r
    <3>3. InUnits(n, i + 1, r)
      BY <1>7, <2>0, <3>1, <3>2 DEF InUnits, Running
    <3> QED BY <3>3 DEF r
  <2> QED BY <2>1, <2>2
<1> QED BY <1>6, <1>7

\* A property of the beginning that every element keeps is one of the end.
LEMMA UndoneKeeps ==
  ASSUME UndoOK, NEW n \in Nat, NEW T
  PROVE  LET u == Undone(n)
         IN /\ u \in Steady /\ Traced(u)
            /\ Recorded(undoList) => Noted(u)
            /\ Saved(undoList, T) /\ (~ modified => text = T) => Sound(u, T)
            /\ ~ Obsolete /\ n # 0 =>
                 \/ u.failed \/ undoList = << >>
                 \/ \E i \in DOMAIN undoList : UnitEnd(n, i) /\ u.text = undoList[i].was
<1> DEFINE l == Len(undoList)
           Soundly == Saved(undoList, T) /\ (~ modified => text = T)
           Good(i, u) == /\ OnTheWay(i, u)
                         /\ Recorded(undoList) => Noted(u)
                         /\ Soundly => Sound(u, T) \/ BetweenHalves(i, u, T)
                         /\ ~ Obsolete /\ n # 0 => InUnits(n, i, u)
<1>0. l \in Nat /\ DOMAIN undoList = 1 .. l
  BY DEF UndoOK, Places, Lists
<1>1. PICK h \in [0 .. l -> Steady] :
        /\ h[0] = Start(n)
        /\ \A i \in 0 .. l - 1 : h[i + 1] = UndoElement(h[i], undoList[i + 1])
        /\ Undone(n) = h[l]
  BY UndoneBySteps DEF UndoOK
<1>2. Good(0, h[0])
  <2>1. /\ Start(n).text = text /\ Start(n).list = undoList /\ Start(n).left = n
        /\ Start(n).modified = modified /\ Start(n).clean = ~ modified
        /\ ~ Start(n).failed
    BY DEF Start
  <2>2. OnTheWay(0, Start(n))
    BY <2>1 DEF OnTheWay, Traced, UndoOK, Before
  <2>3. Recorded(undoList) => Noted(Start(n))
    BY <2>1 DEF Noted
  <2>4. Soundly => Sound(Start(n), T)
    BY <2>1 DEF Sound
  <2>5. n # 0 => InUnits(n, 0, Start(n))
    <3>1. Boundaries(0) = {}
      BY DEF Boundaries
    <3>2. Cardinality(Boundaries(0)) = 0
      BY <3>1, FS_EmptySet
    <3> QED BY <2>1, <3>2 DEF InUnits, Running
  <2> QED BY <1>1, <2>2, <2>3, <2>4, <2>5
<1>3. ASSUME NEW i \in 0 .. l - 1, Good(i, h[i]) PROVE Good(i + 1, h[i + 1])
  <2>1. h[i] \in Steady
    BY <1>0, <1>1
  <2>2. h[i + 1] = UndoElement(h[i], undoList[i + 1])
    BY <1>1
  <2>3. OnTheWay(i + 1, UndoElement(h[i], undoList[i + 1]))
    BY <1>3, <2>1, OnTheWayStep
  <2>4. Recorded(undoList) => Noted(UndoElement(h[i], undoList[i + 1]))
    BY <1>3, <2>1, NotedStep
  <2>5. Soundly => \/ Sound(UndoElement(h[i], undoList[i + 1]), T)
                   \/ BetweenHalves(i + 1, UndoElement(h[i], undoList[i + 1]), T)
    BY <1>3, <2>1, SoundStep
  <2>6. ~ Obsolete /\ n # 0 => InUnits(n, i + 1, UndoElement(h[i], undoList[i + 1]))
    BY <1>3, <2>1, InUnitsStep
  <2> QED BY <2>2, <2>3, <2>4, <2>5, <2>6
<1> HIDE DEF Good
<1> DEFINE P(i) == i <= l => Good(i, h[i])
           S == {i \in Nat : P(i)}
<1>4. S = Nat
  <2>1. S \in SUBSET Nat
    OBVIOUS
  <2>2. P(0)
    BY <1>2
  <2>3. ASSUME NEW i \in Nat, P(i) PROVE P(i + 1)
    <3> SUFFICES ASSUME i + 1 <= l PROVE Good(i + 1, h[i + 1])
      OBVIOUS
    <3>1. i \in 0 .. l - 1 /\ i <= l
      BY <1>0
    <3> QED BY <1>3, <2>3, <3>1
  <2> HIDE DEF P
  <2>4. 0 \in S /\ \A i \in S : i + 1 \in S
    BY <2>2, <2>3
  <2> HIDE DEF S
  <2> QED BY <2>1, <2>4, NatSetInduction
<1>5. P(l)
  <2> HIDE DEF P
  <2> QED BY <1>0, <1>4
<1>6. Good(l, h[l])
  BY <1>0, <1>5
<1>7. h[l] \in Steady
  BY <1>0, <1>1
<1>8. Traced(h[l]) /\ (Recorded(undoList) => Noted(h[l]))
  BY <1>6 DEF Good, OnTheWay
<1>9. Soundly => Sound(h[l], T)
  <2>1. l + 1 \notin 1 .. l
    BY <1>0
  <2>2. ~ BetweenHalves(l, h[l], T)
    BY <2>1 DEF BetweenHalves, InMiddle
  <2> QED BY <1>6, <2>2 DEF Good
<1>10. ASSUME ~ Obsolete, n # 0, ~ h[l].failed, undoList # << >>
       PROVE  \E i \in DOMAIN undoList : UnitEnd(n, i) /\ h[l].text = undoList[i].was
  <2>1. InUnits(n, l, h[l])
    BY <1>6, <1>10 DEF Good
  <2>2. l \in 1 .. l
    BY <1>0, <1>10 DEF UndoOK, Places, Lists
  <2>3. CASE Running(h[l])
    <3>1. h[l].text = undoList[l].was
      BY <1>0, <1>6, <2>2, <2>3 DEF Good, OnTheWay, Before
    <3>2. h[l].left + Cardinality(Boundaries(l)) = n /\ h[l].left # 0
      BY <1>10, <2>1, <2>3 DEF InUnits, Running
    <3>3. h[l].left \in Nat
      BY <1>7 DEF Steady, Undoings
    <3>4. Cardinality(Boundaries(l)) \in Nat
      <4>1. IsFiniteSet(1 .. l)
        BY <1>0, FS_Interval
      <4>2. IsFiniteSet(Boundaries(l))
        BY <4>1, FS_Subset DEF Boundaries
      <4> QED BY <4>2, FS_CardinalityType
    <3>5. Cardinality(Boundaries(l)) < n
      BY <3>2, <3>3, <3>4
    <3> QED BY <1>0, <2>2, <3>1, <3>5 DEF UnitEnd
  <2>4. CASE ~ Running(h[l])
    <3>1. PICK j \in 1 .. l :
            /\ undoList[j].kind = "boundary" /\ Cardinality(Boundaries(j)) = n
            /\ h[l].text = undoList[j].was
      BY <1>10, <2>1, <2>4 DEF InUnits
    <3> QED BY <1>0, <3>1 DEF UnitEnd
  <2> QED BY <2>3, <2>4
<1> QED BY <1>1, <1>7, <1>8, <1>9, <1>10

-----------------------------------------------------------------------------
(***************************************************************************)
(* The commands.                                                           *)
(***************************************************************************)
\* The first change of an unmodified buffer can be told when it is undone.
NotedInv == slipped \/ Recorded(undoList)

\* The modification time of the file stands for one text: whatever marks the
\* buffer unmodified under it was recorded with that text, or in the middle of
\* a change, where undoing does not stop.
SavedInv ==
  \E T : Saved(undoList, T) /\ (~ modified => text = T)

UndoInv ==
  /\ UndoOK /\ recording \in BOOLEAN /\ slipped \in BOOLEAN
  /\ NotedInv
  /\ TickAtSave => SavedInv

LEMMA NowGood ==
  ASSUME UndoOK, NEW T
  PROVE  /\ Now \in Shots /\ View(Now) /\ Placed(Now) /\ Traced(Now)
         /\ Recorded(undoList) => Noted(Now)
         /\ Saved(undoList, T) /\ (~ modified => text = T) => Sound(Now, T)
         /\ Now.text = text /\ Now.pt = pt /\ Now.zv = zv /\ Now.list = undoList
         /\ Now.here = here /\ Now.modified = modified /\ Now.clean = ~ modified
<1>1. /\ Now.text = text /\ Now.pt = pt /\ Now.zv = zv /\ Now.list = undoList
      /\ Now.here = here /\ Now.modified = modified /\ Now.clean = ~ modified
  BY DEF Now
<1>2. Now \in Shots
  <2>1. pt \in Nat /\ zv \in Nat
    BY DEF UndoOK, Places, Texts
  <2> QED BY <2>1 DEF UndoOK, Places, Now, Shots
<1>3. View(Now) /\ Placed(Now)
  BY <1>1 DEF UndoOK, Places, View, Placed
<1>4. Traced(Now) /\ (Recorded(undoList) => Noted(Now))
  BY <1>1 DEF UndoOK, Traced, Noted
<1>5. Saved(undoList, T) /\ (~ modified => text = T) => Sound(Now, T)
  BY <1>1 DEF Sound
<1> QED BY <1>1, <1>2, <1>3, <1>4, <1>5

\* What a command leaves of the list is enough for the invariant.
LEMMA BecomeKeeps ==
  ASSUME UndoInv, NEW s, Become(s), View(s), Placed(s), Traced(s),
         slipped' \in BOOLEAN, slipped => slipped',
         ~ slipped' => (Recorded(undoList) => Recorded(s.list)),
         \A T : Saved(undoList, T) /\ (~ modified => text = T) => Sound(s, T)
  PROVE  UndoInv'
<1>1. /\ text' = s.text /\ pt' = s.pt /\ zv' = s.zv /\ undoList' = s.list
      /\ here' = s.here /\ modified' = s.modified
      /\ begv' = begv /\ recording' = recording /\ modtime' = modtime
  BY DEF Become
<1>2. Places'
  BY <1>1 DEF UndoInv, UndoOK, Places, View, Placed
<1>3. AllLead(undoList', text') /\ (~ recording' => undoList' = << >>)
  BY <1>1 DEF Traced
<1>4. UndoOK'
  <2>1. AllLead(undoList, text)'
    BY <1>3 DEF AllLead, Leads, Before, TakenBack, Cut, Spliced
  <2> QED BY <1>2, <1>3, <2>1 DEF UndoOK
<1>5. NotedInv'
  <2>1. Recorded(s.list) => Recorded(undoList)'
    BY <1>1 DEF Recorded, OnUnmodified
  <2> QED BY <2>1 DEF UndoInv, NotedInv
<1>6. ASSUME SavedInv PROVE SavedInv'
  <2>1. PICK T : Saved(undoList, T) /\ (~ modified => text = T)
    BY <1>6 DEF SavedInv
  <2>2. Saved(s.list, T) /\ (~ s.modified => s.text = T)
    BY <2>1 DEF Sound
  <2>3. Saved(s.list, T) => Saved(undoList, T)'
    BY <1>1 DEF Saved, InMiddle
  <2>4. Saved(undoList, T)' /\ (~ modified' => text' = T)
    BY <1>1, <2>2, <2>3
  <2> QED BY <2>4 DEF SavedInv
<1> QED BY <1>1, <1>4, <1>5, <1>6 DEF UndoInv

LEMMA TypedTexts ==
  ASSUME NEW string \in Typed
  PROVE  string \in Texts
<1>1. string \in Strings
  BY UndoAssumption
<1>2. PICK n \in 1 .. MaxInsert : string \in [1 .. n -> Char]
  BY <1>1 DEF Strings
<1>3. n \in Nat
  BY BufferTextAssumption
<1> QED BY <1>2, <1>3 DEF Texts

LEMMA InsertStep ==
  ASSUME UndoInv, NEW string \in Typed, InsertUndoably(string)
  PROVE  UndoInv'
<1>0. UndoOK /\ modtime \in Nat /\ begv \in Nat \ {0}
  BY DEF UndoInv, UndoOK, Places
<1>1. string \in Texts
  BY TypedTexts
<1>2. Len(Now.text) + Len(string) <= MaxSize
  BY <1>0, NowGood DEF InsertUndoably
<1> DEFINE r == Inserted(Now, string)
<1>3. ASSUME NEW T
      PROVE  /\ View(r) /\ Placed(r)
             /\ Traced(r) /\ (Noted(Now) => Noted(r)) /\ (Sound(Now, T) => Sound(r, T))
  BY <1>0, <1>1, <1>2, NowGood, InsertedView
<1>4. Become(r) /\ slipped' = slipped
  BY DEF InsertUndoably
<1> HIDE DEF r
<1>5. Recorded(undoList) => Recorded(r.list)
  BY <1>0, <1>3, NowGood DEF Noted
<1>6. \A T : Saved(undoList, T) /\ (~ modified => text = T) => Sound(r, T)
  BY <1>0, <1>3, NowGood
<1> QED BY <1>3, <1>4, <1>5, <1>6, BecomeKeeps DEF UndoInv

LEMMA DeleteStep ==
  ASSUME UndoInv, NEW b \in Position, NEW e \in Position, DeleteUndoably(b, e)
  PROVE  UndoInv'
<1>0. UndoOK /\ modtime \in Nat /\ begv \in Nat \ {0}
  BY DEF UndoInv, UndoOK, Places
<1>1. e \in begv .. Now.zv /\ b \in begv .. e
  <2>1. b \in Nat /\ e \in Nat /\ zv \in Int
    BY <1>0, BufferTextAssumption DEF Position, UndoOK, Places
  <2> QED BY <1>0, <2>1, NowGood DEF DeleteUndoably
<1> DEFINE r == Deleted(Now, b, e)
<1>3. ASSUME NEW T
      PROVE  /\ View(r) /\ Placed(r)
             /\ Traced(r) /\ (Noted(Now) => Noted(r)) /\ (Sound(Now, T) => Sound(r, T))
  BY <1>0, <1>1, NowGood, DeletedView
<1>4. Become(r) /\ slipped' = slipped
  BY DEF DeleteUndoably
<1> HIDE DEF r
<1>5. Recorded(undoList) => Recorded(r.list)
  BY <1>0, <1>3, NowGood DEF Noted
<1>6. \A T : Saved(undoList, T) /\ (~ modified => text = T) => Sound(r, T)
  BY <1>0, <1>3, NowGood
<1> QED BY <1>3, <1>4, <1>5, <1>6, BecomeKeeps DEF UndoInv

LEMMA PrimitiveUndoStep ==
  ASSUME UndoInv, NEW n \in Nat, PrimitiveUndo(n)
  PROVE  UndoInv'
<1> DEFINE r == Undone(n)
<1>0. UndoOK
  BY DEF UndoInv
<1>1. /\ r \in Steady /\ Traced(r)
      /\ Recorded(undoList) => Noted(r)
      /\ \A T : Saved(undoList, T) /\ (~ modified => text = T) => Sound(r, T)
  BY <1>0, UndoneKeeps
<1>2. Become(r) /\ slipped' = slipped
  BY DEF PrimitiveUndo
<1> HIDE DEF r
<1>3. View(r) /\ Placed(r)
  BY <1>1 DEF Steady
<1>4. Recorded(undoList) => Recorded(r.list)
  BY <1>1 DEF Noted
<1> QED BY <1>1, <1>2, <1>3, <1>4, BecomeKeeps DEF UndoInv

\* upcase-region
LEMMA CasifyStep ==
  ASSUME UndoInv, NEW b \in Nat, NEW e \in Nat, CasifyUndoably(b, e)
  PROVE  UndoInv'
<1>0. /\ UndoOK /\ modtime \in Nat /\ begv \in Nat \ {0} /\ text \in Texts
      /\ Len(text) \in Nat /\ zv \in Nat /\ zv <= Len(text) + 1
  BY DEF UndoInv, UndoOK, Places, Texts
<1> DEFINE u == [i \in 1 .. Len(text) |->
                   IF b <= i /\ i < e THEN Up(text[i]) ELSE text[i]]
           list == RecordChange(Now, b, e - b)
           r == [Now EXCEPT !.list = list, !.here = TRUE, !.modified = TRUE, !.text = u]
<1>1. begv <= b /\ b <= e /\ e <= zv
  BY DEF CasifyUndoably
<1>2. Become(r) /\ slipped' = slipped
  BY DEF CasifyUndoably
<1>3. u \in Texts /\ Len(u) = Len(text)
      /\ \A i \in 1 .. Len(text) : i < b \/ e <= i => u[i] = text[i]
  <2>1. \A i \in 1 .. Len(text) : text[i] \in Char /\ Up(text[i]) \in Char
    BY <1>0, UndoAssumption DEF Texts
  <2>2. u \in [1 .. Len(text) -> Char]
    BY <2>1
  <2>3. \A i \in 1 .. Len(text) : i < b \/ e <= i => u[i] = text[i]
    BY <1>0
  <2> HIDE DEF u
  <2> QED BY <1>0, <2>2, <2>3 DEF Texts
<1> HIDE DEF u
<1>4. PICK n \in Nat : n = e - b /\ b + n = e
  BY <1>1
<1>5. b \in 1 .. Len(text) + 1 /\ b + n <= Len(text) + 1
  BY <1>0, <1>1, <1>4
<1>6. ASSUME NEW T
      PROVE  /\ list \in Lists
             /\ AllLead(list, u) /\ (~ recording => list = << >>)
             /\ Noted(Now) => Recorded(list)
             /\ Sound(Now, T) => Saved(list, T)
  <2>1. /\ Now \in Shots /\ View(Now) /\ Now.text = text /\ Traced(Now)
    BY <1>0, NowGood
  <2>2. LET more == RecordChange(Now, b, n)
        IN /\ more \in Lists
           /\ Traced(Now) => AllLead(more, u) /\ (~ recording => more = << >>)
           /\ Noted(Now) => Recorded(more)
           /\ Sound(Now, T) => Saved(more, T)
    BY <1>0, <1>3, <1>4, <1>5, <2>1, RecordChangeList
  <2> QED BY <1>4, <2>1, <2>2
<1> HIDE DEF list
<1>7. /\ r.text = u /\ r.list = list /\ r.here = TRUE /\ r.modified = TRUE
      /\ r.clean = ~ modified /\ r.pt = pt /\ r.zv = zv
  BY DEF Now
<1> HIDE DEF r
<1>8. View(r) /\ Placed(r) /\ Traced(r)
  BY <1>0, <1>3, <1>6, <1>7 DEF View, Placed, Traced, UndoOK, Places
<1>9. Recorded(undoList) => Recorded(r.list)
  BY <1>0, <1>6, <1>7, NowGood
<1>10. \A T : Saved(undoList, T) /\ (~ modified => text = T) => Sound(r, T)
  BY <1>0, <1>6, <1>7, NowGood DEF Sound
<1> QED BY <1>2, <1>8, <1>9, <1>10, BecomeKeeps DEF UndoInv

LEMMA BoundaryStep ==
  ASSUME UndoInv, UndoBoundary
  PROVE  UndoInv'
<1> DEFINE list == WithBoundary(undoList, text)
           r == [Now EXCEPT !.list = list]
<1>0. UndoOK /\ text \in Texts /\ undoList \in Lists
  BY DEF UndoInv, UndoOK, Places
<1>1. Become(r) /\ slipped' = slipped
  BY DEF UndoBoundary
<1>2. ASSUME NEW T
      PROVE  /\ list \in Lists
             /\ AllLead(undoList, text) => AllLead(list, text)
             /\ Recorded(undoList) => Recorded(list)
             /\ Saved(undoList, T) => Saved(list, T)
             /\ ~ recording => list = undoList
  BY <1>0, WithBoundaryList
<1> HIDE DEF list
<1>3. /\ r.text = text /\ r.list = list /\ r.here = here /\ r.modified = modified
      /\ r.clean = ~ modified /\ r.pt = pt /\ r.zv = zv
  BY DEF Now
<1> HIDE DEF r
<1>4. View(r) /\ Placed(r) /\ Traced(r)
  BY <1>0, <1>2, <1>3 DEF View, Placed, Traced, UndoOK, Places
<1>5. Recorded(undoList) => Recorded(r.list)
  BY <1>2, <1>3
<1>6. \A T : Saved(undoList, T) /\ (~ modified => text = T) => Sound(r, T)
  BY <1>2, <1>3 DEF Sound
<1> QED BY <1>1, <1>4, <1>5, <1>6, BecomeKeeps DEF UndoInv


\* subst-char-in-region: the buffer is marked modified first, so that the
\* first change of an unmodified one is not recorded as such.
LEMMA SubstStep ==
  ASSUME UndoInv, NEW b \in Nat, NEW e \in Nat, NEW fromchar \in Char,
         NEW tochar \in Char \ {fromchar}, SubstUndoably(b, e, fromchar, tochar)
  PROVE  UndoInv'
<1> DEFINE marked == [Now EXCEPT !.modified = TRUE]
           One(s, p) ==
             IF s.text[p] = fromchar
             THEN [s EXCEPT !.list = RecordChange(s, p, 1), !.here = TRUE,
                            !.text[p] = tochar, !.clean = FALSE]
             ELSE s
           n == e - b
           places == [i \in 1 .. n |-> b + i - 1]
           r == FoldLeft(One, marked, places)
           CharByChar(s) ==
             /\ Len(s.text) = Len(text)
             /\ \A p \in 1 .. Len(text) :
                  s.text[p] = text[p] \/ (text[p] = fromchar /\ s.text[p] = tochar)
           Substituted(s, T) ==
             /\ View(s) /\ Traced(s) /\ s.pt = pt /\ s.zv = zv /\ s.modified
             /\ CharByChar(s)
             /\ s.text = text => s.list = undoList
             /\ modified /\ Recorded(undoList) => Noted(s)
             /\ Saved(undoList, T) => Saved(s.list, T)
<1>0. /\ UndoOK /\ modtime \in Nat /\ begv \in Nat \ {0} /\ text \in Texts
      /\ Len(text) \in Nat /\ zv \in Nat /\ zv <= Len(text) + 1
      /\ modified \in BOOLEAN
  BY DEF UndoInv, UndoOK, Places, Texts
<1>1. begv <= b /\ b <= e /\ e <= zv
  BY DEF SubstUndoably
<1>2. Become(r) /\ slipped' = (slipped \/ (~ modified /\ text' # text))
  BY DEF SubstUndoably
<1>3. n \in Nat /\ \A i \in 1 .. n : b + i - 1 \in 1 .. Len(text)
  BY <1>0, <1>1
<1>4. ASSUME NEW T PROVE marked \in Shots /\ Substituted(marked, T)
  <2>1. /\ marked \in Shots
        /\ marked.text = text /\ marked.pt = pt /\ marked.zv = zv
        /\ marked.list = undoList /\ marked.here = here /\ marked.modified = TRUE
        /\ marked.clean = ~ modified
    BY <1>0, NowGood DEF Shots
  <2> HIDE DEF marked
  <2>2. View(marked) /\ Traced(marked)
    BY <1>0, <2>1 DEF View, Traced, UndoOK, Places
  <2>3. modified /\ Recorded(undoList) => Noted(marked)
    BY <2>1 DEF Noted
  <2> QED BY <2>1, <2>2, <2>3
<1>5. ASSUME NEW T, NEW s \in Shots, NEW p \in 1 .. Len(text), Substituted(s, T)
      PROVE  One(s, p) \in Shots /\ Substituted(One(s, p), T)
  <2>1. CASE s.text[p] # fromchar
    <3> HIDE DEF Substituted
    <3> QED BY <1>5, <2>1
  <2>2. CASE s.text[p] = fromchar
    <3> DEFINE u == [s.text EXCEPT ![p] = tochar]
               list == RecordChange(s, p, 1)
               q == [s EXCEPT !.list = list, !.here = TRUE,
                              !.text[p] = tochar, !.clean = FALSE]
    <3>1. One(s, p) = q
      BY <2>2
    <3>2. /\ u \in Texts /\ Len(u) = Len(text) /\ u[p] = tochar
          /\ \A i \in 1 .. Len(text) : i # p => u[i] = s.text[i]
      <4>1. s.text \in Seq(Char) /\ Len(s.text) = Len(text) /\ DOMAIN s.text = 1 .. Len(text)
        BY <1>5 DEF Shots, Texts
      <4>2. u \in Seq(Char) /\ Len(u) = Len(text)
        BY <4>1
      <4>3. u[p] = tochar /\ \A i \in 1 .. Len(text) : i # p => u[i] = s.text[i]
        BY <4>1
      <4> QED BY <4>2, <4>3 DEF Texts
    <3>3. /\ p \in 1 .. Len(s.text) + 1 /\ p + 1 <= Len(s.text) + 1 /\ Len(u) = Len(s.text)
          /\ \A i \in 1 .. Len(s.text) : i < p \/ p + 1 <= i => u[i] = s.text[i]
      <4>1. p \in 1 .. Len(text) + 1 /\ p + 1 <= Len(text) + 1
            /\ \A i \in 1 .. Len(text) : i < p \/ p + 1 <= i => i # p
        BY <1>0
      <4> HIDE DEF u
      <4> QED BY <1>5, <3>2, <4>1
    <3> HIDE DEF u
    <3>4. /\ list \in Lists
          /\ Traced(s) => AllLead(list, u) /\ (~ recording => list = << >>)
          /\ Noted(s) => Recorded(list)
          /\ Sound(s, T) => Saved(list, T)
      BY <1>0, <1>5, <3>2, <3>3, RecordChangeList
    <3> HIDE DEF list
    <3>5. /\ q = [s EXCEPT !.list = list, !.here = TRUE, !.text = u, !.clean = FALSE]
          /\ q.text = u /\ q.list = list /\ q.here = TRUE /\ q.clean = FALSE
          /\ q.modified = s.modified /\ q.pt = s.pt /\ q.zv = s.zv /\ q \in Shots
      BY <3>2, <3>4 DEF Shots, u
    <3> HIDE DEF q
    <3>6. View(q)
      <4>1. Len(u) = Len(s.text)
        BY <1>5, <3>2
      <4> QED BY <1>5, <3>2, <3>4, <3>5, <4>1 DEF View
    <3>7. Traced(q)
      BY <1>5, <3>4, <3>5 DEF Traced
    <3>8. text[p] = fromchar
      BY <1>5, <2>2
    <3>9. CharByChar(q)
      <4>1. ASSUME NEW i \in 1 .. Len(text)
            PROVE  u[i] = text[i] \/ (text[i] = fromchar /\ u[i] = tochar)
        <5>1. CASE i = p
          BY <3>2, <3>8, <5>1
        <5>2. CASE i # p
          BY <1>5, <3>2, <5>2
        <5> QED BY <5>1, <5>2
      <4> QED BY <3>2, <3>5, <4>1
    <3>10. q.text # text
      BY <3>2, <3>5, <3>8
    <3>11. modified /\ Recorded(undoList) => Noted(q)
      BY <1>5, <3>4, <3>5 DEF Noted
    <3>12. Saved(undoList, T) => Saved(q.list, T)
      BY <1>5, <3>4, <3>5 DEF Sound
    <3> QED BY <1>5, <3>1, <3>5, <3>6, <3>7, <3>9, <3>10, <3>11, <3>12
  <2> QED BY <2>1, <2>2
<1> HIDE DEF One, Substituted, marked
<1>6. ASSUME NEW T PROVE r \in Shots /\ Substituted(r, T)
  <2> DEFINE S == {s \in Shots : Substituted(s, T)}
             D == SUBSET (1 .. n)
             Step == [i \in 1 .. n |-> [s \in S |-> One(s, b + i - 1)]]
             Fold(g) == [d \in D |-> IF d = {} THEN marked
                                     ELSE One(g[d \ {Max(d)}], places[Max(d)])]
             iter == CHOOSE g : g = Fold(g)
  <2>1. DOMAIN places = 1 .. n /\ \A i \in 1 .. n : places[i] = b + i - 1
    OBVIOUS
  <2>2. r = iter[1 .. n]
    BY <2>1 DEF FoldLeft, MapThenFoldSet
  <2> HIDE DEF n, places, r
  <2>3. marked \in S
    BY <1>4
  <2>4. Step \in [1 .. n -> [S -> S]]
    <3>1. \A i \in 1 .. n : \A s \in S : One(s, b + i - 1) \in S
      BY <1>3, <1>5
    <3> HIDE DEF S
    <3> QED BY <3>1
  <2> HIDE DEF S
  <2>5. PICK g \in [D -> S] : IsFold(n, marked, Step, g)
    <3> HIDE DEF Step
    <3> QED BY <1>3, <2>3, <2>4, FoldExists
  <2>6. g = Fold(g)
    <3>1. ASSUME NEW d \in D, d # {}
          PROVE  g[d] = One(g[d \ {Max(d)}], places[Max(d)])
      <4>1. Max(d) \in 1 .. n
        BY <1>3, <3>1, MaxOfInterval
      <4>2. d \ {Max(d)} \in D
        OBVIOUS
      <4> QED BY <2>1, <2>5, <3>1, <4>1, <4>2 DEF IsFold
    <3> QED BY <2>5, <3>1 DEF IsFold
  <2>7. iter = Fold(iter)
    <3> HIDE DEF Fold
    <3> QED BY <2>6
  <2> HIDE DEF iter
  <2> DEFINE P(i) == i <= n => iter[1 .. i] \in S
             M == {i \in Nat : P(i)}
  <2>8. P(0)
    <3>1. 1 .. 0 = {} /\ {} \in D
      OBVIOUS
    <3> QED BY <2>3, <2>7, <3>1
  <2>9. ASSUME NEW i \in Nat, P(i) PROVE P(i + 1)
    <3> SUFFICES ASSUME i + 1 <= n PROVE iter[1 .. i + 1] \in S
      OBVIOUS
    <3>1. i \in 0 .. n - 1 /\ i <= n /\ i + 1 \in 1 .. n
      BY <1>3
    <3>2. /\ 1 .. i + 1 \in D /\ 1 .. i + 1 # {} /\ Max(1 .. i + 1) = i + 1
          /\ (1 .. i + 1) \ {i + 1} = 1 .. i
      BY <1>3, <3>1, MaxOfPrefix
    <3>3. iter[1 .. i + 1] = One(iter[1 .. i], places[i + 1])
      BY <2>7, <3>2
    <3>4. iter[1 .. i] \in S
      BY <2>9, <3>1
    <3>5. \A s \in S : One(s, b + (i + 1) - 1) \in S
      BY <1>3, <1>5, <3>1 DEF S
    <3> QED BY <2>1, <3>1, <3>3, <3>4, <3>5
  <2>10. M = Nat
    <3>1. M \in SUBSET Nat
      OBVIOUS
    <3> HIDE DEF P
    <3>2. 0 \in M /\ \A i \in M : i + 1 \in M
      BY <2>8, <2>9
    <3> HIDE DEF M
    <3> QED BY <3>1, <3>2, NatSetInduction
  <2>11. P(n)
    <3> HIDE DEF P
    <3> QED BY <1>3, <2>10
  <2> QED BY <1>3, <2>2, <2>11 DEF S
<1> HIDE DEF r
<1>7. /\ View(r) /\ Placed(r) /\ Traced(r) /\ r.modified
      /\ r.text = text => r.list = undoList
      /\ modified /\ Recorded(undoList) => Noted(r)
      /\ \A T : Saved(undoList, T) => Saved(r.list, T)
  BY <1>0, <1>6 DEF Substituted, Placed, UndoOK, Places
<1>8. ~ slipped' => (Recorded(undoList) => Recorded(r.list))
  <2>1. text' = r.text
    BY <1>2 DEF Become
  <2> QED BY <1>2, <1>7, <2>1 DEF Noted
<1>9. \A T : Saved(undoList, T) /\ (~ modified => text = T) => Sound(r, T)
  BY <1>7 DEF Sound
<1> QED BY <1>2, <1>7, <1>8, <1>9, BecomeKeeps DEF UndoInv


\* Garbage collection keeps what is before a boundary.
LEMMA CutList ==
  ASSUME NEW list \in Lists, NEW k \in 1 .. Len(list), list[k].kind = "boundary",
         NEW t, NEW T
  PROVE  LET less == SubSeq(list, 1, k - 1)
         IN /\ less \in Lists
            /\ AllLead(list, t) => AllLead(less, t)
            /\ Recorded(list) => Recorded(less)
            /\ Saved(list, T) => Saved(less, T)
<1> DEFINE less == SubSeq(list, 1, k - 1)
<1>0. Len(list) \in Nat /\ k \in Nat /\ k - 1 \in Nat
  BY DEF Lists
<1>1. /\ less \in Lists /\ Len(less) = k - 1
      /\ \A i \in 1 .. k - 1 : less[i] = list[i]
  BY <1>0 DEF Lists
<1> HIDE DEF less
<1>2. \A i \in 1 .. k - 1 : /\ i \in 1 .. Len(list)
                            /\ i # 1 => i - 1 \in 1 .. k - 1
                            /\ i + 1 # k => i + 1 \in 1 .. k - 1
  BY <1>0
<1>3. ASSUME AllLead(list, t) PROVE AllLead(less, t)
  <2> SUFFICES ASSUME NEW i \in 1 .. k - 1 PROVE Leads(Before(less, t, i), less[i])
    BY <1>1 DEF AllLead
  <2>1. Before(less, t, i) = Before(list, t, i)
    BY <1>1, <1>2 DEF Before
  <2> QED BY <1>1, <1>2, <1>3, <2>1 DEF AllLead
<1>4. ASSUME Recorded(list) PROVE Recorded(less)
  <2> SUFFICES ASSUME NEW i \in 1 .. k - 1, OnUnmodified(less[i])
               PROVE  i + 1 \in 1 .. k - 1 /\ less[i + 1].kind = "first"
    BY <1>1 DEF Recorded
  <2>1. i + 1 \in 1 .. Len(list) /\ list[i + 1].kind = "first"
    BY <1>1, <1>2, <1>4 DEF Recorded
  <2>2. i + 1 # k
    BY <2>1
  <2> QED BY <1>1, <1>2, <2>1, <2>2
<1>5. ASSUME Saved(list, T) PROVE Saved(less, T)
  <2> SUFFICES ASSUME NEW j \in 1 .. k - 1, less[j].kind = "first"
               PROVE  /\ less[j].time <= modtime
                      /\ less[j].time = modtime => less[j].was = T \/ InMiddle(less, j)
    BY <1>1 DEF Saved
  <2>1. less[j] = list[j] /\ j \in 1 .. Len(list)
    BY <1>1, <1>2
  <2>2. ASSUME InMiddle(list, j) PROVE InMiddle(less, j)
    <3>1. /\ j - 1 \in 1 .. Len(list) /\ j + 1 \in 1 .. Len(list)
          /\ list[j + 1].kind = "deletion"
      BY <2>2 DEF InMiddle
    <3>2. j + 1 # k /\ j # 1
      <4>1. j + 1 # k
        BY <3>1
      <4>2. j # 1
        BY <3>1
      <4> QED BY <4>1, <4>2
    <3>3. j - 1 \in 1 .. k - 1 /\ j + 1 \in 1 .. k - 1
      BY <1>2, <3>2
    <3>4. less[j - 1] = list[j - 1] /\ less[j + 1] = list[j + 1]
      BY <1>1, <3>3
    <3> QED BY <1>1, <2>2, <3>3, <3>4 DEF InMiddle
  <2> QED BY <1>5, <2>1, <2>2 DEF Saved
<1> QED BY <1>1, <1>3, <1>4, <1>5 DEF less

LEMMA TruncateStep ==
  ASSUME UndoInv, TruncateUndoList
  PROVE  UndoInv'
<1>0. /\ UndoOK /\ undoList \in Lists /\ DOMAIN undoList = 1 .. Len(undoList)
      /\ recording \in BOOLEAN
  BY DEF UndoInv, UndoOK, Places, Lists
<1>1. UNCHANGED <<text, begv, zv, pt, recording, here, modified, modtime, slipped>>
  BY DEF TruncateUndoList, textVars
<1>2. PICK i \in 1 .. Len(undoList) :
           /\ undoList[i].kind = "boundary"
           /\ undoList' \in {SubSeq(undoList, 1, i - 1), << >>}
  BY <1>0 DEF TruncateUndoList
<1>3. ASSUME NEW T
      PROVE  /\ undoList' \in Lists
             /\ AllLead(undoList', text)
             /\ Recorded(undoList) => Recorded(undoList')
             /\ Saved(undoList, T) => Saved(undoList', T)
  <2>1. AllLead(undoList, text)
    BY <1>0 DEF UndoOK
  <2>2. CASE undoList' = << >>
    BY <2>2, NoList
  <2>3. CASE undoList' = SubSeq(undoList, 1, i - 1)
    BY <1>0, <1>2, <2>1, <2>3, CutList
  <2> QED BY <1>2, <2>2, <2>3
<1>4. recording
  <2>1. undoList # << >>
    BY <1>0, <1>2
  <2> QED BY <1>0, <2>1 DEF UndoOK
<1>5. UndoOK'
  <2>1. Places'
    BY <1>0, <1>1, <1>3 DEF UndoOK, Places
  <2>2. AllLead(undoList, text)'
    BY <1>1, <1>3
  <2> QED BY <1>1, <1>4, <2>1, <2>2 DEF UndoOK
<1>6. NotedInv'
  <2>1. slipped \/ Recorded(undoList)
    BY DEF UndoInv, NotedInv
  <2>2. slipped' \/ Recorded(undoList')
    BY <1>1, <1>3, <2>1
  <2> QED BY <2>2 DEF NotedInv
<1>7. ASSUME SavedInv PROVE SavedInv'
  <2>1. PICK T : Saved(undoList, T) /\ (~ modified => text = T)
    BY <1>7 DEF SavedInv
  <2>1a. Saved(undoList', T)
    BY <1>3, <2>1
  <2>2. Saved(undoList, T)'
    BY <1>1, <2>1a DEF Saved, InMiddle
  <2>3. ~ modified' => text' = T
    BY <1>1, <2>1
  <2> QED BY <2>2, <2>3 DEF SavedInv
<1> QED BY <1>1, <1>5, <1>6, <1>7 DEF UndoInv

\* Commands that leave text and list alone.
LEMMA AsideStep ==
  ASSUME UndoInv, text' = text, begv' \in Nat \ {0}, zv' \in begv' .. Len(text) + 1,
         pt' \in begv' .. zv', here' \in BOOLEAN, modified' = modified,
         modtime' = modtime, slipped' = slipped, recording' \in BOOLEAN,
         undoList' = << >> \/ (undoList' = undoList /\ (recording => recording'))
  PROVE  UndoInv'
<1>0. UndoOK
  BY DEF UndoInv
<1>1. ASSUME NEW T
      PROVE  /\ undoList' \in Lists
             /\ AllLead(undoList', text)
             /\ ~ recording' => undoList' = << >>
             /\ Recorded(undoList) => Recorded(undoList')
             /\ Saved(undoList, T) => Saved(undoList', T)
  <2>1. /\ undoList \in Lists /\ AllLead(undoList, text)
        /\ ~ recording => undoList = << >>
    BY <1>0 DEF UndoOK, Places
  <2>2. CASE undoList' = << >>
    BY <2>2, NoList
  <2>3. CASE undoList' = undoList /\ (recording => recording')
    BY <2>1, <2>3
  <2> QED BY <2>2, <2>3
<1>2. UndoOK'
  <2>1. Places'
    BY <1>0, <1>1 DEF UndoOK, Places
  <2>2. AllLead(undoList, text)'
    BY <1>1
  <2> QED BY <1>1, <2>1, <2>2 DEF UndoOK
<1>3. NotedInv'
  <2>1. slipped' \/ Recorded(undoList')
    BY <1>1 DEF UndoInv, NotedInv
  <2> QED BY <2>1 DEF NotedInv
<1>4. ASSUME SavedInv PROVE SavedInv'
  <2>1. PICK T : Saved(undoList, T) /\ (~ modified => text = T)
    BY <1>4 DEF SavedInv
  <2>2. Saved(undoList, T)'
    BY <1>1, <2>1 DEF Saved, InMiddle
  <2>3. ~ modified' => text' = T
    BY <2>1
  <2> QED BY <2>2, <2>3 DEF SavedInv
<1>5. slipped' \in BOOLEAN
  BY DEF UndoInv
<1> QED BY <1>2, <1>3, <1>4, <1>5 DEF UndoInv

\* write-region: the times recorded so far are of the past.
LEMMA SaveStep ==
  ASSUME UndoInv, Save \/ SaveFailed
  PROVE  UndoInv'
<1>0. UndoOK /\ modtime \in Nat /\ undoList \in Lists
  BY DEF UndoInv, UndoOK, Places
<1>1. /\ UNCHANGED <<text, begv, zv, pt, recording, undoList, here, slipped>>
      /\ modified' \in BOOLEAN
  BY <1>0 DEF Save, SaveFailed, textVars, UndoOK, Places
<1>2. modtime' \in Nat /\ (TickAtSave => modtime' = modtime + 1)
  BY <1>0 DEF Save, SaveFailed, NewModtime
<1>3. UndoOK'
  <2>1. Places'
    BY <1>0, <1>1, <1>2 DEF UndoOK, Places
  <2>2. AllLead(undoList, text)'
    BY <1>0, <1>1 DEF UndoOK
  <2> QED BY <1>0, <1>1, <2>1, <2>2 DEF UndoOK
<1>4. NotedInv'
  <2>1. slipped' \/ Recorded(undoList')
    BY <1>1 DEF UndoInv, NotedInv
  <2> QED BY <2>1 DEF NotedInv
<1>5. ASSUME TickAtSave, SavedInv PROVE SavedInv'
  <2>1. PICK T : Saved(undoList, T)
    BY <1>5 DEF SavedInv
  <2>2. ASSUME NEW j \in 1 .. Len(undoList), undoList[j].kind = "first"
        PROVE  undoList[j].time <= modtime' /\ undoList[j].time # modtime'
    <3>1. undoList[j] \in Elements
      BY <1>0 DEF Lists
    <3>2. undoList[j].time \in Nat
      BY <2>2, <3>1, ElementParts DEF First
    <3>3. undoList[j].time <= modtime
      BY <2>1, <2>2 DEF Saved
    <3> QED BY <1>0, <1>2, <1>5, <3>2, <3>3
  <2>3. Saved(undoList, text)'
    BY <1>1, <2>2 DEF Saved
  <2> QED BY <2>3 DEF SavedInv
<1> QED BY <1>1, <1>3, <1>4, <1>5 DEF UndoInv

LEMMA UndoStep ==
  ASSUME UndoInv, [UndoNext]_<<textVars, undoVars>>
  PROVE  UndoInv'
<1>0. /\ UndoOK /\ recording \in BOOLEAN /\ here \in BOOLEAN
      /\ begv \in Nat \ {0} /\ zv \in begv .. Len(text) + 1 /\ pt \in begv .. zv
      /\ Len(text) \in Nat /\ begv \in Nat /\ zv \in Nat
  BY DEF UndoInv, UndoOK, Places, Texts
<1>1. ASSUME NEW string \in Typed, InsertUndoably(string) PROVE UndoInv'
  BY <1>1, InsertStep
<1>2. ASSUME NEW b \in Position, NEW e \in Position, DeleteUndoably(b, e)
      PROVE  UndoInv'
  BY <1>2, DeleteStep
<1>3. ASSUME NEW ch \in Char, NEW d \in Char \ {ch}, SubstUndoably(begv, zv, ch, d)
      PROVE  UndoInv'
  BY <1>0, <1>3, SubstStep
<1>4. CASE CasifyUndoably(begv, zv)
  BY <1>0, <1>4, CasifyStep
<1>5. CASE UndoBoundary
  BY <1>5, BoundaryStep
<1>6. CASE OtherBuffer
  BY <1>0, <1>6, AsideStep DEF OtherBuffer, textVars
<1>7. CASE TruncateUndoList
  BY <1>7, TruncateStep
<1>8. CASE BufferFlushUndo
  BY <1>0, <1>8, AsideStep DEF BufferFlushUndo, textVars
<1>9. CASE BufferEnableUndo
  BY <1>0, <1>9, AsideStep DEF BufferEnableUndo, textVars
<1>10. CASE Save \/ SaveFailed
  BY <1>10, SaveStep
<1>11. ASSUME NEW r \in Regions, NarrowOnly(r[1], r[2]) PROVE UndoInv'
  <2>1. r[1] \in Nat /\ r[2] \in Nat
    <3>1. r \in Position \X Position
      BY UndoAssumption
    <3>2. \A p \in Position : p \in Nat
      BY BufferTextAssumption DEF Position
    <3> QED BY <3>1, <3>2
  <2>2. /\ 1 <= r[1] /\ r[1] <= r[2] /\ r[2] <= Len(text) + 1
        /\ begv' = r[1] /\ zv' = r[2] /\ pt' = Clip(r[1], pt, r[2])
        /\ text' = text /\ UNCHANGED undoVars
    BY <1>11 DEF NarrowOnly, NarrowToRegion, Z
  <2>3. Clip(r[1], pt, r[2]) \in r[1] .. r[2]
    BY <1>0, <2>1, <2>2 DEF Clip
  <2> QED BY <1>0, <2>1, <2>2, <2>3, AsideStep DEF undoVars
<1>12. CASE WidenOnly
  <2>1. /\ begv' = 1 /\ zv' = Len(text) + 1 /\ pt' = pt
        /\ text' = text /\ UNCHANGED undoVars
    BY <1>12 DEF WidenOnly, Widen, Z
  <2>2. 1 \in Nat \ {0} /\ Len(text) + 1 \in 1 .. Len(text) + 1
        /\ pt \in 1 .. Len(text) + 1
    BY <1>0
  <2> QED BY <1>0, <2>1, <2>2, AsideStep DEF undoVars
<1>13. ASSUME NEW n \in Position, GotoOnly(n) PROVE UndoInv'
  <2>1. /\ begv' = begv /\ zv' = zv /\ pt' = Clip(begv, n, zv)
        /\ text' = text /\ UNCHANGED undoVars
    BY <1>13 DEF GotoOnly, GotoChar
  <2>2. Clip(begv, n, zv) \in begv .. zv
    <3>1. n \in Nat
      BY BufferTextAssumption DEF Position
    <3> QED BY <1>0, <3>1 DEF Clip
  <2> QED BY <1>0, <2>1, <2>2, AsideStep DEF undoVars
<1>14. ASSUME NEW n \in 1 .. 2, PrimitiveUndo(n) PROVE UndoInv'
  BY <1>14, PrimitiveUndoStep
<1>15. CASE UNCHANGED <<textVars, undoVars>>
  BY <1>0, <1>15, AsideStep DEF textVars, undoVars
<1> QED BY <1>1, <1>2, <1>3, <1>4, <1>5, <1>6, <1>7, <1>8, <1>9, <1>10, <1>11, <1>12,
           <1>13, <1>14, <1>15 DEF UndoNext

\* The inductive invariant: the buffer and its list are well formed, the list
\* leads back from the text, and what it says of unmodified texts is true.
THEOREM UndoInvariant == UndoSpec => []UndoInv
<1>1. UndoInit => UndoInv
  <2> SUFFICES ASSUME UndoInit PROVE UndoInv
    OBVIOUS
  <2>1. /\ text = << >> /\ begv = 1 /\ zv = 1 /\ pt = 1
        /\ recording = TRUE /\ undoList = << >> /\ here = FALSE
        /\ modified = FALSE /\ modtime = 0 /\ slipped = FALSE
    BY DEF UndoInit, Init
  <2>2. Places
    <3>1. << >> \in Texts /\ Len(<< >>) = 0 /\ MaxSize \in Nat
      BY BufferTextAssumption DEF Texts
    <3>2. Len(text) = 0 /\ text \in Texts
      BY <2>1, <3>1
    <3>3. /\ Len(text) <= MaxSize /\ zv \in begv .. Len(text) + 1
          /\ pt \in begv .. zv /\ begv \in Nat \ {0} /\ modtime \in Nat
      BY <2>1, <3>1, <3>2
    <3>4. undoList \in Lists /\ here \in BOOLEAN /\ modified \in BOOLEAN
      BY <2>1, NoList
    <3> QED BY <3>2, <3>3, <3>4 DEF Places
  <2>3. UndoOK
    BY <2>1, <2>2, NoList DEF UndoOK
  <2>4. NotedInv
    BY <2>1, NoList DEF NotedInv
  <2>5. SavedInv
    BY <2>1, NoList DEF SavedInv
  <2> QED BY <2>1, <2>3, <2>4, <2>5 DEF UndoInv
<1>2. UndoInv /\ [UndoNext]_<<textVars, undoVars>> => UndoInv'
  BY UndoStep
<1> QED BY <1>1, <1>2, PTL DEF UndoSpec

\* However changes, boundaries, saves, undos and undos of undos follow each
\* other, the list leads back through every text the buffer has had.
THEOREM LeadsBackHolds == UndoSpec => []LeadsBack
<1>1. UndoInv => LeadsBack
  <2> SUFFICES ASSUME UndoInv, NEW i \in DOMAIN undoList
               PROVE  LET from == IF i = 1 THEN text ELSE undoList[i - 1].was
                      IN /\ undoList[i].kind = "insertion" => undoList[i].to <= Len(from) + 1
                         /\ undoList[i].kind = "deletion" => undoList[i].at <= Len(from) + 1
                         /\ TakenBack(from, undoList[i]) = undoList[i].was
    BY DEF LeadsBack
  <2> DEFINE from == IF i = 1 THEN text ELSE undoList[i - 1].was
  <2>1. undoList \in Lists /\ i \in 1 .. Len(undoList) /\ Len(undoList) \in Nat
    BY DEF UndoInv, UndoOK, Places, Lists
  <2>2. Leads(from, undoList[i])
    BY <2>1 DEF UndoInv, UndoOK, AllLead, Before
  <2>3. from \in Texts
    <3>1. CASE i = 1
      BY <3>1 DEF UndoInv, UndoOK, Places
    <3>2. CASE i # 1
      <4>1. undoList[i - 1] \in Elements
        BY <2>1, <3>2 DEF Lists
      <4> QED BY <3>2, <4>1, ElementParts
    <3> QED BY <3>1, <3>2
  <2> HIDE DEF from
  <2>4. Len(from) \in Nat
    BY <2>3 DEF Texts
  <2>5. /\ undoList[i].kind = "insertion" => undoList[i].to <= Len(from) + 1
        /\ undoList[i].kind = "deletion" => undoList[i].at <= Len(from) + 1
        /\ TakenBack(from, undoList[i]) = undoList[i].was
    BY <2>2, <2>4 DEF Leads
  <2> QED BY <2>5 DEF from
<1> QED BY <1>1, UndoInvariant, PTL

\* The first change of an unmodified buffer can be told when it is undone,
\* unless subst-char-in-region made it.
THEOREM FirstChangeRecordedHolds == UndoSpec => []FirstChangeRecorded
<1>1. UndoInv => FirstChangeRecorded
  <2> SUFFICES ASSUME UndoInv, ~ slipped, NEW i \in DOMAIN undoList,
                      OnUnmodified(undoList[i])
               PROVE  i < Len(undoList) /\ undoList[i + 1].kind = "first"
    BY DEF FirstChangeRecorded
  <2>1. i \in 1 .. Len(undoList) /\ Len(undoList) \in Nat
    BY DEF UndoInv, UndoOK, Places, Lists
  <2>2. i + 1 \in 1 .. Len(undoList) /\ undoList[i + 1].kind = "first"
    BY <2>1 DEF UndoInv, NotedInv, Recorded
  <2> QED BY <2>1, <2>2
<1> QED BY <1>1, UndoInvariant, PTL

\* If no two saves fall into the same second, a buffer that an undo marks
\* unmodified holds what was saved.
THEOREM UnmodifiedMeansSavedHolds ==
  ASSUME TickAtSave PROVE UndoSpec => []UnmodifiedMeansSaved
<1>1. UndoInv => UnmodifiedMeansSaved
  <2> SUFFICES ASSUME UndoInv PROVE UnmodifiedMeansSaved
    OBVIOUS
  <2>1. PICK T : Saved(undoList, T) /\ (~ modified => text = T)
    BY DEF UndoInv, SavedInv
  <2>2. DOMAIN undoList = 1 .. Len(undoList)
    BY DEF UndoInv, UndoOK, Places, Lists
  <2>3. \A j : InMiddle(undoList, j) => WithinChange(j)
    BY <2>2 DEF InMiddle, WithinChange
  <2>4. UnmodifiedTexts \subseteq {T}
    <3>1. ASSUME NEW j \in DOMAIN undoList, undoList[j].kind = "first",
                 undoList[j].time = modtime, ~ WithinChange(j)
          PROVE  undoList[j].was = T
      BY <2>1, <2>2, <2>3, <3>1 DEF Saved
    <3> QED BY <2>1, <3>1 DEF UnmodifiedTexts
  <2>5. IsFiniteSet({T}) /\ Cardinality({T}) = 1
    BY FS_Singleton
  <2>6. Cardinality(UnmodifiedTexts) <= 1
    BY <2>4, <2>5, FS_Subset
  <2> QED BY <2>6 DEF UnmodifiedMeansSaved
<1> QED BY <1>1, UndoInvariant, PTL

\* primitive-undo takes back whole units, unless it meets a modification time
\* that is not the file's.
THEOREM UndoesWholeUnitsUnlessSavedHolds == UndoSpec => UndoesWholeUnitsUnlessSaved
<1>1. ASSUME UndoInv, [UndoNext]_<<textVars, undoVars>>, ~ Obsolete,
             NEW n \in 1 .. 2, PrimitiveUndo(n)
      PROVE  WholeUnits(n)
  <2> DEFINE u == Undone(n)
  <2>1. n \in Nat /\ n # 0 /\ UndoOK
    BY <1>1 DEF UndoInv
  <2>2. \/ u.failed \/ undoList = << >>
        \/ \E i \in DOMAIN undoList : UnitEnd(n, i) /\ u.text = undoList[i].was
    BY <1>1, <2>1, UndoneKeeps
  <2>3. text' = u.text
    BY <1>1 DEF PrimitiveUndo, Become
  <2> HIDE DEF u
  <2> QED BY <2>2, <2>3 DEF WholeUnits, u
<1>2. UndoInv /\ [UndoNext]_<<textVars, undoVars>>
        => [~ Obsolete => \A n \in 1 .. 2 : PrimitiveUndo(n) => WholeUnits(n)
             ]_<<textVars, undoVars>>
  BY <1>1
<1> QED BY <1>2, UndoInvariant, PTL DEF UndoSpec, UndoesWholeUnitsUnlessSaved
=============================================================================
