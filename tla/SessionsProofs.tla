--------------------------- MODULE SessionsProofs ---------------------------
(***************************************************************************)
(* Theorems about five of the sessions of Sessions.tla, each for every     *)
(* number of buffers, messages and values, and each from an inductive      *)
(* invariant of its component.                                             *)
(*   movemail loses no message (MailInv);                                  *)
(*   auto-saving keeps every change (AutoInv);                             *)
(*   in holomacs point and the markers stay in the text and between the    *)
(*   characters they were at (HoloInv);                                    *)
(*   with its cached value cell, and with values swapped in and out, the   *)
(*   code of data.c and buffer.c gives every buffer the variables that     *)
(*   Variables.tla says it has, which is the refinement; two more theorems *)
(*   are about what C code finds in a forwarded variable and about what is *)
(*   left after a let (LocalsInv);                                         *)
(*   the matcher of regular expressions never reads the gap between its    *)
(*   two strings, whatever the commands and the text (MatcherInv).         *)
(***************************************************************************)
EXTENDS Sessions, Induction

Places == {"none", "link", "stat", "break"} \cup Mail!UnderLock

MailTypes ==
  /\ inbox = Mail!Absent \/ inbox \in Seq(Nat \ {0})
  /\ newmail = Mail!Absent \/ newmail \in Seq(Nat \ {0})
  /\ sent \in Nat
  /\ mover \in [Buffers -> Places]

Copying == {m \in Buffers : mover[m] = "copy"}

\* Who works under the lock owns it.
WorkersOwnLock ==
  /\ mailer # "idle" => lock.owner = Mail!Mailer
  /\ \A m \in Buffers : mover[m] \in Mail!UnderLock => lock.owner = m

\* What Rmail has read and not deleted is a file that is complete.
ReadWhenComplete ==
  /\ rmail \in {"save", "delete"} => Mail!Exists(newmail) /\ Copying = {}
  /\ rmail = "save" => Mail!Content(newmail) \subseteq unsaved
  /\ rmail = "delete" => Mail!Content(newmail) \subseteq babyl

\* A copy is a copy, and the inbox is deleted when there is one.
CopiedFirst ==
  \A m \in Buffers :
    /\ mover[m] \in {"create", "copy"} => Mail!Exists(inbox)
    /\ mover[m] = "copy" =>
         /\ Mail!Exists(newmail) /\ Len(newmail) <= Len(inbox)
         /\ \A i \in 1 .. Len(newmail) : newmail[i] = inbox[i]
    /\ mover[m] = "zap"
       => Mail!Content(inbox) \subseteq Mail!Content(newmail) \cup babyl

MailInv ==
  /\ MailTypes /\ Mail!KeepsMail
  /\ accident = "none" => WorkersOwnLock /\ ReadWhenComplete /\ CopiedFirst

-----------------------------------------------------------------------------
(***************************************************************************)
(* Files as sequences.                                                     *)
(***************************************************************************)
LEMMA AbsentIsNone == Mail!Content(Mail!Absent) = {} /\ ~Mail!Exists(Mail!Absent)
BY DEF Mail!Content, Mail!Exists

\* An empty file exists, unlike one that does not (movemail.c, main).
LEMMA EmptyIsThere == Mail!Content(<<>>) = {} /\ Mail!Exists(<<>>)
                      /\ <<>> \in Seq(Nat \ {0})
BY DEF Mail!Content, Mail!Exists, Mail!Absent, Mail!Range

\* Any file of messages exists, and contains what is in it.
LEMMA FilesExist ==
  ASSUME NEW f \in Seq(Nat \ {0})
  PROVE  Mail!Exists(f) /\ Mail!Content(f) = {f[i] : i \in 1 .. Len(f)}
<1>1. CASE f = <<0>>
  <2>1. Len(f) = 1 /\ f[1] = 0
    BY <1>1
  <2>2. f[1] \in Nat \ {0}
    BY <2>1
  <2> QED BY <2>1, <2>2
<1>2. Mail!Exists(f)
  BY <1>1 DEF Mail!Exists, Mail!Absent
<1>3. DOMAIN f = 1 .. Len(f)
  OBVIOUS
<1> QED BY <1>2, <1>3 DEF Mail!Content, Mail!Range

\* A file of one message.
LEMMA OneIsThere ==
  ASSUME NEW n \in Nat \ {0}
  PROVE  <<n>> \in Seq(Nat \ {0}) /\ Mail!Content(<<n>>) = {n}
<1>1. <<n>> \in Seq(Nat \ {0}) /\ Len(<<n>>) = 1 /\ <<n>>[1] = n
  OBVIOUS
<1>2. Mail!Content(<<n>>) = {<<n>>[i] : i \in 1 .. Len(<<n>>)}
  BY <1>1, FilesExist
<1>3. 1 .. Len(<<n>>) = {1}
  BY <1>1
<1> HIDE DEF Mail!Content
<1> QED BY <1>1, <1>2, <1>3

\* Appending a message adds it to the contents (movemail.c copies the whole file).
LEMMA Appended ==
  ASSUME NEW f \in Seq(Nat \ {0}), NEW n \in Nat \ {0}
  PROVE  /\ Append(f, n) \in Seq(Nat \ {0})
         /\ Mail!Content(Append(f, n)) = Mail!Content(f) \cup {n}
<1>1. Append(f, n) \in Seq(Nat \ {0}) /\ Len(Append(f, n)) = Len(f) + 1
  OBVIOUS
<1>2. \A i \in 1 .. Len(f) + 1 :
        Append(f, n)[i] = IF i = Len(f) + 1 THEN n ELSE f[i]
  OBVIOUS
<1>3. Mail!Content(Append(f, n)) = {Append(f, n)[i] : i \in 1 .. Len(f) + 1}
  BY <1>1, FilesExist
<1>4. Mail!Content(f) = {f[i] : i \in 1 .. Len(f)}
  BY FilesExist
<1>5. Len(f) \in Nat
  OBVIOUS
<1>6. \A x : x \in Mail!Content(Append(f, n)) <=> x \in Mail!Content(f) \cup {n}
  BY <1>2, <1>3, <1>4, <1>5
<1> QED BY <1>1, <1>6

\* A file that agrees with another as far as it goes holds nothing else.
LEMMA PrefixHolds ==
  ASSUME NEW f \in Seq(Nat \ {0}), NEW g \in Seq(Nat \ {0}),
         Len(f) <= Len(g), \A i \in 1 .. Len(f) : f[i] = g[i]
  PROVE  /\ Mail!Content(f) \subseteq Mail!Content(g)
         /\ Len(f) = Len(g) => Mail!Content(g) \subseteq Mail!Content(f)
<1>1. /\ Mail!Content(f) = {f[i] : i \in 1 .. Len(f)}
      /\ Mail!Content(g) = {g[i] : i \in 1 .. Len(g)}
  BY FilesExist
<1>2. Len(f) \in Nat /\ Len(g) \in Nat
  OBVIOUS
<1>3. ASSUME NEW x \in Mail!Content(f) PROVE x \in Mail!Content(g)
  <2>1. PICK i \in 1 .. Len(f) : x = f[i]
    BY <1>1
  <2>2. i \in 1 .. Len(g) /\ x = g[i]
    BY <1>2, <2>1
  <2> QED BY <1>1, <2>2
<1>4. Len(f) = Len(g) => \A x \in Mail!Content(g) : x \in Mail!Content(f)
  BY <1>1, <1>2
<1> QED BY <1>3, <1>4

-----------------------------------------------------------------------------
\* The mail starts in order.
LEMMA MailStarts == Mail!MailInit => MailInv
<1> SUFFICES ASSUME Mail!MailInit PROVE MailInv
  OBVIOUS
<1>1. MailTypes
  BY DEF Mail!MailInit, MailTypes, Places
<1>2. Mail!KeepsMail
  BY DEF Mail!MailInit, Mail!KeepsMail
<1>3. WorkersOwnLock /\ ReadWhenComplete /\ CopiedFirst
  BY DEF Mail!MailInit, WorkersOwnLock, ReadWhenComplete, CopiedFirst,
     Mail!UnderLock
<1> QED BY <1>1, <1>2, <1>3 DEF MailInv

\* Every step of the mailer, of movemail and of Rmail keeps the mail in order.
LEMMA MailKept ==
  Mail!MovemailAssumption /\ MailInv /\ Mail!MailNext => MailInv'
<1> SUFFICES ASSUME Mail!MovemailAssumption /\ MailInv /\ Mail!MailNext
             PROVE  MailInv'
  OBVIOUS
<1>0. /\ accident = "none" /\ MailTypes /\ Mail!KeepsMail
      /\ WorkersOwnLock /\ ReadWhenComplete /\ CopiedFirst
  BY DEF MailInv, Mail!MailNext
<1>1. CASE Mail!MailerLocks
  <2> USE <1>0, <1>1 DEF Mail!MailerLocks, Mail!files, Mail!emacs
  <2>1. MailTypes' /\ Mail!KeepsMail'
    BY DEF MailTypes, Mail!KeepsMail, Places, Mail!Content, Mail!Exists
  <2>2. WorkersOwnLock'
    BY DEF WorkersOwnLock, Mail!MovemailAssumption, Mail!Locked, Mail!NoLock,
       Mail!Fresh
  <2>3. ReadWhenComplete' /\ CopiedFirst'
    BY DEF ReadWhenComplete, CopiedFirst, Copying, Mail!Content, Mail!Exists
  <2> QED BY <2>1, <2>2, <2>3 DEF MailInv
<1>2. CASE Mail!MailerDelivers
  <2> USE <1>0, <1>2 DEF Mail!MailerDelivers, Mail!emacs
  <2>1. lock.owner = Mail!Mailer
        /\ \A m \in Buffers : mover[m] \notin Mail!UnderLock
    BY DEF WorkersOwnLock, Mail!MovemailAssumption
  <2>2. /\ inbox' \in Seq(Nat \ {0})
        /\ Mail!Content(inbox') = Mail!Content(inbox) \cup {sent + 1}
    <3>1. CASE inbox = Mail!Absent
      <4>1. inbox' = <<sent + 1>> /\ sent + 1 \in Nat \ {0}
        BY <3>1 DEF Mail!Exists, MailTypes
      <4>2. Mail!Content(inbox) = {}
        BY <3>1, AbsentIsNone
      <4> QED BY <4>1, <4>2, OneIsThere
    <3>2. CASE inbox \in Seq(Nat \ {0})
      <4>1. Mail!Exists(inbox) /\ sent + 1 \in Nat \ {0}
        BY <3>2, FilesExist DEF MailTypes
      <4>2. inbox' = Append(inbox, sent + 1)
        BY <4>1
      <4> QED BY <3>2, <4>1, <4>2, Appended
    <3> QED BY <3>1, <3>2 DEF MailTypes
  <2>3. MailTypes' /\ Mail!KeepsMail'
    BY <2>2 DEF MailTypes, Mail!KeepsMail, Mail!Content, Mail!Exists
  <2>4. WorkersOwnLock'
    BY <2>1 DEF WorkersOwnLock
  <2>5. ReadWhenComplete' /\ CopiedFirst'
    BY <2>1
       DEF ReadWhenComplete, CopiedFirst, Copying, Mail!Content, Mail!Exists,
       Mail!UnderLock
  <2> QED BY <2>3, <2>4, <2>5 DEF MailInv
<1>3. CASE Mail!MailerUnlocks \/ Mail!MailerDies
  <2> USE <1>0, <1>3 DEF Mail!MailerUnlocks, Mail!MailerDies, Mail!files, Mail!emacs
  <2>1. MailTypes' /\ Mail!KeepsMail'
    BY DEF MailTypes, Mail!KeepsMail, Mail!Content, Mail!Exists
  <2>2. WorkersOwnLock'
    BY DEF WorkersOwnLock, Mail!MovemailAssumption
  <2>3. ReadWhenComplete' /\ CopiedFirst'
    BY DEF ReadWhenComplete, CopiedFirst, Copying, Mail!Content, Mail!Exists
  <2> QED BY <2>1, <2>2, <2>3 DEF MailInv
<1>4. CASE Mail!TimePasses
  <2> USE <1>0, <1>4 DEF Mail!TimePasses, Mail!files, Mail!emacs
  <2>1. MailTypes' /\ Mail!KeepsMail'
    BY DEF MailTypes, Mail!KeepsMail, Mail!Content, Mail!Exists
  <2>2. WorkersOwnLock'
    BY DEF WorkersOwnLock
  <2>3. ReadWhenComplete' /\ CopiedFirst'
    BY DEF ReadWhenComplete, CopiedFirst, Copying, Mail!Content, Mail!Exists
  <2> QED BY <2>1, <2>2, <2>3 DEF MailInv
<1>5. ASSUME NEW m \in Buffers, Mail!LinkLock(m) PROVE MailInv'
  <2> USE <1>0, <1>5 DEF Mail!LinkLock, Mail!Goes, Mail!files, Mail!emacs
  <2>1. MailTypes' /\ Mail!KeepsMail'
    BY DEF MailTypes, Mail!KeepsMail, Mail!Content, Mail!Exists, Places,
       Mail!UnderLock
  <2>2. WorkersOwnLock'
    BY DEF WorkersOwnLock, Mail!MovemailAssumption, MailTypes, Mail!Locked,
       Mail!NoLock, Mail!Fresh, Mail!UnderLock
  <2>3. ReadWhenComplete' /\ CopiedFirst'
    BY DEF ReadWhenComplete, CopiedFirst, Copying, Mail!Content, Mail!Exists,
       MailTypes
  <2> QED BY <2>1, <2>2, <2>3 DEF MailInv
<1>6. ASSUME NEW m \in Buffers, Mail!StatLock(m) PROVE MailInv'
  <2> USE <1>0, <1>6 DEF Mail!StatLock, Mail!Goes, Mail!files, Mail!emacs
  <2>1. MailTypes' /\ Mail!KeepsMail'
    BY DEF MailTypes, Mail!KeepsMail, Mail!Content, Mail!Exists, Places
  <2>2. WorkersOwnLock'
    BY DEF WorkersOwnLock, MailTypes, Mail!UnderLock
  <2>3. ReadWhenComplete' /\ CopiedFirst'
    BY DEF ReadWhenComplete, CopiedFirst, Copying, Mail!Content, Mail!Exists,
       MailTypes
  <2> QED BY <2>1, <2>2, <2>3 DEF MailInv
<1>7. ASSUME NEW m \in Buffers, Mail!BreakLock(m) PROVE MailInv'
  <2> USE <1>0, <1>7 DEF Mail!BreakLock, Mail!Goes, Mail!files, Mail!emacs
  <2>1. MailTypes' /\ Mail!KeepsMail'
    BY DEF MailTypes, Mail!KeepsMail, Mail!Content, Mail!Exists, Places
  <2>2. ASSUME accident' = "none" PROVE WorkersOwnLock'
    <3>1. ~Mail!Owned
      BY <2>2
    <3>2. mailer = "idle" /\ \A w \in Buffers : mover[w] \notin Mail!UnderLock
      BY <3>1 DEF Mail!Owned, WorkersOwnLock
    <3> QED BY <3>2 DEF WorkersOwnLock, MailTypes, Mail!UnderLock
  <2>3. ReadWhenComplete' /\ CopiedFirst'
    BY DEF ReadWhenComplete, CopiedFirst, Copying, Mail!Content, Mail!Exists,
       MailTypes
  <2> QED BY <2>1, <2>2, <2>3 DEF MailInv
<1>8. ASSUME NEW m \in Buffers, Mail!OpenInbox(m) PROVE MailInv'
  <2> USE <1>0, <1>8 DEF Mail!OpenInbox, Mail!Goes, Mail!files, Mail!emacs
  <2>1. MailTypes' /\ Mail!KeepsMail'
    BY DEF MailTypes, Mail!KeepsMail, Mail!Content, Mail!Exists, Places,
       Mail!UnderLock
  <2>2. WorkersOwnLock'
    BY DEF WorkersOwnLock, MailTypes, Mail!UnderLock
  <2>3. ReadWhenComplete' /\ CopiedFirst'
    BY DEF ReadWhenComplete, CopiedFirst, Copying, Mail!Content, Mail!Exists,
       MailTypes
  <2> QED BY <2>1, <2>2, <2>3 DEF MailInv
<1>9. ASSUME NEW m \in Buffers, Mail!CreateNewmail(m) PROVE MailInv'
  <2> USE <1>0, <1>9 DEF Mail!CreateNewmail, Mail!Goes, Mail!emacs
  <2>1. \A w \in Buffers \ {m} : mover[w] \notin Mail!UnderLock
    BY DEF WorkersOwnLock, Mail!UnderLock
  <2>2. CASE Mail!Exists(newmail)
    <3> USE <2>2
    <3>1. MailTypes' /\ Mail!KeepsMail'
      BY DEF MailTypes, Mail!KeepsMail, Mail!Content, Mail!Exists, Places,
         Mail!UnderLock
    <3>2. WorkersOwnLock'
      BY DEF WorkersOwnLock, MailTypes, Mail!UnderLock
    <3>3. ReadWhenComplete' /\ CopiedFirst'
      BY DEF ReadWhenComplete, CopiedFirst, Copying, Mail!Content, Mail!Exists,
         MailTypes
    <3> QED BY <3>1, <3>2, <3>3 DEF MailInv
  <2>3. CASE ~Mail!Exists(newmail)
    <3> USE <2>3, EmptyIsThere
    <3>0. Mail!Content(newmail) = {} /\ newmail' = <<>>
          /\ Mail!Content(newmail') = {}
      BY DEF Mail!Content
    <3>1. MailTypes' /\ Mail!KeepsMail'
      BY <3>0
         DEF MailTypes, Mail!KeepsMail, Mail!Content, Mail!Exists, Places,
         Mail!UnderLock
    <3>2. WorkersOwnLock'
      BY DEF WorkersOwnLock, MailTypes, Mail!UnderLock
    <3>3. ReadWhenComplete'
      BY DEF ReadWhenComplete
    <3>4. Mail!Exists(newmail') /\ Mail!Exists(inbox') /\ Len(newmail') = 0
          /\ Len(inbox') \in Nat
      BY <3>0 DEF CopiedFirst, Mail!Exists, MailTypes
    <3>5. CopiedFirst'
      BY <2>1, <3>0, <3>4 DEF CopiedFirst, MailTypes, Mail!UnderLock
    <3> QED BY <3>1, <3>2, <3>3, <3>5 DEF MailInv
  <2> QED BY <2>2, <2>3
<1>10. ASSUME NEW m \in Buffers, Mail!Copy(m) PROVE MailInv'
  <2> USE <1>0, <1>10 DEF Mail!Copy, Mail!emacs
  <2>1. \A w \in Buffers \ {m} : mover[w] \notin Mail!UnderLock
    BY DEF WorkersOwnLock, Mail!UnderLock
  <2>2. /\ Mail!Exists(inbox) /\ inbox \in Seq(Nat \ {0})
        /\ Mail!Exists(newmail) /\ newmail \in Seq(Nat \ {0})
        /\ \A i \in 1 .. Len(newmail) : newmail[i] = inbox[i]
    BY DEF CopiedFirst, MailTypes, Mail!Exists
  <2> DEFINE n == inbox[Len(newmail) + 1]
  <2>3. n \in Nat \ {0}
    BY <2>2
  <2>4. /\ newmail' = Append(newmail, n) /\ newmail' \in Seq(Nat \ {0})
        /\ Mail!Content(newmail') = Mail!Content(newmail) \cup {n}
        /\ Mail!Exists(newmail')
    BY <2>2, <2>3, Appended, FilesExist
  <2>5. MailTypes' /\ Mail!KeepsMail'
    BY <2>4 DEF MailTypes, Mail!KeepsMail, Mail!Content, Mail!Exists
  <2>6. WorkersOwnLock'
    BY DEF WorkersOwnLock
  <2>7. ReadWhenComplete'
    BY DEF ReadWhenComplete, Copying
  <2>8. /\ Len(newmail') = Len(newmail) + 1 /\ Len(newmail) \in Nat
        /\ \A i \in 1 .. Len(newmail) : newmail'[i] = newmail[i]
        /\ newmail'[Len(newmail) + 1] = n
    BY <2>2, <2>3, <2>4
  <2>9. Len(newmail') <= Len(inbox)
        /\ \A i \in 1 .. Len(newmail') : newmail'[i] = inbox[i]
    BY <2>2, <2>8
  <2>10. CopiedFirst'
    BY <2>1, <2>2, <2>4, <2>9 DEF CopiedFirst, Mail!UnderLock, Mail!Exists
  <2> QED BY <2>5, <2>6, <2>7, <2>10 DEF MailInv
<1>11. ASSUME NEW m \in Buffers, Mail!WriteFails(m) PROVE MailInv'
  <2> USE <1>0, <1>11 DEF Mail!WriteFails, Mail!Goes, Mail!emacs
  <2>1. \A w \in Buffers \ {m} : mover[w] \notin Mail!UnderLock
    BY DEF WorkersOwnLock, Mail!UnderLock
  <2>2. /\ inbox \in Seq(Nat \ {0}) /\ newmail \in Seq(Nat \ {0})
        /\ Len(newmail) <= Len(inbox)
        /\ \A i \in 1 .. Len(newmail) : newmail[i] = inbox[i]
    BY DEF CopiedFirst, MailTypes, Mail!Exists
  <2>3. Mail!Content(newmail) \subseteq Mail!Content(inbox)
    BY <2>2, PrefixHolds
  <2>4. MailTypes' /\ Mail!KeepsMail'
    BY <2>3
       DEF MailTypes, Mail!KeepsMail, Mail!Content, Mail!Exists, Places,
       Mail!UnderLock
  <2>5. WorkersOwnLock'
    BY DEF WorkersOwnLock, MailTypes, Mail!UnderLock
  <2>6. ReadWhenComplete'
    BY DEF ReadWhenComplete, Copying
  <2>7. CopiedFirst'
    BY <2>1 DEF CopiedFirst, MailTypes, Mail!UnderLock
  <2> QED BY <2>4, <2>5, <2>6, <2>7 DEF MailInv
<1>12. ASSUME NEW m \in Buffers, Mail!CloseNewmail(m) PROVE MailInv'
  <2> USE <1>0, <1>12 DEF Mail!CloseNewmail, Mail!Goes, Mail!files, Mail!emacs
  <2>1. /\ inbox \in Seq(Nat \ {0}) /\ newmail \in Seq(Nat \ {0})
        /\ Len(newmail) <= Len(inbox)
        /\ \A i \in 1 .. Len(newmail) : newmail[i] = inbox[i]
    BY DEF CopiedFirst, MailTypes, Mail!Exists
  <2>2. Mail!Content(inbox) \subseteq Mail!Content(newmail)
    BY <2>1, PrefixHolds
  <2>3. MailTypes' /\ Mail!KeepsMail'
    BY DEF MailTypes, Mail!KeepsMail, Mail!Content, Mail!Exists, Places,
       Mail!UnderLock
  <2>4. WorkersOwnLock'
    BY DEF WorkersOwnLock, MailTypes, Mail!UnderLock
  <2>5. ReadWhenComplete'
    BY DEF ReadWhenComplete, Copying, MailTypes
  <2>6. CopiedFirst'
    BY <2>2 DEF CopiedFirst, MailTypes, Mail!Content, Mail!Exists
  <2> QED BY <2>3, <2>4, <2>5, <2>6 DEF MailInv
<1>13. ASSUME NEW m \in Buffers, Mail!ZapInbox(m) PROVE MailInv'
  <2> USE <1>0, <1>13 DEF Mail!ZapInbox, Mail!Goes, Mail!emacs
  <2>1. \A w \in Buffers \ {m} : mover[w] \notin Mail!UnderLock
    BY DEF WorkersOwnLock, Mail!UnderLock
  <2>2. Mail!Content(inbox) \subseteq Mail!Content(newmail) \cup babyl
    BY DEF CopiedFirst
  <2>3. Mail!Content(newmail') = Mail!Content(newmail)
    BY DEF Mail!Content, Mail!Exists
  <2>4. MailTypes' /\ Mail!KeepsMail'
    BY <2>2, <2>3, EmptyIsThere
       DEF MailTypes, Mail!KeepsMail, Places, Mail!UnderLock
  <2>5. WorkersOwnLock'
    BY DEF WorkersOwnLock, MailTypes, Mail!UnderLock
  <2>6. ReadWhenComplete'
    BY <2>3 DEF ReadWhenComplete, Copying, MailTypes, Mail!Exists
  <2>7. CopiedFirst'
    BY <2>1 DEF CopiedFirst, MailTypes, Mail!UnderLock
  <2> QED BY <2>4, <2>5, <2>6, <2>7 DEF MailInv
<1>14. ASSUME NEW m \in Buffers, Mail!Unlock(m) PROVE MailInv'
  <2> USE <1>0, <1>14 DEF Mail!Unlock, Mail!Goes, Mail!files, Mail!emacs
  <2>1. /\ mailer = "idle"
        /\ \A w \in Buffers \ {m} : mover[w] \notin Mail!UnderLock
    BY DEF WorkersOwnLock, Mail!UnderLock, Mail!MovemailAssumption
  <2>2. MailTypes' /\ Mail!KeepsMail'
    BY DEF MailTypes, Mail!KeepsMail, Mail!Content, Mail!Exists, Places
  <2>3. WorkersOwnLock'
    BY <2>1 DEF WorkersOwnLock, MailTypes, Mail!UnderLock
  <2>4. ReadWhenComplete' /\ CopiedFirst'
    BY DEF ReadWhenComplete, CopiedFirst, Copying, Mail!Content, Mail!Exists,
       MailTypes
  <2> QED BY <2>2, <2>3, <2>4 DEF MailInv
<1>15. ASSUME NEW m \in Buffers, Mail!MoverDies(m) PROVE MailInv'
  <2> USE <1>0, <1>15 DEF Mail!MoverDies, Mail!files, Mail!emacs
  <2>1. MailTypes' /\ Mail!KeepsMail'
    BY DEF MailTypes, Mail!KeepsMail, Mail!Content, Mail!Exists, Places
  <2>2. WorkersOwnLock'
    BY DEF WorkersOwnLock, MailTypes, Mail!UnderLock
  <2>3. ReadWhenComplete' /\ CopiedFirst'
    BY DEF ReadWhenComplete, CopiedFirst, Copying, Mail!Content, Mail!Exists,
       MailTypes
  <2> QED BY <2>1, <2>2, <2>3 DEF MailInv
<1>16. CASE Mail!GetNewMail
  <2> USE <1>0, <1>16 DEF Mail!GetNewMail, Mail!Goes, Mail!files
  <2>1. MailTypes' /\ Mail!KeepsMail'
    BY DEF MailTypes, Mail!KeepsMail, Mail!Content, Mail!Exists, Places
  <2>2. WorkersOwnLock'
    BY DEF WorkersOwnLock, MailTypes, Mail!UnderLock
  <2>3. ReadWhenComplete' /\ CopiedFirst'
    BY DEF ReadWhenComplete, CopiedFirst, Mail!Content, Mail!Exists, MailTypes
  <2> QED BY <2>1, <2>2, <2>3 DEF MailInv
<1>17. CASE Mail!MovemailEnds \/ Mail!EmacsStarts
  <2> USE <1>0, <1>17 DEF Mail!MovemailEnds, Mail!EmacsStarts, Mail!files
  <2>1. MailTypes' /\ Mail!KeepsMail'
    BY DEF MailTypes, Mail!KeepsMail, Mail!Content, Mail!Exists
  <2>2. WorkersOwnLock'
    BY DEF WorkersOwnLock
  <2>3. ReadWhenComplete' /\ CopiedFirst'
    BY DEF ReadWhenComplete, CopiedFirst, Mail!Content, Mail!Exists
  <2> QED BY <2>1, <2>2, <2>3 DEF MailInv
<1>18. CASE Mail!Quit
  <2> USE <1>0, <1>18 DEF Mail!Quit, Mail!files
  <2>1. MailTypes' /\ Mail!KeepsMail'
    BY DEF MailTypes, Mail!KeepsMail, Mail!Content, Mail!Exists, Places
  <2>2. WorkersOwnLock'
    BY DEF WorkersOwnLock, MailTypes, Mail!UnderLock
  <2>3. ReadWhenComplete' /\ CopiedFirst'
    BY DEF ReadWhenComplete, CopiedFirst, Mail!Content, Mail!Exists, MailTypes
  <2> QED BY <2>1, <2>2, <2>3 DEF MailInv
<1>19. CASE Mail!InsertNewmail
  <2> USE <1>0, <1>19 DEF Mail!InsertNewmail, Mail!files
  <2>1. MailTypes' /\ Mail!KeepsMail'
    BY DEF MailTypes, Mail!KeepsMail, Mail!Content, Mail!Exists
  <2>2. WorkersOwnLock'
    BY DEF WorkersOwnLock
  <2>3. accident' = "none" => Copying' = {}
    BY DEF Copying
  <2>4. accident' = "none" => ReadWhenComplete'
    BY <2>3 DEF ReadWhenComplete, Mail!Content, Mail!Exists
  <2>5. CopiedFirst'
    BY DEF CopiedFirst, Mail!Content, Mail!Exists
  <2> QED BY <2>1, <2>2, <2>4, <2>5 DEF MailInv
<1>20. CASE Mail!SaveMail
  <2> USE <1>0, <1>20 DEF Mail!SaveMail
  <2>1. Mail!Content(newmail) \subseteq babyl'
    BY EmptyIsThere DEF ReadWhenComplete
  <2>2. babyl \subseteq babyl' /\ Mail!Content(newmail') = Mail!Content(newmail)
        /\ Mail!Content(inbox') = Mail!Content(inbox)
    BY DEF Mail!Content, Mail!Exists
  <2>3. MailTypes' /\ Mail!KeepsMail'
    BY <2>2 DEF MailTypes, Mail!KeepsMail
  <2>4. WorkersOwnLock'
    BY DEF WorkersOwnLock
  <2>5. ReadWhenComplete'
    BY <2>1, <2>2 DEF ReadWhenComplete, Copying, Mail!Exists
  <2>6. CopiedFirst'
    BY <2>2 DEF CopiedFirst, Mail!Exists
  <2> QED BY <2>3, <2>4, <2>5, <2>6 DEF MailInv
<1>21. CASE Mail!SaveFails \/ Mail!EmacsDies
  <2> USE <1>0, <1>21 DEF Mail!SaveFails, Mail!EmacsDies, Mail!files
  <2>1. MailTypes' /\ Mail!KeepsMail'
    BY DEF MailTypes, Mail!KeepsMail, Mail!Content, Mail!Exists
  <2>2. WorkersOwnLock'
    BY DEF WorkersOwnLock
  <2>3. ReadWhenComplete' /\ CopiedFirst'
    BY DEF ReadWhenComplete, CopiedFirst, Mail!Content, Mail!Exists
  <2> QED BY <2>1, <2>2, <2>3 DEF MailInv
<1>22. CASE Mail!DeleteNewmail
  <2> USE <1>0, <1>22 DEF Mail!DeleteNewmail
  <2>1. /\ Mail!Content(newmail) \subseteq babyl /\ Copying = {}
        /\ Mail!Content(inbox') = Mail!Content(inbox)
    BY DEF ReadWhenComplete, Mail!Content, Mail!Exists
  <2>2. MailTypes' /\ Mail!KeepsMail'
    BY <2>1 DEF MailTypes, Mail!KeepsMail
  <2>3. WorkersOwnLock'
    BY DEF WorkersOwnLock
  <2>4. ReadWhenComplete'
    BY DEF ReadWhenComplete
  <2>5. CopiedFirst'
    BY <2>1 DEF CopiedFirst, Copying, Mail!Exists
  <2> QED BY <2>2, <2>3, <2>4, <2>5 DEF MailInv
<1>23. CASE Mail!SaveOrRevert
  <2> USE <1>0, <1>23 DEF Mail!SaveOrRevert
  <2>1. babyl \subseteq babyl' /\ Mail!Content(newmail') = Mail!Content(newmail)
        /\ Mail!Content(inbox') = Mail!Content(inbox)
    BY DEF Mail!Content, Mail!Exists
  <2>2. MailTypes' /\ Mail!KeepsMail'
    BY <2>1 DEF MailTypes, Mail!KeepsMail
  <2>3. WorkersOwnLock'
    BY DEF WorkersOwnLock
  <2>4. ReadWhenComplete'
    BY DEF ReadWhenComplete
  <2>5. CopiedFirst'
    BY <2>1 DEF CopiedFirst, Mail!Exists
  <2> QED BY <2>2, <2>3, <2>4, <2>5 DEF MailInv
<1> QED
  BY <1>1, <1>2, <1>3, <1>4, <1>5, <1>6, <1>7, <1>8, <1>9, <1>10, <1>11, <1>12,
     <1>13, <1>14, <1>15, <1>16, <1>17, <1>18, <1>19, <1>20, <1>21, <1>22, <1>23
     DEF Mail!MailNext

\* Nothing changes while another session is used.
LEMMA MailStays ==
  ASSUME UNCHANGED mailVars, MailInv
  PROVE  MailInv'
<1>1. /\ UNCHANGED <<inbox, newmail, babyl, unsaved, rmail>>
      /\ UNCHANGED <<mover, mailer, sent, lock, accident>>
  BY DEF mailVars
<1>2. MailTypes' /\ Mail!KeepsMail'
  BY <1>1 DEF MailInv, MailTypes, Mail!KeepsMail, Mail!Content, Mail!Exists
<1>3. WorkersOwnLock => WorkersOwnLock'
  BY <1>1 DEF WorkersOwnLock
<1>4. ReadWhenComplete => ReadWhenComplete'
  BY <1>1 DEF ReadWhenComplete, Copying, Mail!Content, Mail!Exists
<1>5. CopiedFirst => CopiedFirst'
  BY <1>1 DEF CopiedFirst, Mail!Content, Mail!Exists
<1> QED BY <1>1, <1>2, <1>3, <1>4, <1>5 DEF MailInv

\* Every message delivered is in the inbox, in ~/.newmail or in the file of
\* Rmail, whoever is killed and whatever write fails, until a lock is taken from
\* a live process or ~/.newmail is read half written (movemail.c, rmail.el).
THEOREM NoMailIsLost == SessionsSpec => []MailIsKept
<1> DEFINE I == session = "mail" => MailInv
<1>1. SessionsInit => I
  BY MailStarts, SessionsAssumption DEF SessionsInit
<1>2. I /\ [SessionsNext]_sessionsVars => I'
  <2> SUFFICES ASSUME I, [SessionsNext]_sessionsVars, session' = "mail"
               PROVE  MailInv'
    OBVIOUS
  <2>1. CASE SessionsNext
    BY <2>1, MailKept, SessionsAssumption DEF SessionsNext
  <2>2. CASE UNCHANGED sessionsVars
    BY <2>2, MailStays DEF sessionsVars
  <2> QED BY <2>1, <2>2
<1>3. I => MailIsKept
  BY DEF MailInv, MailIsKept
<1> QED BY <1>1, <1>2, <1>3, PTL DEF SessionsSpec
-----------------------------------------------------------------------------
(***************************************************************************)
(* Auto-saving.  What do-auto-save believes to have saved is in a file,    *)
(* whether the buffer counts as modified or not.  On the way out nothing   *)
(* but do-auto-save runs: a buffer is still on its list, or is not wanted  *)
(* any more, or has shrunk; so none is left when the list is empty.        *)
(***************************************************************************)
Listed == AutoSave!Listed
Notes == [text : Nat, save_length : BOOLEAN, modiff : Nat, save_modified : Nat,
          auto_save_modified : Nat]

AutoTypes ==
  /\ buf \in [Listed -> Notes] /\ disk \in [Listed -> Nat]
  /\ copy \in [Listed -> Nat]
  /\ todo \in Seq(Listed)
  /\ \A b \in Listed : /\ buf[b].save_modified <= buf[b].modiff
                       /\ buf[b].auto_save_modified <= buf[b].modiff

InFile(b) == buf[b].text \in {disk[b], copy[b]}
Believed(b) == buf[b].auto_save_modified = buf[b].modiff
BelievedInFile == \A b \in Listed : Believed(b) /\ b \notin exposed => InFile(b)

\* What do-auto-save is about to write, or could not, is exposed.
WrittenIsExposed ==
  /\ at \in {"save", "write", "complain", "nap"} => todo # <<>>
  /\ at \in {"write", "complain"} => Head(todo) \in exposed

Waits(list, b) == \E i \in DOMAIN list : list[i] = b
Excused(b) == ~AutoSave!Wanted(buf[b]) \/ AutoSave!Shrunk(b)
WayOut ==
  leaving # "no" =>
    /\ at = "nap" => AutoSave!Shrunk(Head(todo))
    /\ at # "dead"
       => /\ auto_saving /\ at \in {"walk", "write", "nap", "complain"}
          /\ \A b \in Listed : Excused(b) \/ Waits(todo, b)
    /\ at = "dead" /\ ~auto_saving => \A b \in Listed : Excused(b)

AutoInv == AutoTypes /\ BelievedInFile /\ WrittenIsExposed /\ WayOut

\* What do-auto-save takes off its list of buffers.
LEMMA FirstOfList ==
  ASSUME AutoTypes, todo # <<>>
  PROVE  /\ Head(todo) \in Listed /\ Tail(todo) \in Seq(Listed)
         /\ \A b : Waits(todo, b) => b = Head(todo) \/ Waits(Tail(todo), b)
<1> todo \in Seq(Listed)
  BY DEF AutoTypes
<1>1. Head(todo) \in Listed /\ Tail(todo) \in Seq(Listed)
  OBVIOUS
<1>2. ASSUME NEW i \in DOMAIN todo, i # 1
      PROVE  i - 1 \in DOMAIN Tail(todo) /\ Tail(todo)[i - 1] = todo[i]
  BY <1>2
<1>3. Head(todo) = todo[1]
  OBVIOUS
<1> QED BY <1>1, <1>2, <1>3 DEF Waits

\* Auto-saving starts in order.
LEMMA AutoStarts == ASSUME AutoSave!AutoInit PROVE AutoInv
<1>1. AutoTypes
  BY SessionsAssumption
     DEF AutoSave!AutoInit, AutoTypes, AutoSave!AutoSaveAssumption,
     Notes, Listed, AutoSave!Absent
<1> QED
  BY <1>1
     DEF AutoSave!AutoInit, AutoInv, BelievedInFile, InFile, WrittenIsExposed,
     WayOut, Listed

\* Of one buffer: notes that a command may leave.
LEMMA CommandKeeps ==
  ASSUME AutoInv, NEW b \in Listed, NEW n \in Notes, buf' = [buf EXCEPT ![b] = n],
         n.save_modified <= n.modiff, n.auto_save_modified <= n.modiff,
         n.auto_save_modified = n.modiff /\ b \notin exposed
           => n.text \in {disk[b], copy[b]},
         AutoSave!Lisp \/ at = "command",
         UNCHANGED <<disk, copy, at, todo, auto_saving, leaving, exposed>>
  PROVE  AutoInv'
<1>1. /\ buf \in [Listed -> Notes]
      /\ buf' \in [Listed -> Notes] /\ buf'[b] = n
      /\ \A c \in Listed \ {b} : buf'[c] = buf[c]
  BY DEF AutoInv, AutoTypes
<1>2. AutoTypes'
  BY <1>1 DEF AutoInv, AutoTypes
<1>3. BelievedInFile'
  BY <1>1 DEF AutoInv, BelievedInFile, Believed, InFile
<1>4. WrittenIsExposed'
  BY DEF AutoInv, WrittenIsExposed
<1>5. leaving = "no"
  BY DEF AutoInv, WayOut, AutoSave!Lisp
<1>6. WayOut'
  BY <1>5 DEF WayOut
<1> QED BY <1>2, <1>3, <1>4, <1>6 DEF AutoInv

\* What assignments to the notes of a buffer do.
AfterEdit(r, i, j) == [r EXCEPT !.modiff = i, !.text = j]
AfterSubst(r, i, j, k) ==
  [r EXCEPT !.modiff = i, !.save_modified = j, !.auto_save_modified = k]
AfterSave(r, i, flag) == [r EXCEPT !.save_modified = i, !.save_length = flag]
AfterAutoSave(r, i, flag) == [r EXCEPT !.auto_save_modified = i, !.save_length = flag]

\* What a change notes in the buffer (MODIFF, insdel.c).
LEMMA NotingEdit ==
  ASSUME NEW r \in Notes, NEW i \in Nat, NEW j \in Nat
  PROVE  /\ AfterEdit(r, i, j) \in Notes
         /\ AfterEdit(r, i, j).modiff = i
         /\ AfterEdit(r, i, j).save_modified = r.save_modified
         /\ AfterEdit(r, i, j).auto_save_modified = r.auto_save_modified
BY DEF Notes, AfterEdit

\* What subst-char-in-region notes (editfns.c).
LEMMA NotingSubst ==
  ASSUME NEW r \in Notes, NEW i, NEW j, NEW k, i \in Nat, j \in Nat, k \in Nat
  PROVE  /\ AfterSubst(r, i, j, k) \in Notes
         /\ AfterSubst(r, i, j, k).modiff = i
         /\ AfterSubst(r, i, j, k).text = r.text
         /\ AfterSubst(r, i, j, k).save_modified = j
         /\ AfterSubst(r, i, j, k).auto_save_modified = k
BY DEF Notes, AfterSubst

\* What set-buffer-modified-p and a save note (buffer.c, fileio.c).
LEMMA NotingSave ==
  ASSUME NEW r \in Notes, NEW i \in Nat, NEW flag \in BOOLEAN
  PROVE  /\ AfterSave(r, i, flag) \in Notes
         /\ AfterSave(r, i, flag).modiff = r.modiff
         /\ AfterSave(r, i, flag).text = r.text
         /\ AfterSave(r, i, flag).save_modified = i
         /\ AfterSave(r, i, flag).auto_save_modified = r.auto_save_modified
BY DEF Notes, AfterSave

\* What do-auto-save notes of the buffer it has done (fileio.c).
LEMMA NotingAutoSave ==
  ASSUME NEW r \in Notes, NEW i \in Nat, NEW flag \in BOOLEAN
  PROVE  /\ AfterAutoSave(r, i, flag) \in Notes
         /\ AfterAutoSave(r, i, flag).modiff = r.modiff
         /\ AfterAutoSave(r, i, flag).text = r.text
         /\ AfterAutoSave(r, i, flag).save_modified = r.save_modified
         /\ AfterAutoSave(r, i, flag).auto_save_modified = i
BY DEF Notes, AfterAutoSave

\* Commands on a buffer, before leaving.
LEMMA CommandsKeep ==
  ASSUME AutoInv, NEW b \in Listed,
         \/ AutoSave!Change(b) \/ AutoSave!SubstChar(b) \/ AutoSave!Visit(b)
         \/ \E flag \in BOOLEAN : AutoSave!SetBufferModified(b, flag)
  PROVE  AutoInv'
<1>1. /\ buf \in [Listed -> Notes] /\ buf[b] \in Notes /\ disk[b] \in Nat
      /\ buf[b].modiff \in Nat /\ buf[b].save_modified \in Nat
      /\ buf[b].auto_save_modified \in Nat /\ buf[b].text \in Nat
      /\ buf[b].save_length \in BOOLEAN
      /\ buf[b].save_modified <= buf[b].modiff
      /\ buf[b].auto_save_modified <= buf[b].modiff
  BY DEF AutoInv, AutoTypes, Notes
<1>2. Believed(b) /\ b \notin exposed => InFile(b)
  BY DEF AutoInv, BelievedInFile
<1>3. CASE AutoSave!Change(b)
  <2> DEFINE m == buf[b].modiff + 1
             n == AfterEdit(buf[b], m, m)
  <2>1. buf' = [buf EXCEPT ![b] = n]
    BY <1>1, <1>3 DEF AutoSave!Change, AfterEdit
  <2>2. n \in Notes /\ n.modiff = m
        /\ n.save_modified = buf[b].save_modified
        /\ n.auto_save_modified = buf[b].auto_save_modified
    <3>1. m \in Nat /\ buf[b] \in Notes
      BY <1>1
    <3> HIDE DEF m
    <3> QED BY <3>1, NotingEdit
  <2>3. n.save_modified <= n.modiff /\ n.auto_save_modified < n.modiff
        /\ n.auto_save_modified # n.modiff
    BY <1>1, <2>2
  <2>4. AutoSave!Lisp
        /\ UNCHANGED <<disk, copy, at, todo, auto_saving, leaving, exposed>>
    BY <1>3 DEF AutoSave!Change, AutoSave!files, AutoSave!place
  <2>5. n.auto_save_modified <= n.modiff
        /\ (n.auto_save_modified = n.modiff /\ b \notin exposed
              => n.text \in {disk[b], copy[b]})
    BY <1>1, <2>2
  <2>6. n \in Notes /\ n.save_modified <= n.modiff
    BY <2>2, <2>3
  <2> HIDE DEF n
  <2> QED BY <2>1, <2>4, <2>5, <2>6, CommandKeeps
<1>4. CASE AutoSave!SubstChar(b)
  <2> DEFINE m == buf[b].modiff
             Up(x) == IF x = m THEN m + 1 ELSE x
             i == m + 1
             j == Up(buf[b].save_modified)
             k == Up(buf[b].auto_save_modified)
             n == AfterSubst(buf[b], i, j, k)
  <2>1. buf' = [buf EXCEPT ![b] = n]
    BY <1>1, <1>4 DEF AutoSave!SubstChar, AfterSubst
  <2>2. n \in Notes /\ n.modiff = i /\ n.save_modified = j
        /\ n.auto_save_modified = k
        /\ n.text = buf[b].text
    <3>1. i \in Nat /\ j \in Nat /\ k \in Nat /\ buf[b] \in Notes
      BY <1>1
    <3> HIDE DEF i, j, k
    <3> QED BY <3>1, NotingSubst
  <2>3. n.save_modified <= n.modiff /\ n.auto_save_modified <= n.modiff
        /\ (n.auto_save_modified = n.modiff => Believed(b))
    BY <1>1, <2>2 DEF Believed
  <2> HIDE DEF n
  <2>4. n.auto_save_modified = n.modiff /\ b \notin exposed
          => n.text \in {disk[b], copy[b]}
    BY <1>2, <2>2, <2>3 DEF InFile
  <2> HIDE DEF n
  <2> QED BY <1>4, <2>1, <2>2, <2>3, <2>4, CommandKeeps
             DEF AutoSave!SubstChar, AutoSave!files, AutoSave!place
<1>5. CASE AutoSave!Visit(b)
  <2> DEFINE m == buf[b].modiff + 1
             n == [text |-> disk[b],
                   save_length |-> <<b, disk[b]>> \in Large,
                   modiff |-> m, save_modified |-> m, auto_save_modified |-> m]
  <2>1. buf' = [buf EXCEPT ![b] = n]
    BY <1>5 DEF AutoSave!Visit
  <2>2. n \in Notes
    BY <1>1 DEF Notes
  <2>3. n.save_modified <= n.modiff /\ n.auto_save_modified <= n.modiff
        /\ n.text \in {disk[b], copy[b]}
    BY <1>1
  <2>4. at = "command"
        /\ UNCHANGED <<disk, copy, at, todo, auto_saving, leaving, exposed>>
    BY <1>5 DEF AutoSave!Visit, AutoSave!files, AutoSave!place
  <2> HIDE DEF n
  <2> QED BY <2>1, <2>2, <2>3, <2>4, CommandKeeps
<1>6. ASSUME NEW flag \in BOOLEAN, AutoSave!SetBufferModified(b, flag)
      PROVE  AutoInv'
  <2> DEFINE n == [buf[b] EXCEPT !.save_modified = IF flag THEN 0 ELSE buf[b].modiff]
  <2>1. buf' = [buf EXCEPT ![b] = n]
    BY <1>1, <1>6 DEF AutoSave!SetBufferModified
  <2>2. n \in Notes /\ n.modiff = buf[b].modiff /\ n.save_modified <= n.modiff
        /\ n.auto_save_modified = buf[b].auto_save_modified
        /\ n.text = buf[b].text
    BY <1>1 DEF Notes
  <2>3. n.auto_save_modified <= n.modiff
        /\ (n.auto_save_modified = n.modiff /\ b \notin exposed
              => n.text \in {disk[b], copy[b]})
    BY <1>1, <1>2, <2>2 DEF Believed, InFile
  <2>4. AutoSave!Lisp
        /\ UNCHANGED <<disk, copy, at, todo, auto_saving, leaving, exposed>>
    BY <1>6 DEF AutoSave!SetBufferModified, AutoSave!files, AutoSave!place
  <2> HIDE DEF n
  <2> QED BY <2>1, <2>2, <2>3, <2>4, CommandKeeps
<1> QED BY <1>3, <1>4, <1>5, <1>6

\* A save empties the file first: a text that is only there is exposed.
LEMMA SavesKeep ==
  ASSUME AutoInv,
         \/ \E b \in Listed : AutoSave!BeginSave(b)
            \/ AutoSave!DeleteAutoSaveFile(b)
         \/ AutoSave!Save
  PROVE  AutoInv'
<1>1. /\ AutoTypes /\ buf \in [Listed -> Notes] /\ todo \in Seq(Listed)
      /\ disk \in [Listed -> Nat] /\ copy \in [Listed -> Nat]
      /\ \A c \in Listed : /\ buf[c].modiff \in Nat /\ buf[c].text \in Nat
                           /\ buf[c].save_modified \in Nat
                           /\ buf[c].auto_save_modified \in Nat
                           /\ buf[c].save_modified <= buf[c].modiff
                           /\ buf[c].auto_save_modified <= buf[c].modiff
                           /\ Believed(c) /\ c \notin exposed => InFile(c)
  BY DEF AutoInv, AutoTypes, Notes, BelievedInFile
<1>2. AutoSave!Spoilt \in Nat /\ AutoSave!Absent \in Nat
  BY SessionsAssumption
     DEF AutoSave!AutoSaveAssumption, AutoSave!Spoilt, AutoSave!Absent
<1>3. ASSUME NEW b \in Listed, AutoSave!BeginSave(b) PROVE AutoInv'
  <2>1. leaving = "no" /\ leaving' = "no" /\ UNCHANGED <<buf, copy>>
        /\ at' = "save"
        /\ todo' = <<b>> /\ disk' = [disk EXCEPT ![b] = AutoSave!Spoilt]
        /\ exposed' = IF disk[b] = buf[b].text /\ copy[b] # buf[b].text
                      THEN exposed \cup {b} ELSE exposed
    BY <1>3 DEF AutoSave!BeginSave, AutoInv, WayOut
  <2>2. AutoTypes'
    BY <1>1, <1>2, <2>1 DEF AutoTypes
  <2>3. BelievedInFile'
    <3> SUFFICES ASSUME NEW c \in Listed, Believed(c)', c \notin exposed'
                 PROVE  InFile(c)'
      BY DEF BelievedInFile
    <3>1. Believed(c) /\ c \notin exposed
      BY <2>1 DEF Believed
    <3>2. InFile(c)
      BY <1>1, <3>1
    <3>3. c = b => copy[c] = buf[c].text
      BY <2>1, <3>2 DEF InFile
    <3> QED BY <1>1, <2>1, <3>2, <3>3 DEF InFile
  <2>4. WrittenIsExposed' /\ WayOut'
    BY <2>1 DEF WrittenIsExposed, WayOut
  <2> QED BY <2>2, <2>3, <2>4 DEF AutoInv
<1>4. ASSUME NEW b \in Listed, AutoSave!DeleteAutoSaveFile(b) PROVE AutoInv'
  <2>1. /\ leaving = "no" /\ UNCHANGED <<disk, leaving, at, todo>>
        /\ at = "command"
        /\ disk[b] = buf[b].text /\ exposed' = exposed \ {b}
        /\ copy' = [copy EXCEPT ![b] = AutoSave!Absent]
        /\ buf' = [buf EXCEPT ![b].auto_save_modified = buf[b].modiff,
                              ![b].save_length = AutoSave!IsLarge(b)]
    BY <1>4 DEF AutoSave!DeleteAutoSaveFile, AutoSave!place, AutoInv, WayOut
  <2> DEFINE n == AfterAutoSave(buf[b], buf[b].modiff, AutoSave!IsLarge(b))
  <2>c. buf' = [buf EXCEPT ![b] = n]
    BY <1>1, <2>1 DEF AfterAutoSave
  <2>d. AutoSave!IsLarge(b) \in BOOLEAN
    BY DEF AutoSave!IsLarge
  <2>a. /\ n \in Notes
        /\ n.modiff = buf[b].modiff /\ n.text = buf[b].text
        /\ n.save_modified = buf[b].save_modified
        /\ n.auto_save_modified = buf[b].modiff
    <3> buf[b] \in Notes
      BY <1>1 DEF AutoTypes
    <3> buf[b].modiff \in Nat
      BY DEF Notes
    <3> QED BY <2>d, NotingAutoSave
  <2> HIDE DEF n
  <2>b. /\ buf' \in [Listed -> Notes] /\ buf'[b] = n
        /\ \A c \in Listed \ {b} : buf'[c] = buf[c] /\ copy'[c] = copy[c]
    BY <1>1, <2>1, <2>a, <2>c
  <2>2. AutoTypes'
    <3>1. \A c \in Listed : /\ buf'[c].save_modified <= buf'[c].modiff
                            /\ buf'[c].auto_save_modified <= buf'[c].modiff
      <4> SUFFICES ASSUME NEW c \in Listed
                   PROVE  /\ buf'[c].save_modified <= buf'[c].modiff
                          /\ buf'[c].auto_save_modified <= buf'[c].modiff
        OBVIOUS
      <4>1. CASE c = b
        <5> buf[b].modiff \in Nat /\ buf[b].save_modified <= buf[b].modiff
          BY <1>1
        <5> QED BY <2>a, <2>b, <4>1
      <4>2. CASE c # b
        BY <1>1, <2>b, <4>2
      <4> QED BY <4>1, <4>2
    <3>2. disk' \in [Listed -> Nat] /\ copy' \in [Listed -> Nat]
          /\ todo' \in Seq(Listed)
      BY <1>1, <1>2, <2>1
    <3> QED BY <2>b, <3>1, <3>2 DEF AutoTypes
  <2>3. BelievedInFile'
    BY <1>1, <2>1, <2>a, <2>b DEF BelievedInFile, Believed, InFile
  <2>4. WrittenIsExposed' /\ WayOut'
    BY <2>1 DEF AutoInv, WrittenIsExposed, WayOut
  <2> QED BY <2>2, <2>3, <2>4 DEF AutoInv
<1>5. ASSUME AutoSave!Save PROVE AutoInv'
  <2> DEFINE b == Head(todo)
  <2>1. /\ leaving = "no" /\ UNCHANGED <<copy, leaving>> /\ at' = "command"
        /\ todo' = <<>>
        /\ \/ /\ disk' = [disk EXCEPT ![b] = buf[b].text]
              /\ buf' = [buf EXCEPT ![b].save_modified = buf[b].modiff,
                                    ![b].save_length = AutoSave!IsLarge(b)]
              /\ exposed' = exposed \ {b}
           \/ UNCHANGED <<disk, buf, exposed>>
    BY <1>5 DEF AutoSave!Save, AutoSave!Here, AutoInv, WayOut
  <2>2. b \in Listed
    BY <1>1, <1>5, FirstOfList DEF AutoSave!Save, AutoInv, WrittenIsExposed
  <2> DEFINE n == AfterSave(buf[b], buf[b].modiff, AutoSave!IsLarge(b))
  <2> HIDE DEF b
  <2>a. n \in Notes /\ n.modiff = buf[b].modiff /\ n.text = buf[b].text
        /\ n.save_modified = buf[b].modiff
        /\ n.auto_save_modified = buf[b].auto_save_modified
    <3> AutoSave!IsLarge(b) \in BOOLEAN
      BY DEF AutoSave!IsLarge
    <3> buf[b] \in Notes
      BY <1>1, <2>2 DEF AutoTypes
    <3> buf[b].modiff \in Nat
      BY DEF Notes
    <3> QED BY NotingSave
  <2>b. /\ buf' \in [Listed -> Notes] /\ disk' \in [Listed -> Nat]
        /\ \A c \in Listed \ {b} : buf'[c] = buf[c] /\ disk'[c] = disk[c]
        /\ \/ disk'[b] = buf[b].text /\ buf'[b] = n /\ exposed' = exposed \ {b}
           \/ UNCHANGED <<disk, buf, exposed>>
    <3>1. CASE UNCHANGED <<disk, buf, exposed>>
      BY <1>1, <3>1
    <3>2. CASE /\ disk' = [disk EXCEPT ![b] = buf[b].text]
               /\ buf' = [buf EXCEPT ![b].save_modified = buf[b].modiff,
                                     ![b].save_length = AutoSave!IsLarge(b)]
               /\ exposed' = exposed \ {b}
      <4>1. buf' = [buf EXCEPT ![b] = n]
        BY <1>1, <2>2, <3>2 DEF AfterSave
      <4> HIDE DEF n
      <4> QED BY <1>1, <2>2, <2>a, <3>2, <4>1
    <3> QED BY <2>1, <3>1, <3>2
  <2> HIDE DEF n
  <2>3. AutoTypes'
    <3>1. \A c \in Listed : /\ buf'[c].save_modified <= buf'[c].modiff
                            /\ buf'[c].auto_save_modified <= buf'[c].modiff
      <4>1. CASE UNCHANGED <<disk, buf, exposed>>
        BY <1>1, <4>1
      <4>2. CASE buf'[b] = n
        BY <1>1, <2>2, <2>a, <2>b, <4>2
      <4> QED BY <2>b, <4>1, <4>2
    <3>2. copy' \in [Listed -> Nat] /\ todo' \in Seq(Listed)
      BY <1>1, <2>1
    <3> QED BY <2>b, <3>1, <3>2 DEF AutoTypes
  <2>4. BelievedInFile'
    BY <1>1, <2>1, <2>2, <2>a, <2>b DEF BelievedInFile, Believed, InFile
  <2>5. WrittenIsExposed' /\ WayOut'
    BY <2>1 DEF WrittenIsExposed, WayOut
  <2> QED BY <2>3, <2>4, <2>5 DEF AutoInv
<1> QED BY <1>3, <1>4, <1>5

\* do-auto-save goes to the next buffer on its list.
LEMMA WalkGoesOn ==
  ASSUME AutoInv, todo # <<>>, at' = "walk", todo' = Tail(todo),
         UNCHANGED <<buf, disk, copy, auto_saving, leaving, exposed>>,
         at \in {"walk", "write", "nap", "complain"},
         leaving # "no" => Excused(Head(todo))
  PROVE  AutoInv'
<1>1. /\ Tail(todo) \in Seq(Listed)
      /\ \A b : Waits(todo, b) => b = Head(todo) \/ Waits(Tail(todo), b)
  BY FirstOfList DEF AutoInv
<1>2. AutoTypes' /\ BelievedInFile' /\ WrittenIsExposed'
  BY <1>1
     DEF AutoInv, AutoTypes, BelievedInFile, Believed, InFile, WrittenIsExposed
<1>3. WayOut'
  <2> SUFFICES ASSUME leaving # "no"
               PROVE  auto_saving /\ \A b \in Listed : Excused(b)'
                      \/ Waits(Tail(todo), b)
    BY DEF WayOut
  <2>1. auto_saving /\ \A b \in Listed : Excused(b) \/ Waits(todo, b)
    BY DEF AutoInv, WayOut
  <2>2. \A b : Excused(b)' <=> Excused(b)
    BY DEF Excused, AutoSave!Shrunk, AutoSave!IsLarge
  <2> QED BY <1>1, <2>1, <2>2
<1> QED BY <1>2, <1>3 DEF AutoInv

\* do-auto-save may take a buffer for saved once its text is in the file,
\* or once it has complained of it.
LEMMA NotesAndGoesOn ==
  ASSUME AutoInv, todo # <<>>, AutoSave!NoteAndGoOn,
         at \in {"write", "complain"},
         UNCHANGED <<disk, auto_saving, leaving>>,
         \/ UNCHANGED <<copy, exposed>> /\ Head(todo) \in exposed
         \/ /\ copy' = [copy EXCEPT ![Head(todo)] = buf[Head(todo)].text]
            /\ exposed' = exposed \ {Head(todo)}
  PROVE  AutoInv'
<1> DEFINE h == Head(todo)
<1>0. /\ Tail(todo) \in Seq(Listed) /\ h \in Listed
      /\ \A b : Waits(todo, b) => b = h \/ Waits(Tail(todo), b)
  BY FirstOfList DEF AutoInv
<1>1. /\ AutoTypes /\ buf \in [Listed -> Notes]
      /\ disk \in [Listed -> Nat] /\ copy \in [Listed -> Nat]
      /\ \A c \in Listed : /\ buf[c] \in Notes /\ buf[c].text \in Nat
                           /\ buf[c].modiff \in Nat
                           /\ buf[c].save_modified \in Nat
                           /\ buf[c].save_modified <= buf[c].modiff
                           /\ Believed(c) /\ c \notin exposed => InFile(c)
  BY DEF AutoInv, AutoTypes, Notes, BelievedInFile
<1>2. /\ at' = "walk" /\ todo' = Tail(todo)
      /\ UNCHANGED <<disk, auto_saving, leaving>>
      /\ buf' = [buf EXCEPT ![h].auto_save_modified = buf[h].modiff,
                            ![h].save_length = AutoSave!IsLarge(h)]
      /\ \/ UNCHANGED <<copy, exposed>> /\ h \in exposed
         \/ copy' = [copy EXCEPT ![h] = buf[h].text] /\ exposed' = exposed \ {h}
  BY DEF AutoSave!NoteAndGoOn, AutoSave!Here
<1>3. leaving # "no"
      => auto_saving /\ \A b \in Listed : Excused(b) \/ Waits(todo, b)
  BY DEF AutoInv, WayOut
<1> HIDE DEF h
<1>4. /\ buf' \in [Listed -> Notes] /\ buf'[h].text = buf[h].text
      /\ buf'[h].modiff = buf[h].modiff
      /\ buf'[h].auto_save_modified = buf[h].modiff
      /\ buf'[h].save_modified = buf[h].save_modified
      /\ \A c \in Listed \ {h} : buf'[c] = buf[c]
  <2> DEFINE n == AfterAutoSave(buf[h], buf[h].modiff, AutoSave!IsLarge(h))
  <2>1. n \in Notes /\ n.modiff = buf[h].modiff /\ n.text = buf[h].text
        /\ n.save_modified = buf[h].save_modified
        /\ n.auto_save_modified = buf[h].modiff
    <3> AutoSave!IsLarge(h) \in BOOLEAN
      BY DEF AutoSave!IsLarge
    <3> buf[h] \in Notes /\ buf[h].modiff \in Nat
      BY <1>0, <1>1
    <3> QED BY NotingAutoSave
  <2>2. buf' = [buf EXCEPT ![h] = n]
    BY <1>0, <1>1, <1>2 DEF AfterAutoSave
  <2> HIDE DEF n
  <2> QED BY <1>0, <1>1, <2>1, <2>2
<1>5. AutoTypes'
  <2>1. \A c \in Listed : /\ buf'[c].save_modified <= buf'[c].modiff
                          /\ buf'[c].auto_save_modified <= buf'[c].modiff
    <3>1. \A c \in Listed : /\ buf[c].save_modified <= buf[c].modiff
                            /\ buf[c].auto_save_modified <= buf[c].modiff
                            /\ buf[c].modiff \in Nat
      BY <1>1 DEF AutoTypes
    <3> QED BY <1>0, <1>4, <3>1
  <2>2. disk' \in [Listed -> Nat] /\ copy' \in [Listed -> Nat]
        /\ todo' \in Seq(Listed)
    BY <1>0, <1>1, <1>2
  <2> QED BY <1>4, <2>1, <2>2 DEF AutoTypes
<1>6. BelievedInFile'
  <2> SUFFICES ASSUME NEW c \in Listed, Believed(c)', c \notin exposed'
               PROVE  InFile(c)'
    BY DEF BelievedInFile
  <2>1. CASE c = h
    BY <1>0, <1>1, <1>2, <1>4, <2>1 DEF InFile, BelievedInFile, Believed
  <2>2. CASE c # h
    BY <1>0, <1>1, <1>2, <1>4, <2>2 DEF BelievedInFile, Believed, InFile
  <2> QED BY <2>1, <2>2
<1>7. WayOut'
  <2> SUFFICES ASSUME leaving # "no", NEW b \in Listed
               PROVE  Excused(b)' \/ Waits(Tail(todo), b)
    BY <1>2, <1>3 DEF WayOut
  <2>1. CASE b = h
    BY <1>1, <1>4, <2>1 DEF Excused, AutoSave!Wanted
  <2>2. CASE b # h
    BY <1>0, <1>3, <1>4, <2>2 DEF Excused, AutoSave!Shrunk, AutoSave!IsLarge
  <2> QED BY <2>1, <2>2
<1>8. WrittenIsExposed'
  BY <1>2 DEF WrittenIsExposed
<1> QED BY <1>5, <1>6, <1>7, <1>8 DEF AutoInv

\* The list is gone through from its beginning, nothing else having changed.
LEMMA Begins ==
  ASSUME AutoInv, AutoSave!Begin, UNCHANGED <<buf, disk, copy, exposed>>
  PROVE  AutoInv'
<1>1. at' = "walk" /\ todo' = BufferList /\ auto_saving' = TRUE
  BY DEF AutoSave!Begin
<1>2. BufferList \in Seq(Listed)
  BY SessionsAssumption DEF AutoSave!AutoSaveAssumption, Listed
<1>3. \A b \in Listed : Waits(BufferList, b)
  BY DEF Waits, Listed, AutoSave!Listed
<1>4. AutoTypes' /\ BelievedInFile' /\ WrittenIsExposed'
  BY <1>1, <1>2
     DEF AutoInv, AutoTypes, BelievedInFile, Believed, InFile, WrittenIsExposed
<1>5. WayOut'
  BY <1>1, <1>3 DEF WayOut
<1> QED BY <1>4, <1>5 DEF AutoInv

\* Ways into do-auto-save and out of it; leaving goes through it once more.
LEMMA Leaves ==
  ASSUME AutoInv,
         \/ AutoSave!DoAutoSave \/ AutoSave!KillEmacs \/ AutoSave!FatalSignal
         \/ AutoSave!Quit \/ AutoSave!Finish \/ AutoSave!Crash
  PROVE  AutoInv'
<1>1. AutoTypes /\ BelievedInFile /\ WrittenIsExposed /\ WayOut
  BY DEF AutoInv
<1>2. CASE AutoSave!DoAutoSave
  BY <1>2, Begins DEF AutoSave!DoAutoSave, AutoSave!files
<1>3. CASE AutoSave!KillEmacs
  BY <1>3, Begins DEF AutoSave!KillEmacs, AutoSave!files
<1>4. CASE AutoSave!FatalSignal
  <2>1. CASE fatal
    <3>1. /\ at # "dead" /\ at' = "dead"
          /\ UNCHANGED <<buf, disk, copy, todo, auto_saving, leaving, exposed>>
      BY <1>4, <2>1 DEF AutoSave!FatalSignal, AutoSave!files
    <3>2. AutoTypes' /\ BelievedInFile' /\ WrittenIsExposed'
      BY <1>1, <3>1
         DEF AutoTypes, BelievedInFile, Believed, InFile, WrittenIsExposed
    <3>3. WayOut'
      BY <1>1, <3>1 DEF WayOut
    <3> QED BY <3>2, <3>3 DEF AutoInv
  <2>2. CASE ~fatal
    BY <1>4, <2>2, Begins DEF AutoSave!FatalSignal, AutoSave!files
  <2> QED BY <2>1, <2>2
<1>5. CASE AutoSave!Quit \/ AutoSave!Crash
  <2>1. /\ leaving' = "no" /\ at' \in {"command", "dead"}
        /\ todo' \in {todo, <<>>}
        /\ UNCHANGED <<buf, disk, copy, exposed>>
    BY <1>5 DEF AutoSave!Quit, AutoSave!Crash, AutoSave!files
  <2>a. todo' \in Seq(Listed)
    <3>1. <<>> \in Seq(Listed) /\ todo \in Seq(Listed)
      BY <1>1 DEF AutoTypes
    <3> QED BY <2>1, <3>1
  <2>2. AutoTypes' /\ BelievedInFile' /\ WrittenIsExposed'
    BY <1>1, <2>1, <2>a
       DEF AutoTypes, BelievedInFile, Believed, InFile, WrittenIsExposed
  <2>3. WayOut'
    BY <2>1 DEF WayOut
  <2> QED BY <2>2, <2>3 DEF AutoInv
<1>6. CASE AutoSave!Finish
  <2>1. /\ at = "walk" /\ todo = <<>> /\ ~auto_saving'
        /\ at' = IF leaving = "no" THEN "command" ELSE "dead"
        /\ UNCHANGED <<buf, disk, copy, todo, leaving, exposed>>
    BY <1>6 DEF AutoSave!Finish, AutoSave!files
  <2>2. AutoTypes' /\ BelievedInFile' /\ WrittenIsExposed'
    BY <1>1, <2>1
       DEF AutoTypes, BelievedInFile, Believed, InFile, WrittenIsExposed
  <2>3. ASSUME leaving # "no", NEW b \in Listed PROVE Excused(b)'
    <3>1. Excused(b) \/ Waits(<<>>, b)
      BY <1>1, <2>1, <2>3 DEF WayOut
    <3> QED BY <2>1, <3>1 DEF Waits, Excused, AutoSave!Shrunk, AutoSave!IsLarge
  <2>4. WayOut'
    BY <2>1, <2>3 DEF WayOut
  <2> QED BY <2>2, <2>4 DEF AutoInv
<1> QED BY <1>2, <1>3, <1>4, <1>5, <1>6

\* What do-auto-save does with the first buffer of its list.
LEMMA WalkKeeps ==
  ASSUME AutoInv,
         \/ AutoSave!Skip \/ AutoSave!SleepForShrunk \/ AutoSave!NapOver
         \/ AutoSave!BeginWrite \/ AutoSave!Write \/ AutoSave!Complained
  PROVE  AutoInv'
<1>1. AutoTypes /\ BelievedInFile /\ WrittenIsExposed /\ WayOut
  BY DEF AutoInv
<1> USE DEF AutoSave!Here
<1>2. CASE AutoSave!Skip
  BY <1>2, WalkGoesOn DEF AutoSave!Skip, AutoSave!files, Excused
<1>3. CASE AutoSave!SleepForShrunk
  <2>1. /\ at = "walk" /\ at' = "nap" /\ todo # <<>>
        /\ AutoSave!Shrunk(Head(todo))
        /\ UNCHANGED <<buf, disk, copy, todo, auto_saving, leaving, exposed>>
    BY <1>3 DEF AutoSave!SleepForShrunk, AutoSave!files
  <2>2. AutoTypes' /\ BelievedInFile' /\ WrittenIsExposed'
    BY <1>1, <2>1
       DEF AutoTypes, BelievedInFile, Believed, InFile, WrittenIsExposed
  <2>3. WayOut'
    <3>1. \A b : (AutoSave!Shrunk(b)' <=> AutoSave!Shrunk(b))
          /\ (Excused(b)' <=> Excused(b))
      BY <2>1 DEF Excused, AutoSave!Shrunk, AutoSave!IsLarge
    <3> QED BY <1>1, <2>1, <3>1 DEF WayOut
  <2> QED BY <2>2, <2>3 DEF AutoInv
<1>4. CASE AutoSave!NapOver
  <2>1. at = "nap" /\ todo # <<>> /\ (leaving # "no" => Excused(Head(todo)))
    BY <1>1, <1>4 DEF AutoSave!NapOver, WrittenIsExposed, WayOut, Excused
  <2> QED BY <1>4, <2>1, WalkGoesOn DEF AutoSave!NapOver, AutoSave!files
<1>5. CASE AutoSave!BeginWrite
  <2> DEFINE h == Head(todo)
  <2>1. /\ at = "walk" /\ at' \in {"write", "complain"} /\ todo # <<>>
        /\ AutoSave!Wanted(buf[h]) /\ ~AutoSave!Shrunk(h)
        /\ exposed' = exposed \cup {h}
        /\ copy' \in {copy, [copy EXCEPT ![h] = AutoSave!Spoilt]}
        /\ UNCHANGED <<buf, disk, todo, auto_saving, leaving>>
    BY <1>5 DEF AutoSave!BeginWrite
  <2>2. h \in Listed /\ AutoSave!Spoilt \in Nat
    BY <1>1, <2>1, FirstOfList, SessionsAssumption
       DEF AutoSave!AutoSaveAssumption, AutoSave!Spoilt
  <2>3. WrittenIsExposed'
    BY <2>1 DEF WrittenIsExposed
  <2> HIDE DEF h
  <2>4. /\ copy' \in [Listed -> Nat]
        /\ \A c \in Listed \ {h} : copy'[c] = copy[c]
    BY <1>1, <2>1, <2>2 DEF AutoTypes
  <2>5. AutoTypes'
    BY <1>1, <2>1, <2>4 DEF AutoTypes
  <2>6. BelievedInFile'
    BY <1>1, <2>1, <2>4 DEF BelievedInFile, Believed, InFile
  <2>7. WayOut'
    <3>1. \A b : Excused(b)' <=> Excused(b)
      BY <2>1 DEF Excused, AutoSave!Shrunk, AutoSave!IsLarge
    <3> QED BY <1>1, <2>1, <3>1 DEF WayOut
  <2> QED BY <2>3, <2>5, <2>6, <2>7 DEF AutoInv
<1>6. CASE AutoSave!Write
  <2>1. /\ at = "write" /\ todo # <<>> /\ Head(todo) \in exposed
        /\ UNCHANGED <<disk, auto_saving, leaving>>
    BY <1>1, <1>6 DEF AutoSave!Write, WrittenIsExposed
  <2>2. CASE /\ copy' = [copy EXCEPT ![Head(todo)] = buf[Head(todo)].text]
             /\ exposed' = exposed \ {Head(todo)} /\ AutoSave!NoteAndGoOn
    BY <2>1, <2>2, NotesAndGoesOn
  <2>3. CASE at' = "complain" /\ UNCHANGED <<buf, copy, todo, exposed>>
    <3>1. AutoTypes' /\ BelievedInFile' /\ WrittenIsExposed'
      BY <1>1, <2>1, <2>3
         DEF AutoTypes, BelievedInFile, Believed, InFile, WrittenIsExposed
    <3>2. \A b : Excused(b)' <=> Excused(b)
      BY <2>3 DEF Excused, AutoSave!Shrunk, AutoSave!IsLarge
    <3>3. WayOut'
      BY <1>1, <2>1, <2>3, <3>2 DEF WayOut
    <3> QED BY <3>1, <3>3 DEF AutoInv
  <2> QED BY <1>6, <2>2, <2>3 DEF AutoSave!Write
<1>7. CASE AutoSave!Complained
  <2>1. /\ at = "complain" /\ todo # <<>> /\ Head(todo) \in exposed
        /\ AutoSave!NoteAndGoOn
        /\ UNCHANGED <<disk, copy, auto_saving, leaving, exposed>>
    BY <1>1, <1>7 DEF AutoSave!Complained, AutoSave!files, WrittenIsExposed
  <2> QED BY <2>1, NotesAndGoesOn
<1> QED BY <1>2, <1>3, <1>4, <1>5, <1>6, <1>7

\* Nothing changes while another session is used.
LEMMA AutoStays == ASSUME UNCHANGED autoVars, AutoInv PROVE AutoInv'
<1>1. /\ UNCHANGED <<buf, disk, copy, at, todo>>
      /\ UNCHANGED <<auto_saving, leaving, fatal, exposed>>
  BY DEF autoVars
<1>2. AutoTypes' /\ BelievedInFile' /\ WrittenIsExposed'
  BY <1>1
     DEF AutoInv, AutoTypes, BelievedInFile, Believed, InFile, WrittenIsExposed
<1>3. \A b : (AutoSave!Shrunk(b)' <=> AutoSave!Shrunk(b))
      /\ (Excused(b)' <=> Excused(b))
  BY <1>1 DEF Excused, AutoSave!Shrunk, AutoSave!IsLarge
<1>4. WayOut'
  BY <1>1, <1>3 DEF AutoInv, WayOut
<1> QED BY <1>2, <1>4 DEF AutoInv

\* What do-auto-save believes to have saved, and all that was changed when Emacs
\* has left in order, can be read from one of two files, but for what it could
\* not write, what has shrunk, and a text that only the visited file had when a
\* save emptied that and did not end: for any buffers and any changes.
THEOREM ChangesAreAlwaysKept == SessionsSpec => []ChangesAreKept
<1> DEFINE I == session = "auto" => AutoInv
<1>1. SessionsInit => I
  BY AutoStarts DEF SessionsInit
<1>2. I /\ [SessionsNext]_sessionsVars => I'
  <2> SUFFICES ASSUME I, [SessionsNext]_sessionsVars, session' = "auto"
               PROVE  AutoInv'
    OBVIOUS
  <2>1. CASE SessionsNext
    <3>1. AutoInv /\ AutoSave!AutoNext
      BY <2>1 DEF SessionsNext
    <3> QED BY <3>1, CommandsKeep, SavesKeep, Leaves, WalkKeeps
            DEF AutoSave!AutoNext, Listed
  <2>2. CASE UNCHANGED sessionsVars
    BY <2>2, AutoStays DEF sessionsVars
  <2> QED BY <2>1, <2>2
<1>3. I => ChangesAreKept
  <2> SUFFICES ASSUME AutoInv PROVE AutoSave!KeepsChanges
    BY DEF ChangesAreKept
  <2>1. ASSUME NEW b \in Listed, AutoSave!Modified(buf[b]), b \notin exposed,
               \/ Believed(b)
               \/ at = "dead" /\ leaving # "no" /\ ~auto_saving
                  /\ ~AutoSave!Shrunk(b)
        PROVE  InFile(b)
    <3>1. Believed(b) \/ (Excused(b) /\ ~AutoSave!Shrunk(b))
      <4>1. CASE Believed(b)
        BY <4>1
      <4>2. CASE at = "dead" /\ leaving # "no" /\ ~auto_saving
                 /\ ~AutoSave!Shrunk(b)
        BY <4>2 DEF AutoInv, WayOut
      <4> QED BY <2>1, <4>1, <4>2
    <3>2. buf[b].auto_save_modified <= buf[b].modiff /\ buf[b].modiff \in Nat
          /\ buf[b].auto_save_modified \in Nat
      BY DEF AutoInv, AutoTypes, Notes
    <3>3. Believed(b)
      BY <2>1, <3>1, <3>2 DEF Believed, Excused, AutoSave!Wanted
    <3> QED BY <2>1, <3>3 DEF AutoInv, BelievedInFile
  <2> QED BY <2>1 DEF AutoSave!KeepsChanges, Believed, InFile, Listed
<1> QED BY <1>1, <1>2, <1>3, PTL DEF SessionsSpec
-----------------------------------------------------------------------------
(***************************************************************************)
(* holomacs.  A marker is only in the list of the buffer that it is in,    *)
(* since it is taken off its list before it is put on another; so what an  *)
(* edit does to the markers of one buffer reaches all of its markers.      *)
(***************************************************************************)
Texts == Seq(Nat)
Spots == [b : Buffers \cup {NoValue}, pos : Int]

HoloTypes ==
  /\ contents \in [Buffers -> Texts] /\ point \in [Buffers -> Int]
  /\ chain \in [Buffers -> SUBSET Values] /\ place \in [Values -> Spots]
  /\ current \in Buffers
ChainedWhereTheyAre ==
  \A b \in Buffers : \A m \in chain[b] : place[m].b = b
HoloInv ==
  /\ HoloTypes /\ ChainedWhereTheyAre
  /\ Holo!PointAndMarkersInText

\* Texts as they are after a change.
LEMMA NewText ==
  ASSUME NEW n \in Nat
  PROVE  Holo!New(n) \in Texts /\ Len(Holo!New(n)) = n
         /\ \A i \in 1 .. n : Holo!New(n)[i] = 0
BY DEF Holo!New, Texts

\* The text in which every character is named by where it is.
LEMMA OldText ==
  ASSUME NEW t \in Texts
  PROVE  Holo!Old(t) \in Texts /\ Len(Holo!Old(t)) = Len(t)
         /\ \A i \in 1 .. Len(t) : Holo!Old(t)[i] = i
BY DEF Holo!Old, Texts

\* Texts put together.
LEMMA Joined ==
  ASSUME NEW s \in Texts, NEW t \in Texts
  PROVE  /\ s \o t \in Texts /\ Len(s \o t) = Len(s) + Len(t)
         /\ \A i \in 1 .. Len(s) + Len(t) :
              (s \o t)[i] = IF i <= Len(s) THEN s[i] ELSE t[i - Len(s)]
BY DEF Texts

\* A part of a text.
LEMMA Part ==
  ASSUME NEW t \in Texts, NEW i \in Int, NEW j \in Int, 1 <= i, i <= j + 1,
         j <= Len(t)
  PROVE  /\ SubSeq(t, i, j) \in Texts /\ Len(SubSeq(t, i, j)) = j + 1 - i
         /\ \A k \in 1 .. j + 1 - i : SubSeq(t, i, j)[k] = t[i + k - 1]
BY DEF Texts

\* The character at each position after an insertion (primitives.lisp).
LEMMA InsertedText ==
  ASSUME NEW t \in Texts, NEW s \in Texts, NEW p \in 1 .. Len(t) + 1
  PROVE  /\ Holo!Inserted(t, p, s) \in Texts
         /\ Len(Holo!Inserted(t, p, s)) = Len(t) + Len(s)
         /\ \A i \in 1 .. Len(t) + Len(s) :
              Holo!Inserted(t, p, s)[i] = IF i < p THEN t[i]
                                          ELSE IF i < p + Len(s) THEN s[i - p + 1]
                                          ELSE t[i - Len(s)]
<1> DEFINE a == SubSeq(t, 1, p - 1)
           c == SubSeq(t, p, Len(t))
           ac == a \o s
           r == ac \o c
<1>1. Len(t) \in Nat /\ Len(s) \in Nat
  BY DEF Texts
<1>2. a \in Texts /\ Len(a) = p - 1 /\ \A k \in 1 .. p - 1 : a[k] = t[k]
  <2>1. 1 \in Int /\ p - 1 \in Int /\ 1 <= p - 1 + 1 /\ p - 1 <= Len(t)
    BY <1>1
  <2>2. a \in Texts /\ Len(a) = p - 1 + 1 - 1
        /\ \A k \in 1 .. p - 1 + 1 - 1 : a[k] = t[1 + k - 1]
    BY <2>1, Part
  <2> QED BY <1>1, <2>2
<1>3. c \in Texts /\ Len(c) = Len(t) + 1 - p
      /\ \A k \in 1 .. Len(t) + 1 - p : c[k] = t[p + k - 1]
  BY <1>1, Part
<1> HIDE DEF a, c
<1>4. ac \in Texts /\ Len(ac) = Len(a) + Len(s)
      /\ \A i \in 1 .. Len(a) + Len(s) :
           ac[i] = IF i <= Len(a) THEN a[i] ELSE s[i - Len(a)]
  BY <1>2, Joined
<1> HIDE DEF ac
<1>5. r \in Texts /\ Len(r) = Len(ac) + Len(c)
      /\ \A i \in 1 .. Len(ac) + Len(c) :
           r[i] = IF i <= Len(ac) THEN ac[i] ELSE c[i - Len(ac)]
  BY <1>3, <1>4, Joined
<1> HIDE DEF r
<1>6. ASSUME NEW i \in 1 .. Len(t) + Len(s)
      PROVE  r[i] = IF i < p THEN t[i] ELSE IF i < p + Len(s) THEN s[i - p + 1]
                    ELSE t[i - Len(s)]
  <2>0. /\ Len(a) = p - 1 /\ Len(c) = Len(t) + 1 - p
        /\ Len(ac) = p - 1 + Len(s)
        /\ i \in Int /\ 1 <= i /\ i <= Len(t) + Len(s) /\ p \in Int
        /\ i \in 1 .. Len(ac) + Len(c)
    BY <1>1, <1>2, <1>3, <1>4
  <2>1. CASE i < p
    <3>1. i <= Len(ac) /\ i \in 1 .. Len(a) + Len(s) /\ i <= Len(a)
          /\ i \in 1 .. p - 1
      BY <1>1, <2>0, <2>1
    <3>2. r[i] = ac[i]
      BY <1>5, <2>0, <3>1
    <3>3. ac[i] = a[i]
      BY <1>4, <3>1
    <3>4. a[i] = t[i]
      BY <1>2, <3>1
    <3> QED BY <2>1, <3>2, <3>3, <3>4
  <2>2. CASE i >= p /\ i < p + Len(s)
    <3>1. i <= Len(ac) /\ i \in 1 .. Len(a) + Len(s) /\ ~(i <= Len(a))
          /\ i - Len(a) = i - p + 1 /\ ~(i < p)
      BY <1>1, <2>0, <2>2
    <3>2. r[i] = ac[i]
      BY <1>5, <2>0, <3>1
    <3>3. ac[i] = s[i - Len(a)]
      BY <1>4, <3>1
    <3> QED BY <2>2, <3>1, <3>2, <3>3
  <2>3. CASE i >= p + Len(s)
    <3>1. /\ i - Len(ac) \in 1 .. Len(t) + 1 - p
          /\ p + (i - Len(ac)) - 1 = i - Len(s)
          /\ ~(i <= Len(ac)) /\ ~(i < p) /\ ~(i < p + Len(s))
      BY <1>1, <2>0, <2>3
    <3>2. r[i] = c[i - Len(ac)]
      BY <1>5, <2>0, <3>1
    <3>3. c[i - Len(ac)] = t[p + (i - Len(ac)) - 1]
      BY <1>3, <3>1
    <3> QED BY <3>1, <3>2, <3>3
  <2> QED BY <1>1, <2>0, <2>1, <2>2, <2>3
<1>7. Holo!Inserted(t, p, s) = r
  BY DEF Holo!Inserted, r, ac, a, c
<1>8. Len(r) = Len(t) + Len(s)
  BY <1>1, <1>2, <1>3, <1>4, <1>5
<1> QED BY <1>5, <1>6, <1>7, <1>8

\* The character at each position after a deletion.
LEMMA DeletedText ==
  ASSUME NEW t \in Texts, NEW lo \in Int, NEW hi \in Int, Holo!Deletable(t, lo, hi)
  PROVE  /\ Holo!Deleted(t, lo, hi) \in Texts
         /\ Len(Holo!Deleted(t, lo, hi)) = Len(t) - (hi - lo)
         /\ hi <= Holo!PointMax(t) =>
              \A i \in 1 .. Len(t) - (hi - lo) :
                Holo!Deleted(t, lo, hi)[i] = IF i < lo THEN t[i] ELSE t[i + (hi - lo)]
<1>1. Len(t) \in Nat /\ 1 <= lo /\ lo < hi /\ hi - lo <= Len(t)
  BY DEF Texts, Holo!Deletable
<1>2. CASE hi <= Len(t) + 1
  <2> DEFINE a == SubSeq(t, 1, lo - 1)
             c == SubSeq(t, hi, Len(t))
             r == a \o c
  <2>1. a \in Texts /\ Len(a) = lo - 1 /\ \A k \in 1 .. lo - 1 : a[k] = t[k]
    <3>1. 1 \in Int /\ lo - 1 \in Int /\ 1 <= lo - 1 + 1 /\ lo - 1 <= Len(t)
      BY <1>1, <1>2
    <3>2. a \in Texts /\ Len(a) = lo - 1 + 1 - 1
          /\ \A k \in 1 .. lo - 1 + 1 - 1 : a[k] = t[1 + k - 1]
      BY <3>1, Part
    <3> QED BY <1>1, <3>2
  <2>2. c \in Texts /\ Len(c) = Len(t) + 1 - hi
        /\ \A k \in 1 .. Len(t) + 1 - hi : c[k] = t[hi + k - 1]
    BY <1>1, <1>2, Part
  <2> HIDE DEF a, c
  <2>3. r \in Texts /\ Len(r) = Len(a) + Len(c)
        /\ \A i \in 1 .. Len(a) + Len(c) :
             r[i] = IF i <= Len(a) THEN a[i] ELSE c[i - Len(a)]
    BY <2>1, <2>2, Joined
  <2> HIDE DEF r
  <2>4. ASSUME NEW i \in 1 .. Len(t) - (hi - lo)
        PROVE  r[i] = IF i < lo THEN t[i] ELSE t[i + (hi - lo)]
    <3>0. /\ i \in Int /\ 1 <= i /\ i <= Len(t) - (hi - lo)
          /\ i \in 1 .. Len(a) + Len(c)
      BY <1>1, <1>2, <2>1, <2>2
    <3>1. CASE i < lo
      <4>1. i <= Len(a) /\ i \in 1 .. lo - 1
        BY <2>1, <3>0, <3>1
      <4>2. r[i] = a[i]
        BY <2>3, <3>0, <4>1
      <4>3. a[i] = t[i]
        BY <2>1, <4>1
      <4> QED BY <3>1, <4>2, <4>3
    <3>2. CASE i >= lo
      <4>1. /\ i - Len(a) \in 1 .. Len(t) + 1 - hi
            /\ hi + (i - Len(a)) - 1 = i + (hi - lo)
            /\ ~(i <= Len(a)) /\ ~(i < lo)
        BY <1>1, <1>2, <2>1, <3>0, <3>2
      <4>2. r[i] = c[i - Len(a)]
        BY <2>3, <3>0, <4>1
      <4>3. c[i - Len(a)] = t[hi + (i - Len(a)) - 1]
        BY <2>2, <4>1
      <4> QED BY <4>1, <4>2, <4>3
    <3> QED BY <3>0, <3>1, <3>2
  <2>5. Holo!Deleted(t, lo, hi) = r
    BY <1>2 DEF Holo!Deleted, Holo!PointMax, r, a, c
  <2>6. Len(r) = Len(t) - (hi - lo)
    BY <1>1, <1>2, <2>1, <2>2, <2>3
  <2> QED BY <2>3, <2>4, <2>5, <2>6
<1>3. CASE hi > Len(t) + 1
  <2>1. ~(hi <= Holo!PointMax(t))
    BY <1>1, <1>3 DEF Holo!PointMax
  <2>2. Holo!Deleted(t, lo, hi) = SubSeq(t, 1, Len(t) - (hi - lo))
    BY ONLY <2>1 DEF Holo!Deleted
  <2> DEFINE n == Len(t) - (hi - lo)
  <2>3. n \in Int /\ 1 <= n + 1 /\ n <= Len(t) /\ n + 1 - 1 = n
    BY <1>1
  <2> HIDE DEF n
  <2>4. SubSeq(t, 1, n) \in Texts /\ Len(SubSeq(t, 1, n)) = n
    <3>1. 1 \in Int /\ 1 <= 1
      OBVIOUS
    <3>2. SubSeq(t, 1, n) \in Texts /\ Len(SubSeq(t, 1, n)) = n + 1 - 1
      BY ONLY <2>3, <3>1, Part, t \in Texts
    <3> QED BY <2>3, <3>2
  <2> QED BY <2>1, <2>2, <2>4 DEF n
<1> QED BY <1>1, <1>2, <1>3

\* A marker set to another position of its buffer.
LEMMA MovedSpot ==
  ASSUME NEW r \in Spots, NEW k \in Int
  PROVE  /\ [r EXCEPT !.pos = k] \in Spots
         /\ [r EXCEPT !.pos = k].b = r.b /\ [r EXCEPT !.pos = k].pos = k
BY DEF Spots

\* adjust-markers-on-insert and -on-delete move the markers on the
\* list of the buffer, and no others (primitives.lisp).
LEMMA MarkersAdjusted ==
  ASSUME HoloTypes, NEW f \in [Int -> Int], Holo!AdjustMarkers(current, f)
  PROVE  /\ place' \in [Values -> Spots]
         /\ \A m \in Values :
              /\ place'[m].b = place[m].b
              /\ m \in chain[current] => place'[m].pos = f[place[m].pos]
              /\ m \notin chain[current] => place'[m] = place[m]
<1>1. ASSUME NEW m \in Values
      PROVE  /\ place[m] \in Spots /\ place[m].pos \in Int
             /\ f[place[m].pos] \in Int
  BY DEF HoloTypes, Spots
<1>2. place' = [m \in Values |->
                  IF m \in chain[current]
                    THEN [place[m] EXCEPT !.pos = f[place[m].pos]]
                    ELSE place[m]]
  BY DEF Holo!AdjustMarkers
<1>3. ASSUME NEW m \in Values
      PROVE  /\ place'[m] \in Spots /\ place'[m].b = place[m].b
             /\ m \in chain[current] => place'[m].pos = f[place[m].pos]
             /\ m \notin chain[current] => place'[m] = place[m]
  <2>1. /\ [place[m] EXCEPT !.pos = f[place[m].pos]] \in Spots
        /\ [place[m] EXCEPT !.pos = f[place[m].pos]].b = place[m].b
        /\ [place[m] EXCEPT !.pos = f[place[m].pos]].pos = f[place[m].pos]
    BY <1>1, MovedSpot
  <2> QED BY <1>1, <1>2, <2>1
<1>4. place' \in [Values -> Spots]
  BY <1>2, <1>3
<1> QED BY <1>3, <1>4

(***************************************************************************)
(* What all editing primitives have in common: the current buffer gets the *)
(* text x and point y, and its markers move by f, which leaves them in the *)
(* text, between the same characters and not behind new ones; or else the  *)
(* buffer is one of those in which a position may be outside.              *)
(***************************************************************************)
Moves(f) == \A pos \in Int : f[pos] \in Int
Follows(t, x, f) ==
  \A pos \in 1 .. Len(t) + 1 :
    /\ f[pos] \in 1 .. Len(x) + 1
    /\ \A i \in 1 .. Len(x) : x[i] # 0 => (x[i] < pos <=> i < f[pos])
    /\ f[pos] # 1 => x[f[pos] - 1] # 0

\* An edit keeps the invariant, and the place of every marker, if point stays
\* in the text and markers move with the characters.
LEMMA Editing ==
  ASSUME HoloInv, NEW x \in Texts, NEW y \in Int, NEW f \in [Int -> Int],
         contents' = [contents EXCEPT ![current] = x],
         point' = [point EXCEPT ![current] = y],
         Holo!AdjustMarkers(current, f), UNCHANGED <<chain, current>>,
         current \notin outside, outside \subseteq outside',
         current \notin outside' =>
           y \in 1 .. Len(x) + 1 /\ Follows(contents[current], x, f)
  PROVE  HoloInv' /\ Holo!KeepsPlaces
<1>1. HoloTypes /\ ChainedWhereTheyAre /\ Holo!PointAndMarkersInText
  BY DEF HoloInv
<1>2. /\ place' \in [Values -> Spots]
      /\ \A m \in Values :
           /\ place'[m].b = place[m].b
           /\ m \in chain[current] => place'[m].pos = f[place[m].pos]
           /\ m \notin chain[current] => place'[m] = place[m]
  BY <1>1, MarkersAdjusted
<1>3. HoloTypes'
  BY <1>1, <1>2 DEF HoloTypes
<1>4. \A b \in Buffers : \A m \in chain[b] : m \in Values
  BY <1>1 DEF HoloTypes
<1>5. ChainedWhereTheyAre'
  BY <1>1, <1>2, <1>4 DEF ChainedWhereTheyAre
<1>6. /\ contents'[current] = x /\ point'[current] = y
      /\ \A b \in Buffers \ {current} :
           contents'[b] = contents[b] /\ point'[b] = point[b]
  BY <1>1 DEF HoloTypes
<1>7. ASSUME NEW b \in Buffers \ outside', NEW m \in chain[b]
      PROVE  place'[m].b = b /\ place'[m].pos \in 1 .. Len(contents'[b]) + 1
  <2>1. /\ m \in Values /\ place[m].b = b
        /\ place[m].pos \in 1 .. Len(contents[b]) + 1
    BY <1>1, <1>4 DEF Holo!PointAndMarkersInText, Holo!PointMax
  <2>2. CASE b = current
    <3>1. Follows(contents[current], x, f)
      BY <2>2
    <3>2. f[place[m].pos] \in 1 .. Len(x) + 1
      BY <2>1, <2>2, <3>1 DEF Follows
    <3>3. place'[m].pos = f[place[m].pos] /\ place'[m].b = b
      BY <1>2, <2>1, <2>2
    <3> QED BY <1>6, <2>2, <3>2, <3>3
  <2>3. CASE b # current
    <3>1. m \notin chain[current]
      BY <1>1, <2>1, <2>3 DEF ChainedWhereTheyAre, HoloTypes
    <3> QED BY <1>2, <1>6, <2>1, <2>3, <3>1
  <2> QED BY <2>2, <2>3
<1>8. \A b \in Buffers \ outside' : point'[b] \in 1 .. Len(contents'[b]) + 1
  <2> SUFFICES ASSUME NEW b \in Buffers \ outside'
               PROVE  point'[b] \in 1 .. Len(contents'[b]) + 1
    OBVIOUS
  <2>1. point[b] \in 1 .. Len(contents[b]) + 1
    BY <1>1 DEF Holo!PointAndMarkersInText, Holo!PointMax
  <2>2. CASE b = current
    BY <1>6, <2>2
  <2>3. CASE b # current
    BY <1>6, <2>1, <2>3
  <2> QED BY <2>2, <2>3
<1>9. Holo!PointAndMarkersInText'
  BY <1>7, <1>8 DEF Holo!PointAndMarkersInText, Holo!PointMax
<1>10. Holo!KeepsPlaces
  <2>1. ASSUME NEW b \in Buffers, NEW m \in chain[b],
               contents'[b] # contents[b], b \notin outside'
        PROVE  /\ \A i \in DOMAIN contents'[b] : contents'[b][i] # 0 =>
                    (contents'[b][i] < place[m].pos <=> i < place'[m].pos)
               /\ place'[m].pos = 1 \/ contents'[b][place'[m].pos - 1] # 0
    <3>1. b = current
      BY <1>6, <2>1
    <3>2. DOMAIN x = 1 .. Len(x)
      BY ONLY x \in Texts DEF Texts
    <3>3. place[m].pos \in 1 .. Len(contents[current]) + 1
      BY <1>1, <2>1, <3>1 DEF Holo!PointAndMarkersInText, Holo!PointMax
    <3>4. place'[m].pos = f[place[m].pos]
      BY <1>2, <1>4, <2>1, <3>1
    <3>5. Follows(contents[current], x, f)
      BY <2>1, <3>1
    <3>6. /\ \A i \in 1 .. Len(x) :
               x[i] # 0 => (x[i] < place[m].pos <=> i < f[place[m].pos])
          /\ f[place[m].pos] # 1 => x[f[place[m].pos] - 1] # 0
      BY <3>3, <3>5 DEF Follows
    <3> QED BY <1>6, <3>1, <3>2, <3>4, <3>6
  <2> QED BY <2>1 DEF Holo!KeepsPlaces
<1> QED BY <1>3, <1>5, <1>9, <1>10 DEF HoloInv

\* An insertion into the text u that t has become follows t if u does.
LEMMA InsertionFollowed ==
  ASSUME NEW t \in Texts, NEW u \in Texts,
         NEW g, Moves(g),
         NEW p \in Int, 1 <= p, p <= Len(u) + 1, NEW n \in Nat
  PROVE  LET x == Holo!Inserted(u, p, Holo!New(n))
             f == [pos \in Int |-> Holo!AfterInsert(g[pos], p, n)]
         IN /\ x \in Texts /\ Len(x) = Len(u) + n
            /\ f \in [Int -> Int]
            /\ Follows(t, u, g) => Follows(t, x, f)
<1> DEFINE x == Holo!Inserted(u, p, Holo!New(n))
           f == [pos \in Int |-> Holo!AfterInsert(g[pos], p, n)]
           w == Holo!New(n)
<1>0. Len(t) \in Nat /\ Len(u) \in Nat /\ p \in Int /\ 1 <= p /\ p <= Len(u) + 1
  BY DEF Texts
<1>1. w \in Texts /\ Len(w) = n /\ \A i \in 1 .. n : w[i] = 0
  BY NewText
<1> HIDE DEF w
<1>p. p \in 1 .. Len(u) + 1
  BY <1>0
<1>2. /\ Holo!Inserted(u, p, w) \in Texts
      /\ Len(Holo!Inserted(u, p, w)) = Len(u) + Len(w)
      /\ \A i \in 1 .. Len(u) + Len(w) :
           Holo!Inserted(u, p, w)[i] = IF i < p THEN u[i]
                                       ELSE IF i < p + Len(w) THEN w[i - p + 1]
                                       ELSE u[i - Len(w)]
  BY <1>1, <1>p, InsertedText
<1>3. x = Holo!Inserted(u, p, w)
  BY DEF w
<1> HIDE DEF x
<1>4. x \in Texts /\ Len(x) = Len(u) + n
  BY <1>1, <1>2, <1>3
<1>5. f \in [Int -> Int]
      /\ \A pos \in Int : f[pos] = IF g[pos] > p THEN g[pos] + n ELSE g[pos]
  BY <1>0 DEF Holo!AfterInsert, Moves
<1> HIDE DEF f
<1>6. ASSUME Follows(t, u, g)
      PROVE  Follows(t, x, f)
  <2>1. SUFFICES ASSUME NEW pos \in 1 .. Len(t) + 1
                 PROVE  /\ f[pos] \in 1 .. Len(x) + 1
                        /\ \A i \in 1 .. Len(x) :
                             x[i] # 0 => (x[i] < pos <=> i < f[pos])
                        /\ f[pos] # 1 => x[f[pos] - 1] # 0
    BY DEF Follows
  <2>2. pos \in Int /\ f[pos] = IF g[pos] > p THEN g[pos] + n ELSE g[pos]
    BY <1>0, <1>5
  <2>3. /\ g[pos] \in 1 .. Len(u) + 1
        /\ \A i \in 1 .. Len(u) : u[i] # 0 => (u[i] < pos <=> i < g[pos])
        /\ g[pos] # 1 => u[g[pos] - 1] # 0
    BY <1>6 DEF Follows
  <2> DEFINE q == g[pos]
  <2>q. q \in Int /\ 1 <= q /\ q <= Len(u) + 1
        /\ f[pos] = IF q > p THEN q + n ELSE q
    BY <1>0, <2>2, <2>3
  <2> HIDE DEF q
  <2>4. f[pos] \in 1 .. Len(x) + 1
    BY ONLY <1>0, <1>4, <2>q, n \in Nat
  <2>5. ASSUME NEW i \in 1 .. Len(x), x[i] # 0
        PROVE  x[i] < pos <=> i < f[pos]
    <3>0. i \in Int /\ 1 <= i /\ i <= Len(u) + n 
      BY <1>0, <1>4
    <3>1. x[i] = IF i < p THEN u[i] ELSE IF i < p + n THEN w[i - p + 1]
                 ELSE u[i - n]
      BY <1>1, <1>2, <1>3, <1>4
    <3>2. CASE i < p
      <4>1. i \in 1 .. Len(u)
        BY <1>0, <3>0, <3>2
      <4>2. u[i] < pos <=> i < q
        BY <2>3, <2>5, <3>1, <3>2, <4>1 DEF q
      <4>3. i < q <=> i < f[pos]
        BY ONLY <1>0, <2>q, n \in Nat, <3>0, <3>2
      <4> QED BY <4>3, <3>1, <3>2, <4>2
    <3>3. CASE ~(i < p) /\ i < p + n
      <4>1. i - p + 1 \in 1 .. n
        BY <1>0, <3>0, <3>3
      <4> QED BY <1>1, <2>5, <3>1, <3>3, <4>1
    <3>4. CASE ~(i < p) /\ ~(i < p + n)
      <4>1. i - n \in 1 .. Len(u)
        BY <1>0, <3>0, <3>4
      <4>2. u[i - n] < pos <=> i - n < q
        BY <2>3, <2>5, <3>1, <3>4, <4>1 DEF q
      <4>3. i - n < q <=> i < f[pos]
        BY ONLY <1>0, <2>q, n \in Nat, <3>0, <3>4
      <4> QED BY <4>3, <3>1, <3>4, <4>2
    <3> QED BY <3>2, <3>3, <3>4
  <2>6. f[pos] # 1 => x[f[pos] - 1] # 0
    <3> DEFINE i == f[pos] - 1
    <3>1. SUFFICES ASSUME f[pos] # 1
                   PROVE  x[i] # 0
      OBVIOUS
    <3>2. /\ i \in 1 .. Len(u) + n /\ q \in Int /\ i + 1 = f[pos]
          /\ \/ q > p /\ ~(i < p) /\ ~(i < p + n) /\ i - n = q - 1
             \/ ~(q > p) /\ i < p /\ i = q - 1
      BY ONLY <1>0, <1>4, <2>q, <2>4, n \in Nat, <3>1
    <3>3. q # 1
      BY ONLY <1>0, <2>q, n \in Nat, <3>1, <3>2
    <3> HIDE DEF i
    <3>4. u[q - 1] # 0
      BY <2>3, <3>3 DEF q
    <3>5. x[i] = IF i < p THEN u[i] ELSE IF i < p + n THEN w[i - p + 1]
                 ELSE u[i - n]
      BY <1>1, <1>2, <1>3, <3>2
    <3> QED BY <3>2, <3>4, <3>5
  <2> QED BY <2>4, <2>5, <2>6
<1> QED BY <1>4, <1>5, <1>6 DEF x, f

\* Markers that do not move follow a text that does not change.
LEMMA OldFollowed ==
  ASSUME NEW t \in Texts
  PROVE  Follows(t, Holo!Old(t), [pos \in Int |-> pos])
BY OldText DEF Follows

\* Markers moved as adjust-markers-on-delete does follow the text.
LEMMA DeletionFollowed ==
  ASSUME NEW t \in Texts, NEW lo \in Int, NEW hi \in Int, Holo!Deletable(t, lo, hi)
  PROVE  LET x == Holo!Deleted(Holo!Old(t), lo, hi)
             f == [pos \in Int |-> Holo!AfterDelete(pos, lo, hi - lo)]
         IN /\ x \in Texts /\ Len(x) = Len(t) - (hi - lo)
            /\ f \in [Int -> Int]
            /\ hi <= Holo!PointMax(t) => Follows(t, x, f)
<1> DEFINE x == Holo!Deleted(Holo!Old(t), lo, hi)
           f == [pos \in Int |-> Holo!AfterDelete(pos, lo, hi - lo)]
           o == Holo!Old(t)
           n == hi - lo
<1>0. Len(t) \in Nat /\ 1 <= lo /\ lo < hi /\ n <= Len(t) /\ n \in Int
      /\ n >= 1 /\ hi = lo + n
  BY DEF Texts, Holo!Deletable
<1>1. o \in Texts /\ Len(o) = Len(t) /\ \A i \in 1 .. Len(t) : o[i] = i
  BY OldText
<1> HIDE DEF o
<1>2. Holo!Deletable(o, lo, hi) /\ Holo!PointMax(o) = Holo!PointMax(t)
  BY <1>1 DEF Holo!Deletable, Holo!PointMax
<1>3. /\ Holo!Deleted(o, lo, hi) \in Texts
      /\ Len(Holo!Deleted(o, lo, hi)) = Len(o) - (hi - lo)
      /\ hi <= Holo!PointMax(o) =>
           \A i \in 1 .. Len(o) - (hi - lo) :
             Holo!Deleted(o, lo, hi)[i] = IF i < lo THEN o[i] ELSE o[i + (hi - lo)]
  BY <1>1, <1>2, DeletedText
<1>4. x = Holo!Deleted(o, lo, hi)
  BY DEF o
<1> HIDE DEF x
<1>5. x \in Texts /\ Len(x) = Len(t) - n
  BY <1>1, <1>3, <1>4
<1>6. f \in [Int -> Int]
      /\ \A pos \in Int : f[pos] = IF pos > lo + n THEN pos - n
                                   ELSE IF pos >= lo THEN lo ELSE pos
  BY <1>0 DEF Holo!AfterDelete
<1> HIDE DEF f
<1>7. ASSUME hi <= Holo!PointMax(t), NEW i \in 1 .. Len(t) - n
      PROVE  x[i] = IF i < lo THEN i ELSE i + n
  <2>0. i \in Int /\ 1 <= i /\ i <= Len(t) - n /\ hi <= Len(t) + 1
    BY <1>0, <1>7 DEF Holo!PointMax
  <2>1. x[i] = IF i < lo THEN o[i] ELSE o[i + n]
    BY <1>1, <1>2, <1>3, <1>4, <1>7
  <2>2. CASE i < lo
    <3>1. i \in 1 .. Len(t)
      BY <1>0, <2>0
    <3> QED BY <1>1, <2>1, <2>2, <3>1
  <2>3. CASE ~(i < lo)
    <3>1. i + n \in 1 .. Len(t)
      BY <1>0, <2>0
    <3> QED BY <1>1, <2>1, <2>3, <3>1
  <2> QED BY <2>2, <2>3
<1> HIDE DEF n
<1>8. ASSUME hi <= Holo!PointMax(t)
      PROVE  Follows(t, x, f)
  <2>1. SUFFICES ASSUME NEW pos \in 1 .. Len(t) + 1
                 PROVE  /\ f[pos] \in 1 .. Len(x) + 1
                        /\ \A i \in 1 .. Len(x) :
                             x[i] # 0 => (x[i] < pos <=> i < f[pos])
                        /\ f[pos] # 1 => x[f[pos] - 1] # 0
    BY DEF Follows
  <2>2. pos \in Int /\ 1 <= pos /\ pos <= Len(t) + 1
        /\ f[pos] = IF pos > lo + n THEN pos - n
                    ELSE IF pos >= lo THEN lo ELSE pos
    BY <1>0, <1>6
  <2>3. hi <= Len(t) + 1
    BY <1>8 DEF Holo!PointMax
  <2>4. f[pos] \in 1 .. Len(x) + 1
    BY <1>0, <1>5, <2>2, <2>3
  <2>5. ASSUME NEW i \in 1 .. Len(x), x[i] # 0
        PROVE  x[i] < pos <=> i < f[pos]
    <3>1. x[i] = IF i < lo THEN i ELSE i + n
      BY <1>5, <1>7, <1>8
    <3>2. i \in Int
      OBVIOUS
    <3> QED BY <1>0, <2>2, <2>3, <3>1, <3>2
  <2>6. ASSUME f[pos] # 1
        PROVE  x[f[pos] - 1] # 0
    <3>1. f[pos] - 1 \in 1 .. Len(t) - n
      BY <1>0, <1>5, <2>4, <2>6
    <3>2. x[f[pos] - 1] = IF f[pos] - 1 < lo THEN f[pos] - 1 ELSE f[pos] - 1 + n
      BY <1>7, <1>8, <3>1
    <3> QED BY <1>0, <3>1, <3>2
  <2> QED BY <2>4, <2>5, <2>6
<1> QED BY <1>5, <1>6, <1>8 DEF x, f, n

HoloGoal == HoloInv' /\ Holo!KeepsPlaces

\* Point of the current buffer is in its text, as it never cuts it.
LEMMA CurrentText ==
  ASSUME HoloInv, current \notin outside
  PROVE  /\ contents[current] \in Texts /\ point[current] \in Int
         /\ point[current] \in 1 .. Len(contents[current]) + 1
         /\ point = [point EXCEPT ![current] = point[current]]
BY DEF HoloInv, HoloTypes, Holo!PointAndMarkersInText, Holo!PointMax

\* insert, and insert-file-contents.
LEMMA InsertKeeps ==
  ASSUME HoloInv, NEW n \in Nat, Holo!Insert(n) \/ Holo!InsertFileContents(n)
  PROVE  HoloGoal
<1> DEFINE t == contents[current]
           p == point[current]
           g == [pos \in Int |-> pos]
           x == Holo!Inserted(Holo!Old(t), p, Holo!New(n))
           h == [pos \in Int |-> Holo!AfterInsert(g[pos], p, n)]
           f == [pos \in Int |-> Holo!AfterInsert(pos, p, n)]
<1>1. current \notin outside
  BY DEF Holo!Insert, Holo!InsertFileContents
<1>2. /\ t \in Texts /\ p \in Int /\ Len(t) \in Nat /\ 1 <= p /\ p <= Len(t) + 1
      /\ point = [point EXCEPT ![current] = p]
  BY <1>1, CurrentText DEF Texts
<1>3. /\ Holo!Old(t) \in Texts /\ Len(Holo!Old(t)) = Len(t)
      /\ Follows(t, Holo!Old(t), g) /\ Moves(g)
  BY <1>2, OldText, OldFollowed DEF Moves
<1>4. f = h
  OBVIOUS
<1> HIDE DEF g, t, p
<1>5. /\ x \in Texts /\ Len(x) = Len(t) + n /\ h \in [Int -> Int]
      /\ Follows(t, x, h)
  <2> HIDE DEF x, h
  <2> DEFINE u == Holo!Old(t)
  <2>1. u \in Texts /\ 1 <= p /\ p <= Len(u) + 1 /\ Follows(t, u, g)
    BY <1>2, <1>3
  <2>2. x = Holo!Inserted(u, p, Holo!New(n))
    BY DEF x
  <2>3. h = [pos \in Int |-> Holo!AfterInsert(g[pos], p, n)]
    BY DEF h
  <2> HIDE DEF u
  <2>4. x \in Texts /\ Len(x) = Len(u) + n /\ h \in [Int -> Int]
        /\ (Follows(t, u, g) => Follows(t, x, h))
    BY ONLY <1>2, <1>3, <2>1, <2>2, <2>3, n \in Nat, InsertionFollowed
  <2> QED BY <1>3, <2>1, <2>4 DEF u
<1> HIDE DEF x, h
<1>6. /\ contents' = [contents EXCEPT ![current] = x]
      /\ Holo!AdjustMarkers(current, f) /\ UNCHANGED <<chain, current, outside>>
      /\ \/ point' = [point EXCEPT ![current] = p + n]
         \/ UNCHANGED point
  BY DEF Holo!Insert, Holo!InsertFileContents, t, p, x
<1> HIDE DEF f
<1>7. f \in [Int -> Int] /\ Follows(t, x, f)
  BY <1>4, <1>5
<1>8. CASE point' = [point EXCEPT ![current] = p + n]
  <2>1. p + n \in Int /\ p + n \in 1 .. Len(x) + 1
    BY <1>2, <1>5
  <2> QED BY <1>1, <1>5, <1>6, <1>7, <1>8, <2>1, Editing DEF HoloGoal, t
<1>9. CASE UNCHANGED point
  <2>1. p \in Int /\ p \in 1 .. Len(x) + 1
    BY <1>2, <1>5
  <2>2. point' = [point EXCEPT ![current] = p]
    BY <1>2, <1>9
  <2> QED BY <1>1, <1>5, <1>6, <1>7, <2>1, <2>2, Editing DEF HoloGoal, t
<1> QED BY <1>6, <1>8, <1>9

\* delete-region.
LEMMA DeleteKeeps ==
  ASSUME HoloInv, NEW lo \in Int, NEW hi \in Int, Holo!Delete(lo, hi)
  PROVE  HoloGoal
<1> DEFINE t == contents[current]
           p == point[current]
           x == Holo!Deleted(Holo!Old(t), lo, hi)
           f == [pos \in Int |-> Holo!AfterDelete(pos, lo, hi - lo)]
<1>1. /\ current \notin outside /\ Holo!Deletable(t, lo, hi)
      /\ contents' = [contents EXCEPT ![current] = x]
      /\ point' = [point EXCEPT ![current] = Holo!AfterDelete(p, lo, hi - lo)]
      /\ Holo!AdjustMarkers(current, f) /\ UNCHANGED <<chain, current>>
      /\ outside' = IF hi > Holo!PointMax(t)
                    THEN outside \cup {current} ELSE outside
  BY DEF Holo!Delete
<1>2. /\ t \in Texts /\ p \in Int /\ p \in 1 .. Len(t) + 1
  BY <1>1, CurrentText
<1>3. /\ x \in Texts /\ Len(x) = Len(t) - (hi - lo) /\ f \in [Int -> Int]
      /\ hi <= Holo!PointMax(t) => Follows(t, x, f)
  BY <1>1, <1>2, DeletionFollowed
<1>4. f[p] = Holo!AfterDelete(p, lo, hi - lo) /\ f[p] \in Int
  BY <1>2, <1>3
<1>5. outside \subseteq outside'
  BY <1>1
<1> DEFINE y == Holo!AfterDelete(p, lo, hi - lo)
<1>7. Len(t) \in Nat
  BY <1>2 DEF Texts
<1> HIDE DEF x, f, t, p
<1>6. current \notin outside' =>
        y \in 1 .. Len(x) + 1 /\ Follows(t, x, f)
  <2>1. SUFFICES ASSUME current \notin outside'
                 PROVE  y \in 1 .. Len(x) + 1 /\ Follows(t, x, f)
    OBVIOUS
  <2>2. ~(hi > Holo!PointMax(t))
    BY <1>1, <2>1
  <2>3. hi <= Holo!PointMax(t)
    BY <1>7, <2>2 DEF Holo!PointMax
  <2>4. Follows(t, x, f)
    BY <1>3, <2>3
  <2>5. f[p] \in 1 .. Len(x) + 1
    BY <1>2, <2>4 DEF Follows
  <2> QED BY <1>4, <2>4, <2>5
<1>8. y \in Int
  BY <1>4
<1> HIDE DEF y
<1>9. point' = [point EXCEPT ![current] = y]
  BY <1>1 DEF y
<1> QED BY <1>1, <1>3, <1>5, <1>6, <1>8, <1>9, Editing DEF HoloGoal, t

\* Replacing: a deletion and then an insertion.
LEMMA ReplaceKeeps ==
  ASSUME HoloInv, NEW lo \in Int, NEW hi \in Int, NEW n \in Nat,
         Holo!Replace(lo, hi, n)
  PROVE  HoloGoal
<1> DEFINE t == contents[current]
           u == Holo!Deleted(Holo!Old(t), lo, hi)
           p == Holo!Clamp(u, lo)
           x == Holo!Inserted(u, p, Holo!New(n))
           g == [pos \in Int |-> Holo!AfterDelete(pos, lo, hi - lo)]
           h == [pos \in Int |-> Holo!AfterInsert(g[pos], p, n)]
           f == [pos \in Int |->
                   Holo!AfterInsert(Holo!AfterDelete(pos, lo, hi - lo), p, n)]
<1>1. /\ current \notin outside /\ Holo!Deletable(t, lo, hi)
      /\ contents' = [contents EXCEPT ![current] = x]
      /\ point' = [point EXCEPT ![current] = p + n]
      /\ Holo!AdjustMarkers(current, f) /\ UNCHANGED <<chain, current>>
      /\ outside' = IF hi > Holo!PointMax(t)
                    THEN outside \cup {current} ELSE outside
  BY DEF Holo!Replace
<1>2. t \in Texts
  BY <1>1, CurrentText
<1>3. /\ u \in Texts /\ g \in [Int -> Int]
      /\ hi <= Holo!PointMax(t) => Follows(t, u, g)
  BY <1>1, <1>2, DeletionFollowed
<1>4. f = h
  OBVIOUS
<1>5. Moves(g)
  BY <1>3 DEF Moves
<1>t. u \in Texts
  BY <1>3
<1>6. Len(t) \in Nat /\ Len(u) \in Nat
  BY ONLY <1>2, <1>t DEF Texts
<1> HIDE DEF t, u, g, f
<1>7. p \in Int /\ 1 <= p /\ p <= Len(u) + 1
  BY <1>6 DEF Holo!Clamp, Holo!PointMax
<1> HIDE DEF p
<1>8. /\ x \in Texts /\ Len(x) = Len(u) + n /\ h \in [Int -> Int]
      /\ Follows(t, u, g) => Follows(t, x, h)
  BY ONLY <1>2, <1>t, <1>5, <1>7, n \in Nat, InsertionFollowed
<1> HIDE DEF x, h
<1>9. f \in [Int -> Int] /\ (Follows(t, u, g) => Follows(t, x, f))
  BY <1>4, <1>8
<1>10. p + n \in Int /\ p + n \in 1 .. Len(x) + 1
  BY <1>6, <1>7, <1>8
<1>11. current \notin outside' => Follows(t, x, f)
  <2>1. SUFFICES ASSUME current \notin outside'
                 PROVE  Follows(t, x, f)
    OBVIOUS
  <2>2. ~(hi > Holo!PointMax(t))
    BY <1>1, <2>1
  <2>3. hi <= Holo!PointMax(t)
    BY <1>6, <2>2 DEF Holo!PointMax
  <2> QED BY <1>3, <1>9, <2>3
<1>12. outside \subseteq outside'
  BY <1>1
<1> QED BY <1>1, <1>8, <1>9, <1>10, <1>11, <1>12, Editing DEF HoloGoal, t

\* find-file-noselect, of a file that is already visited or not.
LEMMA FindFileKeeps ==
  ASSUME HoloInv, NEW b \in Buffers, NEW n \in Nat, Holo!FindFileNoselect(b, n)
  PROVE  HoloGoal
<1> DEFINE w == Holo!New(n)
<1>1. w \in Texts /\ Len(w) = n /\ \A i \in 1 .. n : w[i] = 0
  BY NewText
<1>2. HoloTypes /\ ChainedWhereTheyAre /\ Holo!PointAndMarkersInText
  BY DEF HoloInv
<1>3. /\ contents' = [contents EXCEPT ![b] = w]
      /\ outside' = IF n < Len(contents[b]) THEN outside \cup {b} ELSE outside
      /\ UNCHANGED <<point, chain, place, current>>
  BY DEF Holo!FindFileNoselect
<1> HIDE DEF w
<1>4. /\ contents' \in [Buffers -> Texts] /\ contents'[b] = w
      /\ \A c \in Buffers \ {b} : contents'[c] = contents[c]
  BY <1>1, <1>2, <1>3 DEF HoloTypes
<1>5. HoloTypes' /\ ChainedWhereTheyAre'
  BY <1>2, <1>3, <1>4 DEF HoloTypes, ChainedWhereTheyAre
<1>6. ASSUME NEW c \in Buffers \ outside'
      PROVE  /\ c \notin outside /\ Len(contents[c]) \in Nat
             /\ Len(contents'[c]) \in Nat /\ Len(contents'[c]) >= Len(contents[c])
  <2>0. contents[c] \in Texts /\ contents'[c] \in Texts
    BY <1>2, <1>4 DEF HoloTypes
  <2>1. Len(contents[c]) \in Nat /\ Len(contents'[c]) \in Nat
    BY <2>0 DEF Texts
  <2>2. CASE c = b
    BY <1>1, <1>3, <1>4, <2>1, <2>2
  <2>3. CASE c # b
    BY <1>3, <1>4, <2>1, <2>3
  <2> QED BY <2>2, <2>3
<1>7. Holo!PointAndMarkersInText'
  <2>1. SUFFICES ASSUME NEW c \in Buffers \ outside'
                 PROVE  /\ point'[c] \in 1 .. Len(contents'[c]) + 1
                        /\ \A m \in chain'[c] :
                             /\ place'[m].b = c
                             /\ place'[m].pos \in 1 .. Len(contents'[c]) + 1
    BY DEF Holo!PointAndMarkersInText, Holo!PointMax
  <2>2. /\ point[c] \in 1 .. Len(contents[c]) + 1
        /\ \A m \in chain[c] :
             place[m].b = c /\ place[m].pos \in 1 .. Len(contents[c]) + 1
    BY <1>2, <1>6 DEF Holo!PointAndMarkersInText, Holo!PointMax
  <2> QED BY <1>3, <1>6, <2>2
<1>8. Holo!KeepsPlaces
  <2>1. SUFFICES ASSUME NEW c \in Buffers, contents'[c] # contents[c],
                        NEW i \in DOMAIN contents'[c]
                 PROVE  contents'[c][i] = 0
    BY <1>3 DEF Holo!KeepsPlaces
  <2>2. contents'[c] = w
    BY <1>4, <2>1
  <2>3. DOMAIN w = 1 .. n
    BY <1>1 DEF Texts
  <2> QED BY <1>1, <2>2, <2>3
<1> QED BY <1>5, <1>7, <1>8 DEF HoloInv, HoloGoal

\* Where only markers move, they are at once within the text.
LEMMA SettingKeeps ==
  ASSUME HoloInv, Holo!HoloAssumption, NEW m \in Values,
         \/ \E b \in Buffers, pos \in Int : Holo!SetMarker(m, b, pos)
         \/ Holo!SetMarkerNowhere(m)
         \/ Holo!SetMarkerFails(m)
  PROVE  HoloGoal
<1> USE DEF HoloGoal
<1>1. HoloTypes /\ ChainedWhereTheyAre /\ Holo!PointAndMarkersInText
  BY DEF HoloInv
<1>2. /\ Holo!Unchained(m) \in [Buffers -> SUBSET Values]
      /\ \A b \in Buffers : m \notin Holo!Unchained(m)[b]
      /\ \A b \in Buffers : Holo!Unchained(m)[b] \subseteq chain[b]
  BY <1>1 DEF HoloTypes, ChainedWhereTheyAre, Holo!Unchained
<1>3. CASE Holo!SetMarkerFails(m)
  <2>1. chain' = Holo!Unchained(m)
        /\ UNCHANGED <<contents, point, place, current, outside>>
    BY <1>3 DEF Holo!SetMarkerFails
  <2>2. HoloTypes' /\ ChainedWhereTheyAre'
    BY <1>1, <1>2, <2>1 DEF HoloTypes, ChainedWhereTheyAre
  <2>3. Holo!PointAndMarkersInText' /\ Holo!KeepsPlaces
    BY <1>1, <1>2, <2>1
      DEF Holo!PointAndMarkersInText, Holo!PointMax, Holo!KeepsPlaces
  <2> QED BY <2>2, <2>3 DEF HoloInv
<1>4. CASE Holo!SetMarkerNowhere(m)
  <2>1. /\ chain' = Holo!Unchained(m)
        /\ place' = [place EXCEPT ![m] = Holo!Unset]
        /\ UNCHANGED <<contents, point, current, outside>>
    BY <1>4 DEF Holo!SetMarkerNowhere
  <2>2. Holo!Unset \in Spots
    BY DEF Holo!Unset, Spots
  <2>3. place' \in [Values -> Spots]
        /\ \A k \in Values \ {m} : place'[k] = place[k]
    BY <1>1, <2>1, <2>2 DEF HoloTypes
  <2>4. \A b \in Buffers : \A k \in chain'[b] :
          k \in chain[b] /\ place'[k] = place[k]
    BY <1>1, <1>2, <2>1, <2>3 DEF HoloTypes
  <2>5. HoloTypes' /\ ChainedWhereTheyAre'
    BY <1>1, <1>2, <2>1, <2>3, <2>4 DEF HoloTypes, ChainedWhereTheyAre
  <2>6. Holo!PointAndMarkersInText' /\ Holo!KeepsPlaces
    BY <1>1, <2>1, <2>4
      DEF Holo!PointAndMarkersInText, Holo!PointMax, Holo!KeepsPlaces
  <2> QED BY <2>5, <2>6 DEF HoloInv
<1>5. ASSUME NEW b \in Buffers, NEW pos \in Int, Holo!SetMarker(m, b, pos)
      PROVE  HoloGoal
  <2> DEFINE r == [b |-> b, pos |-> Holo!Clamp(contents[b], pos)]
  <2>1. /\ chain' = [Holo!Unchained(m) EXCEPT ![b] = @ \cup {m}]
        /\ place' = [place EXCEPT ![m] = r]
        /\ UNCHANGED <<contents, point, current, outside>>
    BY <1>5 DEF Holo!SetMarker
  <2>2. contents[b] \in Texts
    BY <1>1 DEF HoloTypes
  <2>3. Len(contents[b]) \in Nat
    BY <2>2 DEF Texts
  <2>4. Holo!Clamp(contents[b], pos) \in 1 .. Len(contents[b]) + 1
    BY <2>3 DEF Holo!Clamp, Holo!PointMax
  <2>5. Holo!Clamp(contents[b], pos) \in Int
    BY <2>3, <2>4
  <2>6. /\ r \in Spots /\ r.b = b /\ r.pos \in 1 .. Len(contents[b]) + 1
    BY <2>4, <2>5 DEF Spots
  <2> HIDE DEF r
  <2>7. /\ place' \in [Values -> Spots] /\ place'[m] = r
        /\ \A k \in Values \ {m} : place'[k] = place[k]
    BY <1>1, <2>1, <2>6 DEF HoloTypes
  <2>8. chain' \in [Buffers -> SUBSET Values]
    BY <1>2, <2>1
  <2>9. \A c \in Buffers : \A k \in chain'[c] :
          \/ k = m /\ c = b
          \/ k \in Values /\ k # m /\ k \in chain[c]
    BY <1>2, <2>1, <2>8
  <2>10. HoloTypes' /\ ChainedWhereTheyAre'
    BY <1>1, <2>1, <2>6, <2>7, <2>8, <2>9 DEF HoloTypes, ChainedWhereTheyAre
  <2>11. Holo!PointAndMarkersInText'
    BY <1>1, <2>1, <2>6, <2>7, <2>9 DEF Holo!PointAndMarkersInText, Holo!PointMax
  <2>12. Holo!KeepsPlaces
    BY <2>1 DEF Holo!KeepsPlaces
  <2> QED BY <2>10, <2>11, <2>12 DEF HoloInv
<1> QED BY <1>3, <1>4, <1>5

\* make-marker, set-marker and what uses them.
LEMMA MakingKeeps ==
  ASSUME HoloInv, Holo!HoloAssumption, NEW m \in Values, NEW r \in Spots,
         Holo!Make(m, r)
  PROVE  HoloGoal
<1>1. HoloTypes /\ ChainedWhereTheyAre /\ Holo!PointAndMarkersInText
  BY DEF HoloInv
<1>2. /\ place[m] = Holo!Unset /\ place' = [place EXCEPT ![m] = r]
      /\ chain' = [b \in Buffers |->
                     IF r.b = b THEN chain[b] \cup {m} ELSE chain[b]]
      /\ outside' = outside \cup
            {b \in Buffers : r.b = b /\ r.pos \notin 1 .. Len(contents[b]) + 1}
      /\ UNCHANGED <<contents, point, current>>
  BY DEF Holo!Make, Holo!PointMax
<1>3. \A b \in Buffers : m \notin chain[b]
  <2>1. place[m].b \notin Buffers
    BY <1>2 DEF Holo!Unset, Holo!HoloAssumption
  <2> QED BY <1>1, <2>1 DEF ChainedWhereTheyAre
<1>4. /\ place' \in [Values -> Spots] /\ place'[m] = r
      /\ \A k \in Values \ {m} : place'[k] = place[k]
  BY <1>1, <1>2 DEF HoloTypes
<1>5. chain' \in [Buffers -> SUBSET Values]
  BY <1>1, <1>2 DEF HoloTypes
<1>6. \A c \in Buffers : \A k \in chain'[c] :
        \/ k = m /\ r.b = c
        \/ k \in Values \ {m} /\ k \in chain[c]
  BY <1>1, <1>2, <1>3 DEF HoloTypes
<1>7. HoloTypes' /\ ChainedWhereTheyAre'
  BY <1>1, <1>2, <1>4, <1>5, <1>6 DEF HoloTypes, ChainedWhereTheyAre
<1>8. \A c \in Buffers \ outside' :
        c \notin outside /\ (r.b = c => r.pos \in 1 .. Len(contents[c]) + 1)
  BY <1>2
<1>9. Holo!PointAndMarkersInText'
  BY <1>1, <1>2, <1>4, <1>6, <1>8 DEF Holo!PointAndMarkersInText, Holo!PointMax
<1>10. Holo!KeepsPlaces
  BY <1>2 DEF Holo!KeepsPlaces
<1> QED BY <1>7, <1>9, <1>10 DEF HoloInv, HoloGoal

\* goto-char and set-buffer.
LEMMA MovingKeeps ==
  ASSUME HoloInv, \/ \E pos \in Int : Holo!GotoChar(pos)
                  \/ \E b \in Buffers : Holo!SetBuffer(b)
  PROVE  HoloGoal
<1>1. HoloTypes /\ ChainedWhereTheyAre /\ Holo!PointAndMarkersInText
  BY DEF HoloInv
<1>2. ASSUME NEW pos \in Int, Holo!GotoChar(pos)
      PROVE  HoloGoal
  <2> DEFINE y == Holo!Clamp(contents[current], pos)
  <2>1. /\ point' = [point EXCEPT ![current] = y]
        /\ UNCHANGED <<contents, chain, place, current, outside>>
    BY <1>2 DEF Holo!GotoChar
  <2>2. contents[current] \in Texts
    BY <1>1 DEF HoloTypes
  <2>3. Len(contents[current]) \in Nat
    BY <2>2 DEF Texts
  <2>4. y \in Int /\ y \in 1 .. Len(contents[current]) + 1
    BY <2>3 DEF Holo!Clamp, Holo!PointMax
  <2> HIDE DEF y
  <2>5. HoloTypes' /\ ChainedWhereTheyAre'
    BY <1>1, <2>1, <2>4 DEF HoloTypes, ChainedWhereTheyAre
  <2>6. Holo!PointAndMarkersInText'
    BY <1>1, <2>1, <2>4 DEF HoloTypes, Holo!PointAndMarkersInText, Holo!PointMax
  <2>7. Holo!KeepsPlaces
    BY <2>1 DEF Holo!KeepsPlaces
  <2> QED BY <2>5, <2>6, <2>7 DEF HoloInv, HoloGoal
<1>3. ASSUME NEW b \in Buffers, Holo!SetBuffer(b)
      PROVE  HoloGoal
  BY <1>1, <1>3
     DEF Holo!SetBuffer, HoloTypes, ChainedWhereTheyAre, Holo!KeepsPlaces,
     Holo!PointAndMarkersInText, Holo!PointMax, HoloInv, HoloGoal
<1> QED BY <1>2, <1>3

\* Every primitive keeps the invariant.
LEMMA HoloStep ==
  ASSUME HoloInv, Holo!HoloAssumption, Holo!HoloNext
  PROVE  HoloGoal
<1>1. MaxText \in Nat /\ Holo!Positions \subseteq Int
  BY DEF Holo!HoloAssumption, Holo!Positions
<1>2. CASE \E n \in 1 .. 2 : Holo!Insert(n) \/ Holo!InsertFileContents(n)
  BY <1>2, InsertKeeps
<1>3. ASSUME NEW lo \in Int, NEW hi \in Int, Holo!CaseRegion(lo, hi)
      PROVE  HoloGoal
  <2>1. Holo!Replace(lo, hi, hi - lo) /\ hi - lo \in Nat
    BY <1>3 DEF Holo!CaseRegion, Holo!Replace, Holo!Deletable
  <2> QED BY <2>1, ReplaceKeeps
<1>4. ASSUME NEW lo \in Int, NEW hi \in Int, NEW n \in 0 .. 2,
             Holo!ReplaceMatch(lo - 1, hi - 1, n)
      PROVE  HoloGoal
  <2>1. 1 + (lo - 1) = lo /\ 1 + (hi - 1) = hi /\ n \in Nat
    OBVIOUS
  <2>2. Holo!Replace(lo, hi, n)
    BY <1>4, <2>1 DEF Holo!ReplaceMatch
  <2> QED BY <2>1, <2>2, ReplaceKeeps
<1>5. CASE \E lo, hi \in Holo!Positions :
             \/ Holo!Delete(lo, hi) \/ Holo!CaseRegion(lo, hi)
             \/ \E n \in 0 .. 2 : Holo!ReplaceMatch(lo - 1, hi - 1, n)
  BY <1>1, <1>3, <1>4, <1>5, DeleteKeeps
<1>6. HoloTypes
  BY DEF HoloInv
<1>7. Len(contents[current]) \in Nat /\ point[current] \in Int
  <2>1. contents[current] \in Texts /\ point[current] \in Int
    BY <1>6 DEF HoloTypes
  <2> QED BY <2>1 DEF Texts
<1>8. ASSUME NEW n \in {-2, -1, 1, 2}, Holo!DeleteChar(n)
      PROVE  HoloGoal
  <2>1. \E lo, hi \in Int : Holo!Delete(lo, hi)
    <3>1. n \in Int /\ Holo!PointMax(contents[current]) \in Int
      BY <1>7 DEF Holo!PointMax
    <3> DEFINE end == IF point[current] + n < Holo!PointMax(contents[current])
                        THEN point[current] + n
                        ELSE Holo!PointMax(contents[current])
               start == IF point[current] + n > 1 THEN point[current] + n ELSE 1
    <3>2. end \in Int /\ start \in Int
      BY <1>7, <3>1
    <3>3. Holo!Delete(point[current], end) \/ Holo!Delete(start, point[current])
      BY <1>8 DEF Holo!DeleteChar
    <3> HIDE DEF end, start
    <3> QED BY <1>7, <3>2, <3>3
  <2> QED BY <2>1, DeleteKeeps
<1>9. CASE Holo!EraseBuffer
  <2>1. 1 \in Int /\ Holo!PointMax(contents[current]) \in Int
    BY <1>7 DEF Holo!PointMax
  <2>2. Holo!Delete(1, Holo!PointMax(contents[current]))
    BY <1>9 DEF Holo!EraseBuffer
  <2> QED BY <2>1, <2>2, DeleteKeeps
<1>10. CASE \E pos \in {-1} \cup Holo!Positions : Holo!GotoChar(pos)
  <2>1. {-1} \cup Holo!Positions \subseteq Int
    BY <1>1
  <2> QED BY <1>10, <2>1, MovingKeeps
<1>11. CASE \E b \in Buffers : \/ Holo!SetBuffer(b)
                               \/ \E n \in 0 .. 2 : Holo!FindFileNoselect(b, n)
  <2>1. 0 .. 2 \subseteq Nat
    OBVIOUS
  <2> QED BY <1>11, <2>1, MovingKeeps, FindFileKeeps
<1>12. ASSUME NEW m \in Values, Holo!CopyMarker(m) \/ Holo!PointMarker(m)
       PROVE  HoloGoal
  <2>1. ASSUME NEW from \in Values, Holo!Make(m, place[from])
        PROVE  HoloGoal
    BY <1>6, <2>1, MakingKeeps DEF HoloTypes
  <2>2. ASSUME NEW pos \in Int, Holo!Make(m, [b |-> current, pos |-> pos])
        PROVE  HoloGoal
    <3>1. [b |-> current, pos |-> pos] \in Spots
      BY <1>6 DEF HoloTypes, Spots
    <3> QED BY <2>2, <3>1, MakingKeeps
  <2>3. 0 .. MaxText + 2 \subseteq Int
        /\ {1, point[current], Holo!PointMax(contents[current])} \subseteq Int
    BY <1>1, <1>7 DEF Holo!PointMax
  <2> QED BY <1>12, <2>1, <2>2, <2>3 DEF Holo!CopyMarker, Holo!PointMarker
<1>13. ASSUME NEW m \in Values,
              \/ Holo!SetMarkerNowhere(m) \/ Holo!SetMarkerFails(m)
              \/ \E b \in Buffers, pos \in {-1} \cup Holo!Positions :
                   Holo!SetMarker(m, b, pos)
       PROVE  HoloGoal
  <2>1. {-1} \cup Holo!Positions \subseteq Int
    BY <1>1
  <2> QED BY <1>13, <2>1, SettingKeeps
<1> QED BY <1>2, <1>5, <1>8, <1>9, <1>10, <1>11, <1>12, <1>13 DEF Holo!HoloNext

\* holomacs starts in order.
LEMMA HoloStarts ==
  ASSUME Holo!HoloInit
  PROVE  HoloInv
<1>1. <<>> \in Texts /\ Len(<<>>) = 0
  BY DEF Texts
<1>2. Holo!Unset \in Spots
  BY DEF Holo!Unset, Spots
<1> QED BY <1>1, <1>2 DEF Holo!HoloInit, HoloInv, HoloTypes, ChainedWhereTheyAre,
           Holo!PointAndMarkersInText, Holo!PointMax

\* Nothing changes while another session is used.
LEMMA HoloStays ==
  ASSUME UNCHANGED holoVars, HoloInv
  PROVE  HoloInv' /\ Holo!KeepsPlaces
BY DEF holoVars, HoloInv, HoloTypes, ChainedWhereTheyAre, Holo!KeepsPlaces,
   Holo!PointAndMarkersInText, Holo!PointMax

\* The buffers and markers of holomacs are always in order (primitives.lisp):
\* the invariant the two theorems below rest on.
LEMMA HoloAlways == SessionsSpec => [](session = "holo" => HoloInv)
<1> DEFINE I == session = "holo" => HoloInv
<1>1. SessionsInit => I
  BY HoloStarts DEF SessionsInit
<1>2. I /\ [SessionsNext]_sessionsVars => I'
  <2> SUFFICES ASSUME I, [SessionsNext]_sessionsVars, session' = "holo"
               PROVE  HoloInv'
    OBVIOUS
  <2>1. CASE SessionsNext
    BY <2>1, HoloStep, SessionsAssumption DEF SessionsNext, HoloGoal
  <2>2. CASE UNCHANGED sessionsVars
    BY <2>2, HoloStays DEF sessionsVars
  <2> QED BY <2>1, <2>2
<1> QED BY <1>1, <1>2, PTL DEF SessionsSpec

\* Whatever the buffers and markers, point and the markers a buffer knows are
\* positions of its text after every primitive of holomacs, but in buffers where
\* an action that moves none of them has cut the text (primitives.lisp).
THEOREM PositionsStayInText == SessionsSpec => []PositionsInText
<1>1. (session = "holo" => HoloInv) => PositionsInText
  BY DEF HoloInv, PositionsInText
<1> QED BY <1>1, HoloAlways, PTL

\* Each marker a buffer knows stays between the characters it was between, as
\* far as they remain, and what is inserted at it comes after it, whatever
\* primitive edits (adjust-markers-on-insert and -on-delete); except in buffers
\* whose text was cut by an action that moves no marker (outside), and where
\* find-file puts a longer text in the place of all that was there.
THEOREM EditsMoveMarkers == SessionsSpec => MarkersKeepPlace
<1> DEFINE I == session = "holo" => HoloInv
<1>1. I /\ [SessionsNext]_sessionsVars
        => [session = "holo" => Holo!KeepsPlaces]_sessionsVars
  <2> SUFFICES ASSUME I, [SessionsNext]_sessionsVars, session = "holo"
               PROVE  Holo!KeepsPlaces
    OBVIOUS
  <2>1. CASE SessionsNext
    BY <2>1, HoloStep, SessionsAssumption DEF SessionsNext, HoloGoal
  <2>2. CASE UNCHANGED sessionsVars
    BY <2>2, HoloStays DEF sessionsVars
  <2> QED BY <2>1, <2>2
<1> QED BY <1>1, HoloAlways, PTL DEF SessionsSpec, MarkersKeepPlace

-----------------------------------------------------------------------------
(***************************************************************************)
(* Buffer-local variables.  The value cell is in order if the element it   *)
(* points to is that of the buffer it names, and it holds the default      *)
(* itself when it points to the cons that ends in it.                      *)
(***************************************************************************)
CellOK(s) ==
  /\ s \in Locals!Symbol
  /\ s.kind = "plain" => \A b \in Buffers : s.alist[b] = NoValue
  /\ s.kind = "slot" => \A b \in Buffers : s.alist[b] # NoValue
  /\ s.kind \in {"some", "always"} =>
       /\ s.buffer = "nil" => s.element \in {"default", "dead"}
       /\ s.buffer # "nil" =>
            s.element = IF s.alist[s.buffer] # NoValue THEN s.buffer ELSE "default"
       /\ s.element = "default" => s.realvalue = s.default

\* What a buffer sees, as it is before the cell is looked up.
Seen(s, b) ==
  CASE s.kind = "plain" -> s.realvalue
    [] s.kind = "slot" -> s.alist[b]
    [] s.kind \notin {"plain", "slot"} ->
         IF s.alist[b] = NoValue THEN s.default
         ELSE IF s.element = b THEN s.realvalue ELSE s.alist[b]
Own(s) == IF s.kind = "slot" THEN s.flags
          ELSE {b \in Buffers : s.alist[b] # NoValue}
DefaultOf(s) == IF s.kind = "plain" THEN s.realvalue ELSE s.default

Names == {"nil", "default", "dead"}

\* The fields of a symbol.
LEMMA CellTypes ==
  ASSUME NEW s \in Locals!Symbol
  PROVE  /\ s.kind \in {"plain", "some", "always", "slot"}
         /\ s.forwarded \in BOOLEAN /\ s.realvalue \in Values
         /\ s.buffer \in Buffers \cup {"nil"}
         /\ s.element \in Buffers \cup {"default", "dead"}
         /\ s.default \in Values /\ s.alist \in [Buffers -> Values \cup {NoValue}]
         /\ s.flags \in SUBSET Buffers
BY DEF Locals!Symbol, Locals!None, Locals!Default

\* Storing the value cell in the element it came from changes no value
\* (symbol-value and set in data.c).
LEMMA SwappedOut ==
  ASSUME NEW s, CellOK(s), s.kind \in {"some", "always"}, Names \cap Buffers = {},
         NoValue \notin Values
  PROVE  LET o == Locals!SwapOut(s)
         IN /\ CellOK(o) /\ o.kind = s.kind /\ o.forwarded = s.forwarded
            /\ o.realvalue = s.realvalue /\ o.buffer = s.buffer
            /\ o.element = s.element /\ o.default = s.default
            /\ o.flags = s.flags
            /\ o.alist = [b \in Buffers |->
                            IF b = s.element THEN s.realvalue ELSE s.alist[b]]
<1>1. s \in Locals!Symbol
  BY DEF CellOK
<1> DEFINE T == [b \in Buffers |-> IF b = s.element THEN s.realvalue ELSE s.alist[b]]
<1>2. /\ s.realvalue \in Values /\ s.element \in Buffers \cup {"default", "dead"}
      /\ s.alist \in [Buffers -> Values \cup {NoValue}]
      /\ s.buffer \in Buffers \cup {"nil"}
  BY <1>1, CellTypes
<1>3. CASE s.element \in Buffers
  <2>1. s.element # "default" /\ s.buffer = s.element
        /\ s.alist[s.buffer] # NoValue
    BY <1>3 DEF CellOK, Names
  <2>2. Locals!SwapOut(s) = [s EXCEPT !.alist[s.element] = s.realvalue]
    BY <1>3, <2>1 DEF Locals!SwapOut, Locals!Default
  <2>3. [s.alist EXCEPT ![s.element] = s.realvalue] = T
    BY <1>2, <1>3
  <2>4. T \in [Buffers -> Values \cup {NoValue}]
    BY <1>2
  <2> DEFINE o == Locals!SwapOut(s)
  <2>5. /\ o \in Locals!Symbol /\ o.kind = s.kind /\ o.forwarded = s.forwarded
        /\ o.realvalue = s.realvalue /\ o.buffer = s.buffer
        /\ o.element = s.element /\ o.default = s.default
        /\ o.flags = s.flags
        /\ o.alist = [s.alist EXCEPT ![s.element] = s.realvalue]
    BY <1>1, <1>2, <1>3, <2>2 DEF Locals!Symbol
  <2> HIDE DEF o
  <2>6. CellOK(o)
    BY <1>2, <1>3, <2>1, <2>3, <2>5 DEF CellOK
  <2> QED BY <2>3, <2>5, <2>6 DEF o
<1>4. CASE s.element = "default"
  <2>1. s.realvalue = s.default /\ s.element \notin Buffers
    BY <1>4 DEF CellOK, Names
  <2>2. Locals!SwapOut(s) = [s EXCEPT !.default = s.realvalue]
    BY <1>4, <2>1 DEF Locals!SwapOut, Locals!Default
  <2>3. [s EXCEPT !.default = s.realvalue] = s
    BY <1>1, <2>1 DEF Locals!Symbol
  <2>4. s.alist = T
    BY <1>2, <2>1
  <2> QED BY <2>2, <2>3, <2>4
<1>5. CASE s.element = "dead"
  <2>1. s.element \notin Buffers
    BY <1>5 DEF Names
  <2>2. Locals!SwapOut(s) = s
    BY <1>5, <2>1 DEF Locals!SwapOut, Locals!Default
  <2>3. s.alist = T
    BY <1>2, <2>1
  <2> QED BY <2>2, <2>3
<1> QED BY <1>2, <1>3, <1>4, <1>5

\* A lookup fills the cell for the buffer that asks.
LEMMA LookedUpCell ==
  ASSUME NEW s, CellOK(s), s.kind \in {"some", "always"}, Names \cap Buffers = {},
         NoValue \notin Values, NEW b \in Buffers, s.buffer # b
  PROVE  LET o == Locals!Fsymbol_value(s, b)
         IN /\ CellOK(o) /\ o.kind = s.kind /\ o.forwarded = s.forwarded
            /\ o.buffer = b /\ o.default = s.default /\ o.flags = s.flags
            /\ o.realvalue = Seen(s, b)
            /\ o.element = IF s.alist[b] # NoValue THEN b ELSE "default"
            /\ o.alist = [c \in Buffers |->
                            IF c = s.element THEN s.realvalue ELSE s.alist[c]]
<1> DEFINE u == Locals!SwapOut(s)
           o == Locals!Fsymbol_value(s, b)
<1>1. /\ CellOK(u) /\ u.kind = s.kind /\ u.forwarded = s.forwarded
      /\ u.realvalue = s.realvalue /\ u.buffer = s.buffer
      /\ u.element = s.element /\ u.default = s.default
      /\ u.flags = s.flags
      /\ u.alist = [c \in Buffers |->
                      IF c = s.element THEN s.realvalue ELSE s.alist[c]]
  BY SwappedOut
<1>2. s \in Locals!Symbol /\ u \in Locals!Symbol
  BY <1>1 DEF CellOK
<1>3. /\ s.realvalue \in Values /\ s.element \in Buffers \cup {"default", "dead"}
      /\ s.alist \in [Buffers -> Values \cup {NoValue}] /\ s.default \in Values
      /\ s.buffer \in Buffers \cup {"nil"}
  BY <1>2, CellTypes
<1>4. s.element # b
  BY <1>3 DEF CellOK, Names
<1>5. u.alist[b] = s.alist[b]
  BY <1>1, <1>4
<1>6. o = IF u.alist[b] # NoValue
            THEN [[u EXCEPT !.buffer = b, !.element = b] EXCEPT !.realvalue = u.alist[b]]
            ELSE [[u EXCEPT !.buffer = b, !.element = "default"]
                    EXCEPT !.realvalue = u.default]
  BY <1>1 DEF Locals!Fsymbol_value, Locals!Swapped, Locals!HasOwn, Locals!Encache,
     Locals!Default
<1>7. CASE u.alist[b] # NoValue
  <2>1. u.alist[b] \in Values
    BY <1>3, <1>5, <1>7
  <2> HIDE DEF u
  <2>2. o = [[u EXCEPT !.buffer = b, !.element = b] EXCEPT !.realvalue = u.alist[b]]
    BY <1>6, <1>7
  <2> HIDE DEF o
  <2>3. /\ o \in Locals!Symbol /\ o.kind = u.kind /\ o.forwarded = u.forwarded
        /\ o.realvalue = u.alist[b] /\ o.buffer = b /\ o.element = b
        /\ o.default = u.default /\ o.flags = u.flags /\ o.alist = u.alist
    BY <1>2, <2>1, <2>2 DEF Locals!Symbol, Locals!None, Locals!Default
  <2>4. CellOK(o)
    BY <1>1, <1>7, <2>3 DEF CellOK, Names
  <2>5. Seen(s, b) = s.alist[b]
    BY <1>4, <1>5, <1>7 DEF Seen
  <2> QED BY <1>1, <1>5, <1>7, <2>3, <2>4, <2>5 DEF o
<1>8. CASE u.alist[b] = NoValue
  <2> HIDE DEF u
  <2>2. o = [[u EXCEPT !.buffer = b, !.element = "default"] EXCEPT !.realvalue = u.default]
    BY <1>6, <1>8
  <2> HIDE DEF o
  <2>3. /\ o \in Locals!Symbol /\ o.kind = u.kind /\ o.forwarded = u.forwarded
        /\ o.realvalue = u.default /\ o.buffer = b /\ o.element = "default"
        /\ o.default = u.default /\ o.flags = u.flags /\ o.alist = u.alist
    BY <1>2, <1>3, <1>1, <2>2 DEF Locals!Symbol, Locals!None, Locals!Default
  <2>4. CellOK(o)
    BY <1>1, <1>8, <2>3 DEF CellOK, Names
  <2>5. Seen(s, b) = s.default
    BY <1>4, <1>5, <1>8 DEF Seen
  <2> QED BY <1>1, <1>5, <1>8, <2>3, <2>4, <2>5 DEF o
<1> QED BY <1>7, <1>8

\* Another cell that amounts to the same.
Alike(o, s) ==
  /\ CellOK(o) /\ o.kind = s.kind /\ o.forwarded = s.forwarded
  /\ Own(o) = Own(s) /\ DefaultOf(o) = DefaultOf(s)
  /\ \A c \in Buffers : Seen(o, c) = Seen(s, c)

NamesApart == Names \cap Buffers = {} /\ NoValue \notin Values

\* symbol-value changes nothing that a buffer sees.
LEMMA Looking ==
  ASSUME NEW s, CellOK(s), NamesApart, NEW b \in Buffers
  PROVE  LET o == Locals!Fsymbol_value(s, b)
         IN /\ Alike(o, s)
            /\ s.kind \in {"some", "always"} =>
                 o.buffer = b /\ o.realvalue = Seen(s, b)
<1> DEFINE o == Locals!Fsymbol_value(s, b)
<1>0. s \in Locals!Symbol
  BY DEF CellOK
<1>1. /\ s.kind \in {"plain", "some", "always", "slot"}
      /\ s.realvalue \in Values /\ s.element \in Buffers \cup {"default", "dead"}
      /\ s.alist \in [Buffers -> Values \cup {NoValue}] /\ s.default \in Values
      /\ s.buffer \in Buffers \cup {"nil"}
  BY <1>0, CellTypes
<1>2. CASE s.kind \notin {"some", "always"}
  <2>1. o = s
    BY <1>2 DEF Locals!Fsymbol_value, Locals!Swapped
  <2> QED BY <1>2, <2>1 DEF Alike
<1>3. CASE s.kind \in {"some", "always"} /\ s.buffer = b
  <2>1. o = s
    BY <1>3 DEF Locals!Fsymbol_value
  <2>2. s.realvalue = Seen(s, b)
    BY <1>1, <1>3 DEF CellOK, Seen, NamesApart, Names
  <2> QED BY <1>3, <2>1, <2>2 DEF Alike
<1>4. CASE s.kind \in {"some", "always"} /\ s.buffer # b
  <2>1. /\ CellOK(o) /\ o.kind = s.kind /\ o.forwarded = s.forwarded
        /\ o.buffer = b /\ o.default = s.default /\ o.flags = s.flags
        /\ o.realvalue = Seen(s, b)
        /\ o.element = IF s.alist[b] # NoValue THEN b ELSE "default"
        /\ o.alist = [c \in Buffers |->
                        IF c = s.element THEN s.realvalue ELSE s.alist[c]]
    BY <1>4, LookedUpCell DEF NamesApart
  <2> HIDE DEF o
  <2>2. ASSUME NEW c \in Buffers
        PROVE  /\ c = s.element => s.alist[c] # NoValue
               /\ o.alist[c] # NoValue <=> s.alist[c] # NoValue
    BY <1>1, <1>4, <2>1 DEF CellOK, NamesApart, Names
  <2>3. Own(o) = Own(s) /\ DefaultOf(o) = DefaultOf(s)
    BY <1>4, <2>1, <2>2 DEF Own, DefaultOf
  <2>4. ASSUME NEW c \in Buffers
        PROVE  Seen(o, c) = Seen(s, c)
    <3>1. CASE c = b
      BY <1>4, <2>1, <2>2, <3>1 DEF Seen
    <3>2. CASE c # b
      <4>1. o.element # c
        BY <2>1, <3>2 DEF NamesApart, Names
      <4> QED BY <1>4, <2>1, <2>2, <4>1 DEF Seen
    <3> QED BY <3>1, <3>2
  <2> QED BY <1>4, <2>1, <2>3, <2>4 DEF Alike, o
<1> QED BY <1>2, <1>3, <1>4

\* ValueIn, of the model, is what a lookup would find.
LEMMA ValueIs ==
  ASSUME NEW s, CellOK(s), NamesApart, NEW b \in Buffers
  PROVE  Locals!ValueIn(s, b) = Seen(s, b)
<1>1. s.kind \in {"plain", "some", "always", "slot"}
  BY CellTypes DEF CellOK
<1>2. CASE s.kind = "slot"
  BY <1>2 DEF Locals!ValueIn, Seen
<1>3. CASE s.kind = "plain"
  BY <1>3 DEF Locals!ValueIn, Locals!Fsymbol_value, Locals!Swapped, Seen
<1>4. CASE s.kind \in {"some", "always"}
  BY <1>4, Looking DEF Locals!ValueIn
<1> QED BY <1>1, <1>2, <1>3, <1>4

\* set-buffer swaps forwarded variables in, and no buffer sees another value.
LEMMA Selecting ==
  ASSUME NEW s, CellOK(s), NamesApart, NEW a \in Buffers, NEW b \in Buffers
  PROVE  LET o == Locals!Selected(s, a, b)
         IN /\ Alike(o, s)
            /\ \/ o = s
               \/ s.kind \in {"some", "always"} /\ o.buffer = b
            /\ s.forwarded /\ a # b /\ s.kind \in {"some", "always"}
                 /\ (a \in Own(s) \/ b \in Own(s)) => o.buffer = b
<1>1. Alike(s, s)
  BY DEF Alike
<1> QED BY <1>1, Looking DEF Locals!Selected, Locals!Swapped, Locals!HasOwn, Own

\* set of a variable with a cell.
LEMMA SetCell ==
  ASSUME NEW s, CellOK(s), s.kind \in {"some", "always"}, NamesApart,
         NEW b \in Buffers, NEW v \in Values
  PROVE  LET o == Locals!Fset(s, b, v)
             mine == s.alist[b] # NoValue \/ s.kind = "always"
         IN /\ CellOK(o) /\ o.kind = s.kind /\ o.forwarded = s.forwarded
            /\ o.realvalue = v /\ o.buffer = b
            /\ o.element = IF mine THEN b ELSE "default"
            /\ o.default = IF mine THEN s.default ELSE v
            /\ o.flags = s.flags
            /\ o.alist[b] # NoValue <=> mine
            /\ \A c \in Buffers \ {b} :
                 o.alist[c] = IF c = s.element THEN s.realvalue ELSE s.alist[c]
<1> DEFINE t == Locals!ForSetting(s, b)
           o == Locals!Fset(s, b, v)
           u == Locals!SwapOut(s)
           mine == s.alist[b] # NoValue \/ s.kind = "always"
<1>0. s \in Locals!Symbol
  BY DEF CellOK
<1>1. /\ s.realvalue \in Values /\ s.element \in Buffers \cup {"default", "dead"}
      /\ s.alist \in [Buffers -> Values \cup {NoValue}] /\ s.default \in Values
      /\ s.buffer \in Buffers \cup {"nil"} /\ s.flags \in SUBSET Buffers
      /\ s.forwarded \in BOOLEAN
  BY <1>0, CellTypes
<1>2. /\ CellOK(u) /\ u.kind = s.kind /\ u.forwarded = s.forwarded
      /\ u.realvalue = s.realvalue /\ u.buffer = s.buffer
      /\ u.element = s.element /\ u.default = s.default
      /\ u.flags = s.flags
      /\ u.alist = [c \in Buffers |->
                      IF c = s.element THEN s.realvalue ELSE s.alist[c]]
  BY SwappedOut DEF NamesApart
<1>3. u \in Locals!Symbol
  BY <1>2 DEF CellOK
<1>4. u.alist[b] # NoValue <=> s.alist[b] # NoValue
  BY <1>1, <1>2 DEF CellOK, NamesApart, Names
<1> HIDE DEF u
<1>5. /\ t \in Locals!Symbol /\ t.kind = s.kind /\ t.forwarded = s.forwarded
      /\ t.buffer = b /\ t.default = s.default /\ t.flags = s.flags
      /\ t.element = IF mine THEN b ELSE "default"
      /\ t.alist[b] # NoValue <=> mine
      /\ \A c \in Buffers \ {b} :
           t.alist[c] = IF c = s.element THEN s.realvalue ELSE s.alist[c]
  <2>1. CASE s.kind = "some" /\ s.buffer = b
    <3>1. t = s
      BY <2>1 DEF Locals!ForSetting
    <3>2. s.element = IF mine THEN b ELSE "default"
      BY <2>1 DEF CellOK, NamesApart, Names
    <3>3. \A c \in Buffers \ {b} : c # s.element
      BY <3>2 DEF NamesApart, Names
    <3> QED BY <1>0, <2>1, <3>1, <3>2, <3>3
  <2>2. CASE ~(s.kind = "some" /\ s.buffer = b) /\ u.alist[b] # NoValue
    <3>1. t = [u EXCEPT !.buffer = b, !.element = b]
      BY <2>2 DEF Locals!ForSetting, Locals!HasOwn, Locals!Encache, u
    <3> HIDE DEF t
    <3>2. /\ t \in Locals!Symbol /\ t.kind = u.kind /\ t.forwarded = u.forwarded
          /\ t.buffer = b /\ t.element = b
          /\ t.default = u.default /\ t.flags = u.flags /\ t.alist = u.alist
      BY <1>3, <3>1 DEF Locals!Symbol, Locals!None, Locals!Default
    <3> QED BY <1>1, <1>2, <1>4, <2>2, <3>2
  <2>3. CASE ~(s.kind = "some" /\ s.buffer = b) /\ ~(u.alist[b] # NoValue)
             /\ s.kind = "some"
    <3>1. t = [u EXCEPT !.buffer = b, !.element = "default"]
      BY <2>3
         DEF Locals!ForSetting, Locals!HasOwn, Locals!Encache, Locals!Default, u
    <3> HIDE DEF t
    <3>2. /\ t \in Locals!Symbol /\ t.kind = u.kind /\ t.forwarded = u.forwarded
          /\ t.buffer = b /\ t.element = "default"
          /\ t.default = u.default /\ t.flags = u.flags /\ t.alist = u.alist
      BY <1>3, <3>1 DEF Locals!Symbol, Locals!None, Locals!Default
    <3> QED BY <1>1, <1>2, <1>4, <2>3, <3>2
  <2>4. CASE ~(u.alist[b] # NoValue) /\ s.kind = "always"
    <3>1. t = [[u EXCEPT !.buffer = b, !.element = b] EXCEPT !.alist[b] = s.realvalue]
      BY <2>4 DEF Locals!ForSetting, Locals!HasOwn, Locals!Encache, u
    <3> HIDE DEF t
    <3>2. /\ t \in Locals!Symbol /\ t.kind = u.kind /\ t.forwarded = u.forwarded
          /\ t.buffer = b /\ t.element = b
          /\ t.default = u.default /\ t.flags = u.flags
          /\ t.alist = [u.alist EXCEPT ![b] = s.realvalue]
      BY <1>1, <1>3, <3>1 DEF Locals!Symbol, Locals!None, Locals!Default
    <3>3. t.alist[b] = s.realvalue
          /\ \A c \in Buffers \ {b} : t.alist[c] = u.alist[c]
      BY <1>1, <1>2, <3>2
    <3>4. s.realvalue # NoValue
      BY <1>1 DEF NamesApart
    <3> QED BY <1>1, <1>2, <1>4, <2>4, <3>2, <3>3, <3>4
  <2> QED BY <1>2, <2>1, <2>2, <2>3, <2>4
<1>6. o = [t EXCEPT !.realvalue = v,
                    !.default = IF t.element = "default" THEN v ELSE t.default]
  <2>1. s.kind # "plain" /\ s.kind # "slot"
    OBVIOUS
  <2> QED BY <2>1 DEF Locals!Fset, Locals!Default
<1> HIDE DEF t, o
<1>7. /\ o \in Locals!Symbol /\ o.kind = t.kind /\ o.forwarded = t.forwarded
      /\ o.realvalue = v /\ o.buffer = t.buffer /\ o.element = t.element
      /\ o.default = IF t.element = "default" THEN v ELSE t.default
      /\ o.flags = t.flags /\ o.alist = t.alist
  BY <1>5, <1>6 DEF Locals!Symbol
<1>8. b # "default" /\ b # "nil"
  BY DEF NamesApart, Names
<1>9. CellOK(o)
  BY <1>5, <1>7, <1>8 DEF CellOK
<1> QED BY <1>5, <1>7, <1>8, <1>9 DEF o

\* The cell o after v is stored in the buffer b, as Variables describes it.
Stored(o, s, b, v) ==
  LET mine == IF s.kind \in {"always", "slot"} THEN Own(s) \cup {b} ELSE Own(s)
  IN /\ CellOK(o) /\ o.kind = s.kind /\ o.forwarded = s.forwarded
     /\ Own(o) = mine
     /\ DefaultOf(o) = IF b \in mine THEN DefaultOf(s) ELSE v
     /\ \A c \in Buffers :
          Seen(o, c) = IF b \in mine THEN IF c = b THEN v ELSE Seen(s, c)
                       ELSE IF c \in Own(s) THEN Seen(s, c) ELSE v

\* set changes what the buffer sees, and the default if it has none of its own.
LEMMA Storing ==
  ASSUME NEW s, CellOK(s), NamesApart, NEW b \in Buffers, NEW v \in Values
  PROVE  /\ Stored(Locals!Fset(s, b, v), s, b, v)
         /\ s.kind \in {"some", "always"} => Locals!Fset(s, b, v).buffer = b
<1> DEFINE o == Locals!Fset(s, b, v)
<1>0. s \in Locals!Symbol
  BY DEF CellOK
<1>1. /\ s.kind \in {"plain", "some", "always", "slot"}
      /\ s.realvalue \in Values /\ s.element \in Buffers \cup {"default", "dead"}
      /\ s.alist \in [Buffers -> Values \cup {NoValue}] /\ s.default \in Values
      /\ s.buffer \in Buffers \cup {"nil"} /\ s.flags \in SUBSET Buffers
  BY <1>0, CellTypes
<1>2. CASE s.kind = "plain"
  <2>1. o = [s EXCEPT !.realvalue = v]
    BY <1>2 DEF Locals!Fset
  <2> HIDE DEF o
  <2>2. /\ o \in Locals!Symbol /\ o.kind = s.kind /\ o.forwarded = s.forwarded
        /\ o.realvalue = v /\ o.alist = s.alist
    BY <1>0, <2>1 DEF Locals!Symbol
  <2>3. CellOK(o)
    BY <1>2, <2>2 DEF CellOK
  <2>4. Own(s) = {} /\ Own(o) = {}
    BY <1>2, <2>2 DEF Own, CellOK
  <2> QED BY <1>2, <2>2, <2>3, <2>4 DEF Stored, DefaultOf, Seen, o
<1>3. CASE s.kind = "slot"
  <2>1. o = [s EXCEPT !.alist[b] = v, !.flags = s.flags \cup {b}]
    BY <1>3 DEF Locals!Fset
  <2> HIDE DEF o
  <2>2. /\ o \in Locals!Symbol /\ o.kind = s.kind /\ o.forwarded = s.forwarded
        /\ o.realvalue = s.realvalue /\ o.default = s.default
        /\ o.flags = s.flags \cup {b}
        /\ o.alist = [s.alist EXCEPT ![b] = v]
    BY <1>0, <1>1, <2>1 DEF Locals!Symbol
  <2>3. o.alist[b] = v /\ \A c \in Buffers \ {b} : o.alist[c] = s.alist[c]
    BY <1>1, <2>2
  <2>4. CellOK(o)
    BY <1>3, <2>2, <2>3 DEF CellOK, NamesApart
  <2> QED BY <1>3, <2>2, <2>3, <2>4 DEF Stored, DefaultOf, Seen, Own, o
<1>4. CASE s.kind \in {"some", "always"}
  <2> DEFINE own == s.alist[b] # NoValue \/ s.kind = "always"
  <2>1. /\ CellOK(o) /\ o.kind = s.kind /\ o.forwarded = s.forwarded
        /\ o.realvalue = v /\ o.buffer = b
        /\ o.element = IF own THEN b ELSE "default"
        /\ o.default = IF own THEN s.default ELSE v
        /\ o.flags = s.flags
        /\ o.alist[b] # NoValue <=> own
        /\ \A c \in Buffers \ {b} :
             o.alist[c] = IF c = s.element THEN s.realvalue ELSE s.alist[c]
    BY <1>4, SetCell
  <2> HIDE DEF o
  <2>2. ASSUME NEW c \in Buffers \ {b}
        PROVE  /\ o.alist[c] # NoValue <=> s.alist[c] # NoValue
               /\ c = s.element => s.alist[c] # NoValue
               /\ o.element # c
    BY <1>1, <1>4, <2>1 DEF CellOK, NamesApart, Names
  <2> DEFINE mine == IF s.kind \in {"always", "slot"} THEN Own(s) \cup {b} ELSE Own(s)
  <2>3. b \in mine <=> own
    BY <1>4 DEF Own
  <2>4. Own(o) = mine
    BY <1>4, <2>1, <2>2 DEF Own
  <2>5. DefaultOf(o) = IF b \in mine THEN DefaultOf(s) ELSE v
    BY <1>4, <2>1, <2>3 DEF DefaultOf
  <2>6. Seen(o, b) = v
    <3>1. b # "default"
      BY DEF NamesApart, Names
    <3> QED BY <1>4, <2>1, <3>1 DEF Seen
  <2>7. ASSUME NEW c \in Buffers \ {b}
        PROVE  Seen(o, c) = IF c \in Own(s) THEN Seen(s, c) ELSE o.default
    BY <1>4, <2>1, <2>2 DEF Seen, Own
  <2>8. ASSUME NEW c \in Buffers \ {b}, c \notin Own(s)
        PROVE  Seen(s, c) = s.default
    BY <1>4, <2>8 DEF Seen, Own
  <2>9. ASSUME NEW c \in Buffers
        PROVE  Seen(o, c) = IF b \in mine THEN IF c = b THEN v ELSE Seen(s, c)
                            ELSE IF c \in Own(s) THEN Seen(s, c) ELSE v
    <3> HIDE DEF own
    <3>1. CASE c = b
      <4>1. b \in Own(s) => b \in mine
        OBVIOUS
      <4> HIDE DEF mine
      <4> QED BY <2>6, <3>1, <4>1
    <3>2. CASE c # b
      <4> HIDE DEF mine
      <4>1. o.default = IF b \in mine THEN s.default ELSE v
        BY <2>1, <2>3
      <4> QED BY <2>7, <2>8, <3>2, <4>1
    <3> QED BY <3>1, <3>2
  <2> QED BY <2>1, <2>4, <2>5, <2>9 DEF Stored, o
<1> QED BY <1>1, <1>2, <1>3, <1>4

\* specbind of a slot: the bit in local_var_flags is not set.
LEMMA BindingSlot ==
  ASSUME NEW s, CellOK(s), NamesApart, NEW b \in Buffers, NEW v \in Values,
         s.kind = "slot", NEW o, o = [s EXCEPT !.alist[b] = v]
  PROVE  /\ CellOK(o) /\ o.kind = s.kind /\ o.forwarded = s.forwarded
         /\ Own(o) = Own(s) /\ DefaultOf(o) = DefaultOf(s)
         /\ \A c \in Buffers : Seen(o, c) = IF c = b THEN v ELSE Seen(s, c)
<1>0. s \in Locals!Symbol
  BY DEF CellOK
<1>1. s.alist \in [Buffers -> Values \cup {NoValue}]
  BY <1>0, CellTypes
<1>2. /\ o \in Locals!Symbol /\ o.kind = s.kind /\ o.forwarded = s.forwarded
      /\ o.realvalue = s.realvalue /\ o.default = s.default
      /\ o.flags = s.flags /\ o.alist = [s.alist EXCEPT ![b] = v]
  BY <1>0, <1>1 DEF Locals!Symbol
<1>3. o.alist[b] = v /\ \A c \in Buffers \ {b} : o.alist[c] = s.alist[c]
  BY <1>1, <1>2
<1>4. CellOK(o)
  BY <1>2, <1>3 DEF CellOK, NamesApart
<1> QED BY <1>2, <1>3, <1>4 DEF DefaultOf, Seen, Own

\* set-default changes what the buffers with no value of their own see.
LEMMA SettingDefault ==
  ASSUME NEW s, CellOK(s), NamesApart, NEW v \in Values
  PROVE  LET o == Locals!Fset_default(s, v)
         IN /\ CellOK(o) /\ o.kind = s.kind /\ o.forwarded = s.forwarded
            /\ o.buffer = s.buffer /\ Own(o) = Own(s) /\ DefaultOf(o) = v
            /\ \A c \in Buffers :
                 Seen(o, c) = IF c \in Own(s) THEN Seen(s, c) ELSE v
            /\ o.element = s.element
<1> DEFINE o == Locals!Fset_default(s, v)
<1>0. s \in Locals!Symbol
  BY DEF CellOK
<1>1. /\ s.kind \in {"plain", "some", "always", "slot"}
      /\ s.realvalue \in Values /\ s.element \in Buffers \cup {"default", "dead"}
      /\ s.alist \in [Buffers -> Values \cup {NoValue}] /\ s.default \in Values
      /\ s.buffer \in Buffers \cup {"nil"} /\ s.flags \in SUBSET Buffers
  BY <1>0, CellTypes
<1>2. CASE s.kind = "plain"
  <2>1. o = [s EXCEPT !.realvalue = v]
    BY <1>2 DEF Locals!Fset_default
  <2> HIDE DEF o
  <2>2. /\ o \in Locals!Symbol /\ o.kind = s.kind /\ o.forwarded = s.forwarded
        /\ o.realvalue = v /\ o.alist = s.alist /\ o.buffer = s.buffer
        /\ o.element = s.element
    BY <1>0, <2>1 DEF Locals!Symbol
  <2>3. CellOK(o)
    BY <1>2, <2>2 DEF CellOK
  <2>4. Own(s) = {} /\ Own(o) = {}
    BY <1>2, <2>2 DEF Own, CellOK
  <2> QED BY <1>2, <2>2, <2>3, <2>4 DEF DefaultOf, Seen, o
<1>3. CASE s.kind = "slot"
  <2> DEFINE T == [b \in Buffers |-> IF b \in s.flags THEN s.alist[b] ELSE v]
  <2>1. o = [s EXCEPT !.default = v, !.alist = T]
    BY <1>3 DEF Locals!Fset_default
  <2>2. T \in [Buffers -> Values \cup {NoValue}]
    BY <1>1
  <2>3. \A b \in Buffers : T[b] = IF b \in s.flags THEN s.alist[b] ELSE v
    OBVIOUS
  <2> HIDE DEF o, T
  <2>4. /\ o \in Locals!Symbol /\ o.kind = s.kind /\ o.forwarded = s.forwarded
        /\ o.realvalue = s.realvalue /\ o.default = v /\ o.buffer = s.buffer
        /\ o.flags = s.flags /\ o.alist = T /\ o.element = s.element
    BY <1>0, <2>1, <2>2 DEF Locals!Symbol
  <2>5. CellOK(o)
    BY <1>3, <2>3, <2>4 DEF CellOK, NamesApart
  <2> QED BY <1>3, <2>3, <2>4, <2>5 DEF DefaultOf, Seen, Own, o
<1>4. CASE s.kind \in {"some", "always"}
  <2>1. o = [s EXCEPT !.default = v,
               !.realvalue = IF s.element = "default" THEN v ELSE s.realvalue]
    <3>1. s.kind # "plain" /\ s.kind # "slot"
      BY <1>4
    <3> QED BY <3>1 DEF Locals!Fset_default, Locals!Default
  <2> HIDE DEF o
  <2>2. /\ o \in Locals!Symbol /\ o.kind = s.kind /\ o.forwarded = s.forwarded
        /\ o.realvalue = IF s.element = "default" THEN v ELSE s.realvalue
        /\ o.alist = s.alist /\ o.buffer = s.buffer /\ o.default = v
        /\ o.element = s.element /\ o.flags = s.flags
    BY <1>0, <1>1, <2>1 DEF Locals!Symbol
  <2>3. CellOK(o)
    BY <1>4, <2>2 DEF CellOK
  <2>4. \A c \in Buffers : c # "default"
    BY DEF NamesApart, Names
  <2> QED BY <1>4, <2>2, <2>3, <2>4 DEF DefaultOf, Seen, Own, o
<1> QED BY <1>1, <1>2, <1>3, <1>4

\* A plain variable given a cell.
LEMMA Wrapping ==
  ASSUME NEW s, CellOK(s), NamesApart, s.kind = "plain",
         NEW k \in {"some", "always"}, NEW b \in Buffers \cup {"nil"}
  PROVE  LET o == Locals!Wrapped(s, k, b)
         IN /\ CellOK(o) /\ o.kind = k /\ o.forwarded = s.forwarded
            /\ Own(o) = Own(s) /\ DefaultOf(o) = DefaultOf(s)
            /\ \A c \in Buffers : Seen(o, c) = Seen(s, c)
            /\ \A c \in Buffers : o.alist[c] = NoValue
<1> DEFINE o == Locals!Wrapped(s, k, b)
<1>1. s \in Locals!Symbol /\ s.realvalue \in Values
  BY CellTypes DEF CellOK
<1>2. o = [s EXCEPT !.kind = k, !.buffer = b, !.element = "default",
                    !.default = s.realvalue]
  BY DEF Locals!Wrapped, Locals!Default
<1> HIDE DEF o
<1>3. /\ o \in Locals!Symbol /\ o.kind = k /\ o.forwarded = s.forwarded
      /\ o.realvalue = s.realvalue /\ o.buffer = b /\ o.element = "default"
      /\ o.default = s.realvalue /\ o.alist = s.alist
  BY <1>1, <1>2 DEF Locals!Symbol, Locals!None, Locals!Default
<1>4. CellOK(o)
  BY <1>3 DEF CellOK
<1> QED BY <1>3, <1>4 DEF DefaultOf, Seen, Own, CellOK, o

\* make-local-variable.
LEMMA MakingLocal ==
  ASSUME NEW s, CellOK(s), NamesApart, s.kind \in {"plain", "some"},
         NEW b \in Buffers
  PROVE  LET o == Locals!Fmake_local_variable(s, b)
         IN /\ CellOK(o) /\ o.kind = "some" /\ o.forwarded = s.forwarded
            /\ Own(o) = Own(s) \cup {b} /\ DefaultOf(o) = DefaultOf(s)
            /\ \A c \in Buffers : Seen(o, c) = Seen(s, c)
<1> DEFINE o == Locals!Fmake_local_variable(s, b)
           t == IF s.kind = "plain" THEN Locals!Wrapped(s, "some", "nil") ELSE s
<1>1. /\ CellOK(t) /\ t.kind = "some" /\ t.forwarded = s.forwarded
      /\ Own(t) = Own(s) /\ DefaultOf(t) = DefaultOf(s)
      /\ \A c \in Buffers : Seen(t, c) = Seen(s, c)
  BY Wrapping
<1>2. o = IF t.alist[b] # NoValue THEN t
          ELSE Locals!LookAgain([t EXCEPT !.alist[b] = t.default], b)
  BY DEF Locals!Fmake_local_variable, Locals!HasOwn, Locals!None
<1> HIDE DEF t, o
<1>3. t \in Locals!Symbol
  BY <1>1 DEF CellOK
<1>4. /\ t.realvalue \in Values /\ t.element \in Buffers \cup {"default", "dead"}
      /\ t.alist \in [Buffers -> Values \cup {NoValue}] /\ t.default \in Values
      /\ t.buffer \in Buffers \cup {"nil"}
  BY <1>3, CellTypes
<1>5. CASE t.alist[b] # NoValue
  <2>1. o = t
    BY <1>2, <1>5
  <2>2. b \in Own(t)
    BY <1>1, <1>5 DEF Own
  <2> QED BY <1>1, <2>1, <2>2 DEF o
<1>6. CASE t.alist[b] = NoValue
  <2> DEFINE u == [t EXCEPT !.alist[b] = t.default]
  <2>1. o = [u EXCEPT !.buffer = IF u.buffer = b THEN "nil" ELSE u.buffer]
    BY <1>2, <1>6 DEF Locals!LookAgain, Locals!None
  <2>2. /\ u \in Locals!Symbol /\ u.kind = t.kind /\ u.forwarded = t.forwarded
        /\ u.realvalue = t.realvalue /\ u.buffer = t.buffer
        /\ u.element = t.element /\ u.default = t.default
        /\ u.alist = [t.alist EXCEPT ![b] = t.default]
    BY <1>3, <1>4 DEF Locals!Symbol
  <2> HIDE DEF u
  <2>3. /\ o \in Locals!Symbol /\ o.kind = u.kind /\ o.forwarded = u.forwarded
        /\ o.realvalue = u.realvalue
        /\ o.buffer = IF u.buffer = b THEN "nil" ELSE u.buffer
        /\ o.element = u.element /\ o.default = u.default
        /\ o.alist = u.alist
    BY <2>1, <2>2 DEF Locals!Symbol, Locals!None
  <2>4. o.alist[b] = t.default /\ \A c \in Buffers \ {b} : o.alist[c] = t.alist[c]
    BY <1>4, <2>2, <2>3
  <2>5. t.element # b /\ t.default # NoValue
    BY <1>1, <1>4, <1>6 DEF CellOK, NamesApart, Names
  <2>6. CellOK(o)
    BY <1>1, <1>4, <1>6, <2>2, <2>3, <2>4, <2>5 DEF CellOK, NamesApart, Names
  <2>7. Own(o) = Own(t) \cup {b} /\ DefaultOf(o) = DefaultOf(t)
    BY <1>1, <2>2, <2>3, <2>4, <2>5 DEF Own, DefaultOf
  <2>8. ASSUME NEW c \in Buffers
        PROVE  Seen(o, c) = Seen(t, c)
    <3>1. CASE c = b
      BY <1>1, <1>6, <2>2, <2>3, <2>4, <2>5, <3>1 DEF Seen
    <3>2. CASE c # b
      BY <1>1, <2>2, <2>3, <2>4, <3>2 DEF Seen
    <3> QED BY <3>1, <3>2
  <2> QED BY <1>1, <2>2, <2>3, <2>6, <2>7, <2>8 DEF o
<1> QED BY <1>5, <1>6 DEF o

\* make-variable-buffer-local.
LEMMA MakingAllLocal ==
  ASSUME NEW s, CellOK(s), NamesApart, s.kind \in {"plain", "some"},
         NEW b \in Buffers
  PROVE  LET o == Locals!Fmake_variable_buffer_local(s, b)
         IN /\ CellOK(o) /\ o.kind = "always" /\ o.forwarded = s.forwarded
            /\ Own(o) = Own(s) /\ DefaultOf(o) = DefaultOf(s)
            /\ \A c \in Buffers : Seen(o, c) = Seen(s, c)
<1> DEFINE o == Locals!Fmake_variable_buffer_local(s, b)
<1>1. CASE s.kind = "plain"
  <2>1. o = Locals!Wrapped(s, "always", b)
    BY <1>1 DEF Locals!Fmake_variable_buffer_local
  <2> QED BY <1>1, <2>1, Wrapping
<1>2. CASE s.kind = "some"
  <2>0. s \in Locals!Symbol
    BY DEF CellOK
  <2>1. o = [s EXCEPT !.kind = "always"]
    BY <1>2 DEF Locals!Fmake_variable_buffer_local
  <2> HIDE DEF o
  <2>2. /\ o \in Locals!Symbol /\ o.kind = "always" /\ o.forwarded = s.forwarded
        /\ o.realvalue = s.realvalue /\ o.buffer = s.buffer
        /\ o.element = s.element /\ o.default = s.default
        /\ o.alist = s.alist
    BY <2>0, <2>1 DEF Locals!Symbol
  <2>3. CellOK(o)
    BY <1>2, <2>2 DEF CellOK
  <2> QED BY <1>2, <2>2, <2>3 DEF DefaultOf, Seen, Own, o
<1> QED BY <1>1, <1>2

\* The cell o after a buffer's own value is killed.
Killed(o, s, b) ==
  /\ CellOK(o) /\ o.kind = s.kind /\ o.forwarded = s.forwarded
  /\ Own(o) = Own(s) \ {b} /\ DefaultOf(o) = DefaultOf(s)
  /\ \A c \in Buffers : Seen(o, c) = IF c = b THEN DefaultOf(s) ELSE Seen(s, c)

\* There is nothing to kill of a plain variable.
LEMMA KillingPlain ==
  ASSUME NEW s, CellOK(s), s.kind = "plain", NEW b \in Buffers
  PROVE  Killed(s, s, b)
BY DEF Killed, CellOK, Own, DefaultOf, Seen

\* A variable in a slot of the buffer gets its default again.
LEMMA KillingSlot ==
  ASSUME NEW s, CellOK(s), NamesApart, s.kind = "slot", NEW b \in Buffers
  PROVE  Killed([s EXCEPT !.alist[b] = s.default, !.flags = s.flags \ {b}], s, b)
<1> DEFINE o == [s EXCEPT !.alist[b] = s.default, !.flags = s.flags \ {b}]
<1>0. s \in Locals!Symbol
  BY DEF CellOK
<1>1. s.alist \in [Buffers -> Values \cup {NoValue}] /\ s.default \in Values
      /\ s.flags \in SUBSET Buffers
  BY <1>0, CellTypes
<1>2. /\ o \in Locals!Symbol /\ o.kind = s.kind /\ o.forwarded = s.forwarded
      /\ o.realvalue = s.realvalue /\ o.default = s.default
      /\ o.flags = s.flags \ {b} /\ o.alist = [s.alist EXCEPT ![b] = s.default]
  BY <1>0, <1>1 DEF Locals!Symbol
<1> HIDE DEF o
<1>3. o.alist[b] = s.default /\ \A c \in Buffers \ {b} : o.alist[c] = s.alist[c]
  BY <1>1, <1>2
<1>4. CellOK(o)
  BY <1>1, <1>2, <1>3 DEF CellOK, NamesApart
<1>5. Killed(o, s, b)
  BY <1>2, <1>3, <1>4 DEF Killed, DefaultOf, Seen, Own
<1> QED BY <1>5 DEF o

\* kill-local-variable.
LEMMA KillingLocal ==
  ASSUME NEW s, CellOK(s), NamesApart, NEW b \in Buffers
  PROVE  Killed(Locals!Fkill_local_variable(s, b), s, b)
<1> DEFINE o == Locals!Fkill_local_variable(s, b)
<1>0. s \in Locals!Symbol
  BY DEF CellOK
<1>1. /\ s.kind \in {"plain", "some", "always", "slot"}
      /\ s.realvalue \in Values /\ s.element \in Buffers \cup {"default", "dead"}
      /\ s.alist \in [Buffers -> Values \cup {NoValue}] /\ s.default \in Values
      /\ s.buffer \in Buffers \cup {"nil"}
  BY <1>0, CellTypes
<1>2. CASE s.kind = "plain"
  BY <1>2, KillingPlain DEF Locals!Fkill_local_variable
<1>3. CASE s.kind = "slot"
  BY <1>3, KillingSlot DEF Locals!Fkill_local_variable
<1>4. CASE s.kind \in {"some", "always"}
  <2> DEFINE u == [s EXCEPT !.alist[b] = NoValue,
                            !.element = IF s.element = b THEN "dead" ELSE s.element]
  <2>1. o = [u EXCEPT !.buffer = IF u.buffer = b THEN "nil" ELSE u.buffer]
    <3>1. s.kind # "plain" /\ s.kind # "slot"
      BY <1>4
    <3> QED BY <3>1 DEF Locals!Fkill_local_variable, Locals!LookAgain, Locals!None
  <2>2. /\ u \in Locals!Symbol /\ u.kind = s.kind /\ u.forwarded = s.forwarded
        /\ u.realvalue = s.realvalue /\ u.buffer = s.buffer
        /\ u.element = IF s.element = b THEN "dead" ELSE s.element
        /\ u.default = s.default
        /\ u.alist = [s.alist EXCEPT ![b] = NoValue]
    BY <1>0, <1>1 DEF Locals!Symbol, Locals!Default
  <2> HIDE DEF u, o
  <2>3. /\ o \in Locals!Symbol /\ o.kind = u.kind /\ o.forwarded = u.forwarded
        /\ o.realvalue = u.realvalue
        /\ o.buffer = IF u.buffer = b THEN "nil" ELSE u.buffer
        /\ o.element = u.element /\ o.default = u.default
        /\ o.alist = u.alist
    BY <2>1, <2>2 DEF Locals!Symbol, Locals!None
  <2>4. o.alist[b] = NoValue /\ \A c \in Buffers \ {b} : o.alist[c] = s.alist[c]
    BY <1>1, <2>2, <2>3
  <2>5. CellOK(o)
    BY <1>1, <1>4, <2>2, <2>3, <2>4 DEF CellOK, NamesApart, Names
  <2>6. Own(o) = Own(s) \ {b} /\ DefaultOf(o) = DefaultOf(s)
    BY <1>4, <2>2, <2>3, <2>4 DEF Own, DefaultOf
  <2>7. ASSUME NEW c \in Buffers
        PROVE  Seen(o, c) = IF c = b THEN DefaultOf(s) ELSE Seen(s, c)
    <3>1. CASE c = b
      BY <1>4, <2>2, <2>3, <2>4, <3>1 DEF Seen, DefaultOf
    <3>2. CASE c # b
      <4>1. c # "dead"
        BY DEF NamesApart, Names
      <4>2. o.element = c <=> s.element = c
        BY <2>2, <2>3, <3>2, <4>1
      <4> QED BY <1>4, <2>2, <2>3, <2>4, <3>2, <4>2 DEF Seen
    <3> QED BY <3>1, <3>2
  <2>8. Killed(o, s, b)
    BY <2>2, <2>3, <2>5, <2>6, <2>7 DEF Killed
  <2> QED BY <2>8 DEF o
<1> QED BY <1>1, <1>2, <1>3, <1>4

\* kill-all-local-variables.
LEMMA KillingAll ==
  ASSUME NEW s, CellOK(s), NamesApart, NEW b \in Buffers
  PROVE  Killed(Locals!Fkill_all_local_variables(s, b), s, b)
<1> DEFINE o == Locals!Fkill_all_local_variables(s, b)
<1>0. s \in Locals!Symbol
  BY DEF CellOK
<1>1. /\ s.kind \in {"plain", "some", "always", "slot"}
      /\ s.realvalue \in Values /\ s.element \in Buffers \cup {"default", "dead"}
      /\ s.alist \in [Buffers -> Values \cup {NoValue}] /\ s.default \in Values
      /\ s.buffer \in Buffers \cup {"nil"}
  BY <1>0, CellTypes
<1>2. CASE s.kind = "plain"
  <2>1. o = s
    BY ONLY <1>2 DEF Locals!Fkill_all_local_variables
  <2> QED BY <1>2, <2>1, KillingPlain
<1>3. CASE s.kind = "slot"
  <2>1. s.kind # "plain"
    BY <1>3
  <2>2. o = [s EXCEPT !.alist[b] = s.default, !.flags = s.flags \ {b}]
    BY ONLY <1>3, <2>1 DEF Locals!Fkill_all_local_variables
  <2>3. Killed([s EXCEPT !.alist[b] = s.default, !.flags = s.flags \ {b}], s, b)
    BY <1>3, KillingSlot
  <2> HIDE DEF o
  <2>4. Killed(o, s, b)
    BY ONLY <2>2, <2>3
  <2> QED BY <2>4 DEF o
<1>4. CASE s.kind \in {"some", "always"} /\ s.alist[b] = NoValue
  <2>1. o = s
    <3>1. s.kind # "plain" /\ s.kind # "slot" /\ ~Locals!HasOwn(s, b)
      BY <1>4 DEF Locals!HasOwn
    <3> QED BY ONLY <3>1 DEF Locals!Fkill_all_local_variables
  <2>2. b \notin Own(s) /\ Seen(s, b) = DefaultOf(s)
    BY <1>4 DEF Own, Seen, DefaultOf
  <2> QED BY <2>1, <2>2 DEF Killed
<1>5. CASE s.kind \in {"some", "always"} /\ s.alist[b] # NoValue /\ s.buffer = b
  <2>1. o = [s EXCEPT !.alist[b] = NoValue, !.element = "default",
                      !.realvalue = s.default]
    <3>1. s.kind # "plain" /\ s.kind # "slot" /\ Locals!HasOwn(s, b)
      BY <1>5 DEF Locals!HasOwn
    <3> QED BY <1>5, <3>1 DEF Locals!Fkill_all_local_variables, Locals!Default
  <2> HIDE DEF o
  <2>2. /\ o \in Locals!Symbol /\ o.kind = s.kind /\ o.forwarded = s.forwarded
        /\ o.realvalue = s.default /\ o.buffer = s.buffer
        /\ o.element = "default" /\ o.default = s.default
        /\ o.alist = [s.alist EXCEPT ![b] = NoValue]
    BY <1>0, <1>1, <2>1 DEF Locals!Symbol, Locals!Default
  <2>3. o.alist[b] = NoValue /\ \A c \in Buffers \ {b} : o.alist[c] = s.alist[c]
    BY <1>1, <2>2
  <2>4. CellOK(o)
    BY <1>1, <1>5, <2>2, <2>3 DEF CellOK, NamesApart, Names
  <2>5. Own(o) = Own(s) \ {b} /\ DefaultOf(o) = DefaultOf(s)
    BY <1>5, <2>2, <2>3 DEF Own, DefaultOf
  <2>6. s.element = b
    BY <1>5 DEF CellOK, NamesApart, Names
  <2>7. ASSUME NEW c \in Buffers
        PROVE  Seen(o, c) = IF c = b THEN DefaultOf(s) ELSE Seen(s, c)
    <3>1. c # "default"
      BY DEF NamesApart, Names
    <3> QED BY <1>5, <2>2, <2>3, <2>6, <3>1 DEF Seen, DefaultOf
  <2>8. Killed(o, s, b)
    BY <2>2, <2>4, <2>5, <2>7 DEF Killed
  <2> QED BY <2>8 DEF o
<1>6. CASE s.kind \in {"some", "always"} /\ s.alist[b] # NoValue /\ s.buffer # b
  <2>1. o = [s EXCEPT !.alist[b] = NoValue]
    <3>1. s.kind # "plain" /\ s.kind # "slot" /\ Locals!HasOwn(s, b)
      BY <1>6 DEF Locals!HasOwn
    <3> QED BY <1>6, <3>1 DEF Locals!Fkill_all_local_variables
  <2> HIDE DEF o
  <2>2. /\ o \in Locals!Symbol /\ o.kind = s.kind /\ o.forwarded = s.forwarded
        /\ o.realvalue = s.realvalue /\ o.buffer = s.buffer
        /\ o.element = s.element /\ o.default = s.default
        /\ o.alist = [s.alist EXCEPT ![b] = NoValue]
    BY <1>0, <1>1, <2>1 DEF Locals!Symbol
  <2>3. o.alist[b] = NoValue /\ \A c \in Buffers \ {b} : o.alist[c] = s.alist[c]
    BY <1>1, <2>2
  <2>4. CellOK(o)
    BY <1>1, <1>6, <2>2, <2>3 DEF CellOK, NamesApart, Names
  <2>5. Own(o) = Own(s) \ {b} /\ DefaultOf(o) = DefaultOf(s)
    BY <1>6, <2>2, <2>3 DEF Own, DefaultOf
  <2>7. ASSUME NEW c \in Buffers
        PROVE  Seen(o, c) = IF c = b THEN DefaultOf(s) ELSE Seen(s, c)
    BY <1>6, <2>2, <2>3 DEF Seen, DefaultOf
  <2>8. Killed(o, s, b)
    BY <2>2, <2>4, <2>5, <2>7 DEF Killed
  <2> QED BY <2>8 DEF o
<1> QED BY <1>1, <1>2, <1>3, <1>4, <1>5, <1>6

-----------------------------------------------------------------------------
(***************************************************************************)
(* The steps of BufferLocals are those of Variables, or nothing happens.   *)
(* Below a let in specpdl that is not forgotten, what the unwinding would  *)
(* store is what every buffer saw when it was entered, whatever was set in *)
(* its buffer since: Restorable says so of one entry.                      *)
(***************************************************************************)
LetEntries == [what : {"let"}, old : Values, buffer : Buffers,
               before : [Buffers -> Values] \cup {<<>>}]
ExcursionEntries == [what : {"excursion"}, buffer : Buffers, before : {<<>>}]
Entries == LetEntries \cup ExcursionEntries

Mine(s, b) == b \in Own(s) \/ s.kind \in {"always", "slot"}
Restorable(s, e) ==
  e.what = "let" /\ e.before # <<>> =>
    \A c \in Buffers :
      e.before[c] = IF c = e.buffer \/ (~Mine(s, e.buffer) /\ c \notin Own(s))
                    THEN e.old ELSE Seen(s, c)

\* The variable is the current buffer's in C too.
SetUp(s, b, late) ==
  s.forwarded /\ s.kind \in {"some", "always"} /\ ~late =>
    s.element = IF b \in Own(s) THEN b ELSE "default"

LocalsInv ==
  /\ CellOK(sym) /\ selected \in Buffers /\ bindings \in Seq(Entries)
  /\ SetUp(sym, selected, unused)
  /\ \A i \in 1 .. Len(bindings) : Restorable(sym, bindings[i])

\* What a buffer sees is a value.
LEMMA SeenTypes ==
  ASSUME NEW s, CellOK(s), NEW b \in Buffers
  PROVE  Seen(s, b) \in Values
<1>1. /\ s.kind \in {"plain", "some", "always", "slot"}
      /\ s.realvalue \in Values /\ s.default \in Values
      /\ s.alist \in [Buffers -> Values \cup {NoValue}]
  BY CellTypes DEF CellOK
<1>2. s.alist[b] \in Values \cup {NoValue}
  BY <1>1
<1>3. s.kind = "slot" => s.alist[b] # NoValue
  BY DEF CellOK
<1> QED BY <1>1, <1>2, <1>3 DEF Seen

\* A buffer with no value of its own sees the default.
LEMMA OthersSeeDefault ==
  ASSUME NEW s, CellOK(s), NEW b \in Buffers, b \notin Own(s), s.kind # "slot"
  PROVE  Seen(s, b) = DefaultOf(s)
<1>1. s.kind \in {"plain", "some", "always"}
  BY CellTypes DEF CellOK
<1>2. s.alist[b] = NoValue
  BY DEF Own
<1> QED BY <1>1, <1>2 DEF Seen, DefaultOf

\* Only buffers have values of their own.
LEMMA OwnIn ==
  ASSUME NEW s, CellOK(s)
  PROVE  Own(s) \subseteq Buffers
BY CellTypes DEF CellOK, Own

\* The refinement mapping, by the operators above.
LEMMA Shown ==
  ASSUME CellOK(sym), NamesApart
  PROVE  /\ Locals!own = Own(sym) /\ Locals!default = DefaultOf(sym)
         /\ Locals!seen = [b \in Buffers |-> Seen(sym, b)]
BY ValueIs
   DEF Locals!own, Locals!default, Locals!seen, Own, DefaultOf, Locals!HasOwn

\* The same after a step.
LEMMA ShownNext ==
  ASSUME CellOK(sym'), NamesApart
  PROVE  /\ Locals!own' = Own(sym') /\ Locals!default' = DefaultOf(sym')
         /\ Locals!seen' = [b \in Buffers |-> Seen(sym', b)]
BY ValueIs
   DEF Locals!own, Locals!default, Locals!seen, Own, DefaultOf, Locals!HasOwn

\* An entry of specpdl can be restored after a set in its buffer.
LEMMA StillRestorable ==
  ASSUME NEW s, NEW o, NEW b \in Buffers, NEW v, Stored(o, s, b, v),
         NEW e, e.buffer = b, Restorable(s, e)
  PROVE  Restorable(o, e)
<1>1. SUFFICES ASSUME e.what = "let", e.before # <<>>, NEW c \in Buffers
               PROVE  e.before[c] = IF c = b \/ (~Mine(o, b) /\ c \notin Own(o))
                                    THEN e.old ELSE Seen(o, c)
  BY DEF Restorable
<1>2. e.before[c] = IF c = b \/ (~Mine(s, b) /\ c \notin Own(s))
                    THEN e.old ELSE Seen(s, c)
  BY <1>1 DEF Restorable
<1>3. Mine(o, b) <=> Mine(s, b)
  BY DEF Stored, Mine
<1>4. CASE Mine(s, b)
  <2>1. c # b => Seen(o, c) = Seen(s, c)
    BY <1>4 DEF Stored, Mine
  <2> QED BY <1>2, <1>3, <1>4, <2>1
<1>5. CASE ~Mine(s, b)
  <2>1. Own(o) = Own(s) /\ (c \in Own(s) => Seen(o, c) = Seen(s, c))
    BY <1>5 DEF Stored, Mine
  <2> QED BY <1>2, <1>3, <1>5, <2>1
<1> QED BY <1>4, <1>5

\* The entry specbind makes can be restored.
LEMMA EntryMade ==
  ASSUME NEW s, CellOK(s), NEW b \in Buffers
  PROVE  LET e == [what |-> "let", old |-> Seen(s, b), buffer |-> b,
                   before |-> [c \in Buffers |-> Seen(s, c)]]
         IN e \in Entries /\ e.buffer = b /\ Restorable(s, e)
<1> DEFINE e == [what |-> "let", old |-> Seen(s, b), buffer |-> b,
                 before |-> [c \in Buffers |-> Seen(s, c)]]
<1>1. e \in Entries /\ e.buffer = b
  BY SeenTypes DEF Entries, LetEntries
<1>2. ASSUME NEW c \in Buffers, ~Mine(s, b), c \notin Own(s)
      PROVE  Seen(s, c) = Seen(s, b)
  <2>1. s.kind # "slot" /\ b \notin Own(s)
    BY <1>2 DEF Mine
  <2> QED BY <1>2, <2>1, OthersSeeDefault
<1>3. Restorable(s, e)
  BY <1>2 DEF Restorable
<1> QED BY <1>1, <1>3

\* An entry that promises nothing any more.
LEMMA EntryForgotten ==
  ASSUME NEW e \in Entries
  PROVE  LET f == [e EXCEPT !.before = <<>>]
         IN f \in Entries /\ \A s : Restorable(s, f)
BY DEF Entries, LetEntries, ExcursionEntries, Restorable

Preserves(o, s, b) ==
  \A e \in Entries : e.buffer = b /\ Restorable(s, e) => Restorable(o, e)

\* set lets the entries made in that buffer be restored.
LEMMA StoringPreserves ==
  ASSUME NEW s, NEW o, NEW b \in Buffers, NEW v, Stored(o, s, b, v)
  PROVE  Preserves(o, s, b)
BY StillRestorable DEF Preserves

\* So does specbind of a variable in a slot.
LEMMA BindingSlotPreserves ==
  ASSUME NEW s, NEW o, NEW b \in Buffers, NEW v, s.kind = "slot", o.kind = "slot",
         Own(o) = Own(s),
         \A c \in Buffers : Seen(o, c) = IF c = b THEN v ELSE Seen(s, c)
  PROVE  Preserves(o, s, b)
<1>1. SUFFICES ASSUME NEW e \in Entries, e.buffer = b, Restorable(s, e)
               PROVE  Restorable(o, e)
  BY DEF Preserves
<1>2. Mine(o, b) /\ Mine(s, b)
  BY DEF Mine
<1> QED BY <1>1, <1>2 DEF Restorable

\* What happens to specpdl when something is set in the current buffer.
LEMMA StackSet ==
  ASSUME LocalsInv, NEW q \in Seq(Entries),
         \A i \in 1 .. Len(q) : Restorable(sym, q[i]),
         NEW o, Preserves(o, sym, selected)
  PROVE  LET r == Locals!Abstract!SetHere(q)
         IN /\ r \in Seq(Entries) /\ Len(r) = Len(q)
            /\ \A i \in 1 .. Len(r) : Restorable(o, r[i])
<1> DEFINE r == Locals!Abstract!SetHere(q)
           f(i) == IF q[i].buffer = selected THEN q[i]
                   ELSE [q[i] EXCEPT !.before = <<>>]
<1>1. r = [i \in 1 .. Len(q) |-> f(i)]
  BY DEF Locals!Abstract!SetHere, Locals!Abstract!Forgotten
<1>2. selected \in Buffers
  BY DEF LocalsInv
<1>3. ASSUME NEW i \in 1 .. Len(q)
      PROVE  f(i) \in Entries /\ Restorable(o, f(i))
  <2>1. q[i] \in Entries
    OBVIOUS
  <2>2. CASE q[i].buffer = selected
    BY <1>2, <2>1, <2>2 DEF Preserves
  <2>3. CASE q[i].buffer # selected
    BY <2>1, <2>3, EntryForgotten
  <2> QED BY <2>2, <2>3
<1> HIDE DEF f, r
<1>4. Len(q) \in Nat
  OBVIOUS
<1>5. r \in Seq(Entries) /\ Len(r) = Len(q)
  BY <1>1, <1>3, <1>4
<1>6. \A i \in 1 .. Len(r) : r[i] = f(i)
  BY <1>1, <1>5
<1> QED BY <1>3, <1>5, <1>6 DEF r

\* A stack of entries that promise nothing.
LEMMA StackUnsettled ==
  ASSUME NEW q \in Seq(Entries), NEW o
  PROVE  LET r == Locals!Abstract!Unsettled(q)
         IN /\ r \in Seq(Entries) /\ Len(r) = Len(q)
            /\ \A i \in 1 .. Len(r) : Restorable(o, r[i])
<1> DEFINE r == Locals!Abstract!Unsettled(q)
           f(i) == [q[i] EXCEPT !.before = <<>>]
<1>1. r = [i \in 1 .. Len(q) |-> f(i)]
  BY DEF Locals!Abstract!Unsettled, Locals!Abstract!Forgotten
<1>3. ASSUME NEW i \in 1 .. Len(q)
      PROVE  f(i) \in Entries /\ Restorable(o, f(i))
  <2>1. q[i] \in Entries
    OBVIOUS
  <2> QED BY <2>1, EntryForgotten
<1> HIDE DEF f, r
<1>4. Len(q) \in Nat
  OBVIOUS
<1>5. r \in Seq(Entries) /\ Len(r) = Len(q)
  BY <1>1, <1>3, <1>4
<1>6. \A i \in 1 .. Len(r) : r[i] = f(i)
  BY <1>1, <1>5
<1> QED BY <1>3, <1>5, <1>6 DEF r

\* A stack without its last entry.
LEMMA StackPopped ==
  ASSUME NEW q \in Seq(Entries), q # <<>>
  PROVE  LET r == SubSeq(q, 1, Len(q) - 1)
         IN /\ r \in Seq(Entries) /\ Len(r) = Len(q) - 1
            /\ \A i \in 1 .. Len(r) : r[i] = q[i] /\ i \in 1 .. Len(q)
            /\ Len(q) \in 1 .. Len(q) /\ q[Len(q)] \in Entries
<1>1. Len(q) \in Nat /\ Len(q) # 0
  OBVIOUS
<1>2. Len(q) \in 1 .. Len(q) /\ Len(q) - 1 \in Nat /\ Len(q) - 1 <= Len(q)
  BY <1>1
<1>3. q[Len(q)] \in Entries
  BY <1>2
<1> DEFINE n == Len(q) - 1
<1>4. n \in Nat /\ n <= Len(q)
  BY <1>2
<1> HIDE DEF n
<1>5. SubSeq(q, 1, n) \in Seq(Entries) /\ Len(SubSeq(q, 1, n)) = n
      /\ \A i \in 1 .. n : SubSeq(q, 1, n)[i] = q[i] /\ i \in 1 .. Len(q)
  BY <1>4
<1> QED BY <1>2, <1>3, <1>5 DEF n

\* A stack with one entry more.
LEMMA StackPushed ==
  ASSUME NEW q \in Seq(Entries), NEW e \in Entries, NEW o, Restorable(o, e),
         \A i \in 1 .. Len(q) : Restorable(o, q[i])
  PROVE  LET r == Append(q, e)
         IN /\ r \in Seq(Entries) /\ Len(r) = Len(q) + 1
            /\ \A i \in 1 .. Len(r) : Restorable(o, r[i])
<1> DEFINE r == Append(q, e)
<1>1. r \in Seq(Entries) /\ Len(r) = Len(q) + 1
  OBVIOUS
<1>2. \A i \in 1 .. Len(r) : IF i \in 1 .. Len(q) THEN r[i] = q[i] ELSE r[i] = e
  OBVIOUS
<1> QED BY <1>1, <1>2

\* A set is an assignment of Variables.
LEMMA AssignIs ==
  ASSUME CellOK(sym), NamesApart, selected \in Buffers, NEW v \in Values,
         Stored(sym', sym, selected, v)
  PROVE  Locals!Abstract!Assign(v) /\ sym'.kind = sym.kind
<1> DEFINE mine == IF sym.kind \in {"always", "slot"} THEN Own(sym) \cup {selected}
                   ELSE Own(sym)
<1>1. /\ CellOK(sym') /\ sym'.kind = sym.kind /\ Own(sym') = mine
      /\ DefaultOf(sym') = IF selected \in mine THEN DefaultOf(sym) ELSE v
      /\ \A c \in Buffers :
           Seen(sym', c) = IF selected \in mine
                             THEN IF c = selected THEN v ELSE Seen(sym, c)
                           ELSE IF c \in Own(sym) THEN Seen(sym, c) ELSE v
  BY DEF Stored
<1>2. /\ Locals!own = Own(sym) /\ Locals!default = DefaultOf(sym)
      /\ Locals!seen = [b \in Buffers |-> Seen(sym, b)]
  BY Shown
<1>3. /\ Locals!own' = mine /\ Locals!default' = DefaultOf(sym')
      /\ Locals!seen' = [b \in Buffers |-> Seen(sym', b)]
  BY <1>1, ShownNext
<1>4. CASE selected \in mine
  <2>1. Locals!default' = Locals!default
    BY <1>1, <1>2, <1>3, <1>4
  <2>2. Locals!seen' = [Locals!seen EXCEPT ![selected] = v]
    BY <1>1, <1>2, <1>3, <1>4
  <2> QED BY <1>1, <1>2, <1>3, <1>4, <2>1, <2>2 DEF Locals!Abstract!Assign
<1>5. CASE selected \notin mine
  <2>1. Locals!default' = v
    BY <1>1, <1>3, <1>5
  <2>2. Own(sym) = mine
    BY <1>5
  <2>3. Locals!seen' = Locals!Abstract!SeenWithout(Locals!own, v)
    BY <1>1, <1>2, <1>3, <1>5 DEF Locals!Abstract!SeenWithout
  <2> QED BY <1>1, <1>2, <1>3, <1>5, <2>1, <2>2, <2>3 DEF Locals!Abstract!Assign
<1> QED BY <1>1, <1>4, <1>5

\* A cell filled for the buffer suits it.
LEMMA SetUpWhenCached ==
  ASSUME NEW o, CellOK(o), NamesApart, NEW b \in Buffers,
         o.kind \in {"some", "always"} => o.buffer = b, NEW late
  PROVE  SetUp(o, b, late)
BY DEF SetUp, CellOK, NamesApart, Names, Own

LocalsGoal ==
  /\ LocalsInv' /\ Locals!AbstractStep /\ Locals!Abstract!LetRestores

\* What a step must show: the cell, and how the abstract variables change.
LEMMA StackGrows ==
  ASSUME LocalsInv, Len(bindings') >= Len(bindings)
  PROVE  Locals!Abstract!LetRestores
<1>1. Len(bindings) \in Nat
  BY DEF LocalsInv
<1>2. CASE Len(bindings') < Len(bindings)
  BY <1>1, <1>2 DEF Locals!Abstract!LetRestores
<1> QED BY <1>2 DEF Locals!Abstract!LetRestores

\* Looking the variable up, here or in another buffer.
LEMMA LookingStep ==
  ASSUME LocalsInv, NamesApart, NEW b \in Buffers,
         Alike(sym', sym), selected' = b,
         SetUp(sym', b, unused'),
         bindings' \in Seq(Entries), Len(bindings') \in Nat,
         \A i \in 1 .. Len(bindings') : Restorable(sym, bindings'[i])
  PROVE  /\ LocalsInv'
         /\ Locals!own' = Locals!own /\ Locals!seen' = Locals!seen
         /\ Locals!default' = Locals!default /\ sym'.kind = sym.kind
<1>1. CellOK(sym) /\ CellOK(sym')
  BY DEF LocalsInv, Alike
<1>2. ASSUME NEW i \in 1 .. Len(bindings')
      PROVE  Restorable(sym', bindings'[i])
  BY DEF Alike, Restorable, Mine
<1>3. LocalsInv'
  BY <1>1, <1>2 DEF LocalsInv
<1>4. [c \in Buffers |-> Seen(sym', c)] = [c \in Buffers |-> Seen(sym, c)]
  BY DEF Alike
<1> QED BY <1>1, <1>3, <1>4, Shown, ShownNext DEF Alike

\* symbol-value.
LEMMA UseStep ==
  ASSUME LocalsInv, NamesApart, Locals!UseVariable
  PROVE  LocalsGoal
<1>1. /\ CellOK(sym) /\ selected \in Buffers /\ bindings \in Seq(Entries)
      /\ \A i \in 1 .. Len(bindings) : Restorable(sym, bindings[i])
  BY DEF LocalsInv
<1>2. /\ sym' = Locals!Fsymbol_value(sym, selected)
      /\ selected' = selected /\ bindings' = bindings
  BY DEF Locals!UseVariable
<1>3. Alike(sym', sym)
      /\ (sym.kind \in {"some", "always"} => sym'.buffer = selected)
  BY <1>1, <1>2, Looking
<1>4. SetUp(sym', selected, unused')
  BY <1>1, <1>3, SetUpWhenCached DEF Alike
<1>5. LocalsInv' /\ Locals!own' = Locals!own /\ Locals!seen' = Locals!seen
      /\ Locals!default' = Locals!default /\ sym'.kind = sym.kind
  BY <1>1, <1>2, <1>3, <1>4, LookingStep
<1>6. Locals!AbstractStep
  BY <1>2, <1>5 DEF Locals!AbstractStep
<1>7. Locals!Abstract!LetRestores
  BY <1>1, <1>2, StackGrows
<1> QED BY <1>5, <1>6, <1>7 DEF LocalsGoal

\* set_buffer_internal, by set-buffer or when a save-excursion ends.
LEMMA SelectingKeepsSetUp ==
  ASSUME LocalsInv, NamesApart, NEW b \in Buffers,
         sym' = Locals!Selected(sym, selected, b), selected' = b, Locals!LookedUp
  PROVE  Alike(sym', sym) /\ SetUp(sym', b, unused')
<1>1. CellOK(sym) /\ selected \in Buffers /\ SetUp(sym, selected, unused)
  BY DEF LocalsInv
<1>2. /\ Alike(sym', sym)
      /\ sym' = sym \/ (sym.kind \in {"some", "always"} /\ sym'.buffer = b)
      /\ sym.forwarded /\ selected # b /\ sym.kind \in {"some", "always"}
           /\ (selected \in Own(sym) \/ b \in Own(sym)) => sym'.buffer = b
  BY <1>1, Selecting
<1>3. CellOK(sym') /\ sym'.kind = sym.kind /\ sym'.forwarded = sym.forwarded
      /\ Own(sym') = Own(sym)
  BY <1>2 DEF Alike
<1>4. unused' = (unused /\ sym'.buffer # b)
  BY DEF Locals!LookedUp
<1>5. CASE sym'.buffer = b
  BY <1>2, <1>3, <1>5, SetUpWhenCached
<1>6. CASE sym'.buffer # b
  <2>1. sym' = sym /\ (unused' <=> unused)
    BY <1>2, <1>4, <1>6
  <2>2. ~unused' => ~unused
    BY <1>4, <1>6
  <2>3. sym.forwarded /\ sym.kind \in {"some", "always"} /\ selected # b
          => selected \notin Own(sym) /\ b \notin Own(sym)
    BY <1>2, <1>6
  <2>4. SetUp(sym', b, unused')
    BY <1>1, <2>1, <2>2, <2>3 DEF SetUp
  <2> QED BY <1>2, <2>4
<1> QED BY <1>2, <1>5, <1>6

\* set-buffer.
LEMMA SetBufferStep ==
  ASSUME LocalsInv, NamesApart, NEW b \in Buffers, Locals!SetBuffer(b)
  PROVE  LocalsGoal
<1>1. /\ CellOK(sym) /\ selected \in Buffers /\ bindings \in Seq(Entries)
      /\ \A i \in 1 .. Len(bindings) : Restorable(sym, bindings[i])
  BY DEF LocalsInv
<1>2. /\ sym' = Locals!Selected(sym, selected, b)
      /\ selected' = b /\ bindings' = bindings /\ Locals!LookedUp
  BY DEF Locals!SetBuffer
<1>3. Alike(sym', sym) /\ SetUp(sym', b, unused')
  BY <1>2, SelectingKeepsSetUp
<1>4. LocalsInv' /\ Locals!own' = Locals!own /\ Locals!seen' = Locals!seen
      /\ Locals!default' = Locals!default /\ sym'.kind = sym.kind
  BY <1>1, <1>2, <1>3, LookingStep
<1>5. Locals!Abstract!SetBuffer(b)
  BY <1>2, <1>4 DEF Locals!Abstract!SetBuffer
<1>6. Locals!AbstractStep
  BY <1>5 DEF Locals!AbstractStep, Locals!Abstract!VarNext
<1>7. Locals!Abstract!LetRestores
  BY <1>1, <1>2, StackGrows
<1> QED BY <1>4, <1>6, <1>7 DEF LocalsGoal

\* save-excursion.
LEMMA SaveExcursionStep ==
  ASSUME LocalsInv, NamesApart, Locals!SaveExcursion
  PROVE  LocalsGoal
<1> DEFINE e == [what |-> "excursion", buffer |-> selected, before |-> <<>>]
<1>1. /\ CellOK(sym) /\ selected \in Buffers /\ bindings \in Seq(Entries)
      /\ \A i \in 1 .. Len(bindings) : Restorable(sym, bindings[i])
      /\ SetUp(sym, selected, unused)
  BY DEF LocalsInv
<1>2. /\ bindings' = Append(bindings, e) /\ Len(bindings) < MaxDepth
      /\ sym' = sym /\ selected' = selected /\ unused' = unused
  BY DEF Locals!SaveExcursion, Locals!Abstract!ExcursionEntry,
     Locals!Abstract!Forgotten
<1>3. e \in Entries /\ Restorable(sym, e)
  BY <1>1 DEF Entries, ExcursionEntries, Restorable
<1> HIDE DEF e
<1>4. /\ bindings' \in Seq(Entries) /\ Len(bindings') = Len(bindings) + 1
      /\ \A i \in 1 .. Len(bindings') : Restorable(sym, bindings'[i])
  BY <1>1, <1>2, <1>3, StackPushed
<1>5. Alike(sym', sym)
  BY <1>1, <1>2 DEF Alike
<1>6. Len(bindings) \in Nat
  BY <1>1
<1>7. LocalsInv' /\ Locals!own' = Locals!own /\ Locals!seen' = Locals!seen
      /\ Locals!default' = Locals!default /\ sym'.kind = sym.kind
  BY <1>1, <1>2, <1>4, <1>5, <1>6, LookingStep
<1>8. Locals!Abstract!SaveExcursion
  BY <1>2, <1>7
     DEF e, Locals!Abstract!SaveExcursion, Locals!Abstract!ExcursionEntry,
     Locals!Abstract!Forgotten
<1>9. Locals!AbstractStep
  BY <1>8 DEF Locals!AbstractStep, Locals!Abstract!VarNext
<1>10. Locals!Abstract!LetRestores
  BY <1>4, <1>6, StackGrows
<1> QED BY <1>7, <1>9, <1>10 DEF LocalsGoal

\* set.
LEMMA SetVariableStep ==
  ASSUME LocalsInv, NamesApart, NEW v \in Values, Locals!SetVariable(v)
  PROVE  LocalsGoal
<1>1. /\ CellOK(sym) /\ selected \in Buffers /\ bindings \in Seq(Entries)
      /\ \A i \in 1 .. Len(bindings) : Restorable(sym, bindings[i])
  BY DEF LocalsInv
<1>2. /\ sym' = Locals!Fset(sym, selected, v) /\ selected' = selected
      /\ bindings' = Locals!Abstract!SetHere(bindings)
  BY DEF Locals!SetVariable
<1>3. /\ Stored(sym', sym, selected, v)
      /\ sym.kind \in {"some", "always"} => sym'.buffer = selected
  BY <1>1, <1>2, Storing
<1>4. CellOK(sym') /\ sym'.kind = sym.kind
  BY <1>3 DEF Stored
<1>5. SetUp(sym', selected, unused')
  BY <1>1, <1>3, <1>4, SetUpWhenCached
<1>6. /\ bindings' \in Seq(Entries) /\ Len(bindings') = Len(bindings)
      /\ \A i \in 1 .. Len(bindings') : Restorable(sym', bindings'[i])
  BY <1>1, <1>2, <1>3, StoringPreserves, StackSet
<1>7. Len(bindings) \in Nat
  BY <1>1
<1>8. LocalsInv'
  BY <1>1, <1>2, <1>4, <1>5, <1>6 DEF LocalsInv
<1>9. Locals!Abstract!SetVariable(v)
  BY <1>1, <1>2, <1>3, AssignIs DEF Locals!Abstract!SetVariable
<1>10. Locals!AbstractStep
  BY <1>9 DEF Locals!AbstractStep, Locals!Abstract!VarNext
<1>11. Locals!Abstract!LetRestores
  BY <1>6, <1>7, StackGrows
<1> QED BY <1>8, <1>10, <1>11 DEF LocalsGoal

\* After make-local-variable and the like nothing can be restored.
LEMMA UnsettledStep ==
  ASSUME LocalsInv, NamesApart, CellOK(sym'), selected' = selected,
         SetUp(sym', selected, unused'),
         bindings' = Locals!Abstract!Unsettled(bindings)
  PROVE  LocalsInv' /\ Locals!Abstract!LetRestores
<1>1. selected \in Buffers /\ bindings \in Seq(Entries)
  BY DEF LocalsInv
<1>2. /\ bindings' \in Seq(Entries) /\ Len(bindings') = Len(bindings)
      /\ \A i \in 1 .. Len(bindings') : Restorable(sym', bindings'[i])
  BY <1>1, StackUnsettled
<1>3. Len(bindings) \in Nat
  BY <1>1
<1> QED BY <1>1, <1>2, <1>3, StackGrows DEF LocalsInv

\* set-default.
LEMMA SetDefaultStep ==
  ASSUME LocalsInv, NamesApart, NEW v \in Values, Locals!SetDefault(v)
  PROVE  LocalsGoal
<1>1. CellOK(sym) /\ selected \in Buffers /\ SetUp(sym, selected, unused)
  BY DEF LocalsInv
<1>2. /\ sym' = Locals!Fset_default(sym, v) /\ selected' = selected
      /\ bindings' = Locals!Abstract!Unsettled(bindings) /\ Locals!LookedUp
  BY DEF Locals!SetDefault
<1>3. /\ CellOK(sym') /\ sym'.kind = sym.kind /\ sym'.forwarded = sym.forwarded
      /\ sym'.buffer = sym.buffer /\ Own(sym') = Own(sym) /\ DefaultOf(sym') = v
      /\ \A c \in Buffers :
           Seen(sym', c) = IF c \in Own(sym) THEN Seen(sym, c) ELSE v
      /\ sym'.element = sym.element
  BY <1>1, <1>2, SettingDefault
<1>4. SetUp(sym', selected, unused')
  <2>1. CASE sym'.buffer = selected
    BY <1>1, <1>3, <2>1, SetUpWhenCached
  <2>2. CASE sym'.buffer # selected
    <3>1. ~unused' => ~unused
      BY <1>2, <2>2 DEF Locals!LookedUp
    <3> QED BY <1>1, <1>3, <3>1 DEF SetUp
  <2> QED BY <2>1, <2>2
<1>5. LocalsInv' /\ Locals!Abstract!LetRestores
  BY <1>2, <1>3, <1>4, UnsettledStep
<1>6. /\ Locals!own' = Locals!own /\ Locals!default' = v
      /\ Locals!seen' = Locals!Abstract!SeenWithout(Locals!own, v)
  BY <1>1, <1>3, Shown, ShownNext DEF Locals!Abstract!SeenWithout
<1>7. Locals!Abstract!SetDefault(v)
  BY <1>2, <1>3, <1>6 DEF Locals!Abstract!SetDefault
<1>8. Locals!AbstractStep
  BY <1>7 DEF Locals!AbstractStep, Locals!Abstract!VarNext
<1> QED BY <1>5, <1>8 DEF LocalsGoal

\* make-local-variable and its like.
LEMMA MakeLocalStep ==
  ASSUME LocalsInv, NamesApart, Locals!MakeLocal
  PROVE  LocalsGoal
<1>1. CellOK(sym) /\ selected \in Buffers
  BY DEF LocalsInv
<1>2. /\ sym.kind \in {"plain", "some"} /\ selected' = selected
      /\ bindings' = Locals!Abstract!Unsettled(bindings) /\ unused' = TRUE
      /\ \/ sym' = Locals!Fmake_local_variable(sym, selected)
         \/ sym' = Locals!Fmake_variable_buffer_local(sym, selected)
  BY DEF Locals!MakeLocal
<1>3. SetUp(sym', selected, unused')
  BY <1>2 DEF SetUp
<1>4. CASE sym' = Locals!Fmake_local_variable(sym, selected)
  <2>1. /\ CellOK(sym') /\ sym'.kind = "some"
        /\ Own(sym') = Own(sym) \cup {selected}
        /\ DefaultOf(sym') = DefaultOf(sym)
        /\ \A c \in Buffers : Seen(sym', c) = Seen(sym, c)
    BY <1>1, <1>2, <1>4, MakingLocal
  <2>2. LocalsInv' /\ Locals!Abstract!LetRestores
    BY <1>2, <1>3, <2>1, UnsettledStep
  <2>3. /\ Locals!own' = Locals!own \cup {selected}
        /\ Locals!default' = Locals!default /\ Locals!seen' = Locals!seen
    BY <1>1, <2>1, Shown, ShownNext
  <2>4. Locals!Abstract!MakeLocalVariable
    BY <1>2, <2>1, <2>3 DEF Locals!Abstract!MakeLocalVariable
  <2>5. Locals!AbstractStep
    BY <2>4 DEF Locals!AbstractStep, Locals!Abstract!VarNext
  <2> QED BY <2>2, <2>5 DEF LocalsGoal
<1>5. CASE sym' = Locals!Fmake_variable_buffer_local(sym, selected)
  <2>1. /\ CellOK(sym') /\ sym'.kind = "always"
        /\ Own(sym') = Own(sym) /\ DefaultOf(sym') = DefaultOf(sym)
        /\ \A c \in Buffers : Seen(sym', c) = Seen(sym, c)
    BY <1>1, <1>2, <1>5, MakingAllLocal
  <2>2. LocalsInv' /\ Locals!Abstract!LetRestores
    BY <1>2, <1>3, <2>1, UnsettledStep
  <2>3. /\ Locals!own' = Locals!own
        /\ Locals!default' = Locals!default /\ Locals!seen' = Locals!seen
    BY <1>1, <2>1, Shown, ShownNext
  <2>4. Locals!Abstract!MakeVariableBufferLocal
    BY <1>2, <2>1, <2>3 DEF Locals!Abstract!MakeVariableBufferLocal
  <2>5. Locals!AbstractStep
    BY <2>4 DEF Locals!AbstractStep, Locals!Abstract!VarNext
  <2> QED BY <2>2, <2>5 DEF LocalsGoal
<1> QED BY <1>2, <1>4, <1>5

\* kill-local-variable and its like.
LEMMA KillLocalStep ==
  ASSUME LocalsInv, NamesApart, Locals!KillLocal
  PROVE  LocalsGoal
<1>1. CellOK(sym) /\ selected \in Buffers
  BY DEF LocalsInv
<1>2. /\ selected' = selected /\ unused' = TRUE
      /\ bindings' = Locals!Abstract!Unsettled(bindings)
      /\ \/ sym' = Locals!Fkill_local_variable(sym, selected)
         \/ sym' = Locals!Fkill_all_local_variables(sym, selected)
  BY DEF Locals!KillLocal
<1>3. SetUp(sym', selected, unused')
  BY <1>2 DEF SetUp
<1>4. Killed(sym', sym, selected)
  BY <1>1, <1>2, KillingLocal, KillingAll
<1>5. /\ CellOK(sym') /\ sym'.kind = sym.kind
      /\ Own(sym') = Own(sym) \ {selected} /\ DefaultOf(sym') = DefaultOf(sym)
      /\ \A c \in Buffers :
           Seen(sym', c) = IF c = selected THEN DefaultOf(sym) ELSE Seen(sym, c)
  BY <1>4 DEF Killed
<1>6. LocalsInv' /\ Locals!Abstract!LetRestores
  BY <1>2, <1>3, <1>5, UnsettledStep
<1>7. /\ Locals!own' = Locals!own \ {selected}
      /\ Locals!default' = Locals!default
      /\ Locals!seen' = [Locals!seen EXCEPT ![selected] = Locals!default]
  BY <1>1, <1>5, Shown, ShownNext
<1>8. Locals!Abstract!KillLocal
  BY <1>2, <1>5, <1>7 DEF Locals!Abstract!KillLocal
<1>9. Locals!AbstractStep
  BY <1>8 DEF Locals!AbstractStep, Locals!Abstract!VarNext
<1> QED BY <1>6, <1>9 DEF LocalsGoal

\* It does not matter to a set if the cell was looked up before.
LEMMA StoredAlike ==
  ASSUME NEW s, NEW t, Alike(t, s), NEW o, NEW b \in Buffers, NEW v,
         Stored(o, t, b, v)
  PROVE  Stored(o, s, b, v)
BY DEF Alike, Stored

\* specbind.
LEMMA SpecbindStep ==
  ASSUME LocalsInv, NamesApart, NEW v \in Values, Locals!Specbind(v)
  PROVE  LocalsGoal
<1> DEFINE s == Locals!Fsymbol_value(sym, selected)
           e == [what |-> "let", old |-> Seen(sym, selected), buffer |-> selected,
                 before |-> [c \in Buffers |-> Seen(sym, c)]]
           q == Locals!Abstract!SetHere(bindings)
<1>1. /\ CellOK(sym) /\ selected \in Buffers /\ bindings \in Seq(Entries)
      /\ \A i \in 1 .. Len(bindings) : Restorable(sym, bindings[i])
  BY DEF LocalsInv
<1>2. /\ sym' = IF s.kind = "slot" THEN [s EXCEPT !.alist[selected] = v]
                ELSE Locals!Fset(s, selected, v)
      /\ selected' = selected /\ Len(bindings) < MaxDepth
      /\ bindings' = Append(q, Locals!Abstract!LetEntry)
  BY DEF Locals!Specbind
<1>3. Locals!Abstract!LetEntry = e
  BY <1>1, Shown DEF Locals!Abstract!LetEntry
<1>4. e \in Entries /\ e.buffer = selected /\ Restorable(sym, e)
  BY <1>1, EntryMade
<1>5. Alike(s, sym) /\ s.kind = sym.kind /\ CellOK(s)
  BY <1>1, Looking DEF Alike
<1> HIDE DEF e
<1>6. /\ CellOK(sym') /\ sym'.kind = sym.kind /\ SetUp(sym', selected, unused')
      /\ Preserves(sym', sym, selected)
      /\ IF sym.kind = "slot"
           THEN /\ Locals!seen' = [Locals!seen EXCEPT ![selected] = v]
                /\ UNCHANGED <<Locals!default, Locals!own>>
           ELSE Locals!Abstract!Assign(v)
  <2>1. CASE sym.kind = "slot"
    <3>1. s = sym
      BY <2>1 DEF Locals!Fsymbol_value, Locals!Swapped
    <3>2. sym' = [sym EXCEPT !.alist[selected] = v]
      BY <1>2, <2>1, <3>1
    <3> HIDE DEF s
    <3>3. /\ CellOK(sym') /\ sym'.kind = sym.kind
          /\ Own(sym') = Own(sym) /\ DefaultOf(sym') = DefaultOf(sym)
          /\ \A c \in Buffers :
               Seen(sym', c) = IF c = selected THEN v ELSE Seen(sym, c)
      BY <1>1, <2>1, <3>2, BindingSlot
    <3>4. Preserves(sym', sym, selected)
      BY <1>1, <2>1, <3>3, BindingSlotPreserves
    <3>5. SetUp(sym', selected, unused')
      BY <2>1, <3>3 DEF SetUp
    <3>6. /\ Locals!own' = Locals!own /\ Locals!default' = Locals!default
          /\ Locals!seen' = [Locals!seen EXCEPT ![selected] = v]
      BY <1>1, <3>3, Shown, ShownNext
    <3> QED BY <2>1, <3>3, <3>4, <3>5, <3>6
  <2>2. CASE sym.kind # "slot"
    <3>1. sym' = Locals!Fset(s, selected, v)
      BY <1>2, <1>5, <2>2
    <3> HIDE DEF s
    <3>2. /\ Stored(sym', s, selected, v)
          /\ s.kind \in {"some", "always"} => sym'.buffer = selected
      BY <1>1, <1>5, <3>1, Storing
    <3>3. Stored(sym', sym, selected, v)
      BY <1>1, <1>5, <3>2, StoredAlike
    <3>4. CellOK(sym') /\ sym'.kind = sym.kind
      BY <3>3 DEF Stored
    <3>5. SetUp(sym', selected, unused')
      BY <1>1, <1>5, <3>2, <3>4, SetUpWhenCached
    <3>6. Preserves(sym', sym, selected)
      BY <1>1, <3>3, StoringPreserves
    <3>7. Locals!Abstract!Assign(v)
      BY <1>1, <3>3, AssignIs
    <3> QED BY <2>2, <3>4, <3>5, <3>6, <3>7
  <2> QED BY <2>1, <2>2
<1>7. /\ q \in Seq(Entries) /\ Len(q) = Len(bindings)
      /\ \A i \in 1 .. Len(q) : Restorable(sym', q[i])
  BY <1>1, <1>6, StackSet
<1>8. Restorable(sym', e)
  BY <1>4, <1>6 DEF Preserves
<1> HIDE DEF q
<1>9. /\ bindings' \in Seq(Entries) /\ Len(bindings') = Len(q) + 1
      /\ \A i \in 1 .. Len(bindings') : Restorable(sym', bindings'[i])
  BY <1>2, <1>3, <1>4, <1>7, <1>8, StackPushed
<1>10. LocalsInv'
  BY <1>1, <1>2, <1>6, <1>9 DEF LocalsInv
<1>11. Len(bindings) \in Nat
  BY <1>1
<1>12. Locals!Abstract!LetRestores
  BY <1>7, <1>9, <1>11, StackGrows
<1>13. Locals!Abstract!Let(v)
  BY <1>2, <1>6 DEF Locals!Abstract!Let, q
<1>14. Locals!AbstractStep
  BY <1>13 DEF Locals!AbstractStep, Locals!Abstract!VarNext
<1> QED BY <1>10, <1>12, <1>14 DEF LocalsGoal

\* unbind_to.
LEMMA UnbindToStep ==
  ASSUME LocalsInv, NamesApart, Locals!UnbindTo
  PROVE  LocalsGoal
<1> DEFINE e == bindings[Len(bindings)]
           q == SubSeq(bindings, 1, Len(bindings) - 1)
<1>1. /\ CellOK(sym) /\ selected \in Buffers /\ bindings \in Seq(Entries)
      /\ \A i \in 1 .. Len(bindings) : Restorable(sym, bindings[i])
  BY DEF LocalsInv
<1>2. /\ bindings # <<>> /\ Locals!LookedUp
      /\ e = Locals!Abstract!Top /\ q = Locals!Abstract!Popped
      /\ IF e.what = "let"
           THEN /\ sym' = Locals!Fset(sym, selected, e.old)
                /\ bindings' = Locals!Abstract!SetHere(q)
                /\ selected' = selected
           ELSE /\ sym' = Locals!Selected(sym, selected, e.buffer)
                /\ selected' = e.buffer /\ bindings' = q
  BY DEF Locals!UnbindTo, Locals!Abstract!Top, Locals!Abstract!Popped
<1>3. /\ q \in Seq(Entries) /\ Len(q) = Len(bindings) - 1
      /\ \A i \in 1 .. Len(q) : q[i] = bindings[i] /\ i \in 1 .. Len(bindings)
      /\ Len(bindings) \in 1 .. Len(bindings) /\ e \in Entries
  BY <1>1, <1>2, StackPopped
<1>4. Restorable(sym, e) /\ \A i \in 1 .. Len(q) : Restorable(sym, q[i])
  BY <1>1, <1>3
<1>5. Len(bindings) \in Nat
  BY <1>1
<1>6. e.buffer \in Buffers /\ (e.what = "let" => e \in LetEntries)
  BY <1>3 DEF Entries, LetEntries, ExcursionEntries
<1> HIDE DEF e, q
<1>7. CASE e.what = "let"
  <2>1. e.old \in Values /\ e.before \in [Buffers -> Values] \cup {<<>>}
    BY <1>6, <1>7 DEF LetEntries
  <2>2. /\ sym' = Locals!Fset(sym, selected, e.old) /\ selected' = selected
        /\ bindings' = Locals!Abstract!SetHere(q)
    BY <1>2, <1>7
  <2>3. /\ Stored(sym', sym, selected, e.old)
        /\ sym.kind \in {"some", "always"} => sym'.buffer = selected
    BY <1>1, <2>1, <2>2, Storing
  <2>4. CellOK(sym') /\ sym'.kind = sym.kind
    BY <2>3 DEF Stored
  <2>5. SetUp(sym', selected, unused')
    BY <1>1, <2>3, <2>4, SetUpWhenCached
  <2>6. /\ bindings' \in Seq(Entries) /\ Len(bindings') = Len(q)
        /\ \A i \in 1 .. Len(bindings') : Restorable(sym', bindings'[i])
    BY <1>1, <1>3, <1>4, <2>2, <2>3, StoringPreserves, StackSet
  <2>7. LocalsInv'
    BY <1>1, <2>2, <2>4, <2>5, <2>6 DEF LocalsInv
  <2>8. Locals!Abstract!Unwind
    <3>1. Locals!Abstract!Assign(e.old)
      BY <1>1, <2>1, <2>3, AssignIs
    <3> QED BY <1>2, <1>7, <2>2, <2>4, <3>1 DEF Locals!Abstract!Unwind
  <2>9. Locals!AbstractStep
    BY <2>8 DEF Locals!AbstractStep, Locals!Abstract!VarNext
  <2>10. ASSUME e.before # <<>>, e.buffer = selected
         PROVE  Locals!seen' = e.before
    <3>1. e.before \in [Buffers -> Values]
      BY <2>1, <2>10
    <3>2. Locals!seen' = [c \in Buffers |-> Seen(sym', c)]
      BY <2>4, ShownNext
    <3>3. ASSUME NEW c \in Buffers
          PROVE  e.before[c] = Seen(sym', c)
      <4>1. e.before[c] = IF c = selected
            \/ (~Mine(sym, selected) /\ c \notin Own(sym))
                          THEN e.old ELSE Seen(sym, c)
        BY <1>4, <1>7, <2>10 DEF Restorable
      <4>2. CASE Mine(sym, selected)
        <5>1. Seen(sym', c) = IF c = selected THEN e.old ELSE Seen(sym, c)
          BY <2>3, <4>2 DEF Stored, Mine
        <5> QED BY <4>1, <4>2, <5>1
      <4>3. CASE ~Mine(sym, selected)
        <5>1. /\ selected \notin Own(sym)
              /\ Seen(sym', c) = IF c \in Own(sym) THEN Seen(sym, c) ELSE e.old
          BY <2>3, <4>3 DEF Stored, Mine
        <5> QED BY <4>1, <4>3, <5>1
      <4> QED BY <4>2, <4>3
    <3> QED BY <3>1, <3>2, <3>3
  <2>11. Locals!Abstract!LetRestores
    BY <1>2, <2>10 DEF Locals!Abstract!LetRestores, Locals!Abstract!Forgotten
  <2> QED BY <2>7, <2>9, <2>11 DEF LocalsGoal
<1>8. CASE e.what # "let"
  <2>1. /\ sym' = Locals!Selected(sym, selected, e.buffer)
        /\ selected' = e.buffer /\ bindings' = q
    BY <1>2, <1>8
  <2>2. Alike(sym', sym) /\ SetUp(sym', e.buffer, unused')
    BY <1>2, <1>6, <2>1, SelectingKeepsSetUp
  <2>3. Len(q) \in Nat
    BY <1>3
  <2>4. LocalsInv' /\ Locals!own' = Locals!own /\ Locals!seen' = Locals!seen
        /\ Locals!default' = Locals!default /\ sym'.kind = sym.kind
    BY <1>3, <1>4, <1>6, <2>1, <2>2, <2>3, LookingStep
  <2>5. Locals!Abstract!Unwind
    BY <1>2, <1>8, <2>1, <2>4 DEF Locals!Abstract!Unwind
  <2>6. Locals!AbstractStep
    BY <2>5 DEF Locals!AbstractStep, Locals!Abstract!VarNext
  <2>7. Locals!Abstract!LetRestores
    BY <1>2, <1>8 DEF Locals!Abstract!LetRestores
  <2> QED BY <2>4, <2>6, <2>7 DEF LocalsGoal
<1> QED BY <1>7, <1>8

\* Every step keeps the invariant and is one of Variables.
LEMMA LocalsStep ==
  ASSUME LocalsInv, NamesApart, Locals!LocalsNext
  PROVE  LocalsGoal
BY UseStep, SetBufferStep, SaveExcursionStep, SetVariableStep, SetDefaultStep,
   MakeLocalStep, KillLocalStep, SpecbindStep, UnbindToStep DEF Locals!LocalsNext

\* Variables start in order.
LEMMA LocalsStart ==
  ASSUME Locals!LocalsInit, NamesApart
  PROVE  LocalsInv /\ Locals!Abstract!VarInit
<1>1. PICK v \in Values, slot \in BOOLEAN, forwarded \in BOOLEAN :
        sym = [kind |-> IF slot THEN "slot" ELSE "plain",
               forwarded |-> forwarded /\ ~slot,
               realvalue |-> v, buffer |-> "nil", element |-> "default",
               default |-> v,
               alist |-> [b \in Buffers |-> IF slot THEN v ELSE NoValue],
               flags |-> {}]
  BY DEF Locals!LocalsInit, Locals!None, Locals!Default
<1>2. selected \in Buffers /\ bindings = <<>> /\ unused = FALSE
  BY DEF Locals!LocalsInit
<1>3. /\ sym.kind = IF slot THEN "slot" ELSE "plain"
      /\ (sym.forwarded <=> forwarded /\ ~slot)
      /\ sym.realvalue = v /\ sym.buffer = "nil" /\ sym.element = "default"
      /\ sym.default = v
      /\ sym.alist = [b \in Buffers |-> IF slot THEN v ELSE NoValue]
      /\ sym.flags = {}
  BY <1>1
<1>4. sym \in Locals!Symbol
  BY <1>1 DEF Locals!Symbol, Locals!None, Locals!Default
<1>5. CellOK(sym)
  BY <1>3, <1>4 DEF CellOK, NamesApart
<1>6. SetUp(sym, selected, unused)
  BY <1>3 DEF SetUp
<1>7. LocalsInv
  BY <1>2, <1>5, <1>6 DEF LocalsInv
<1>8. Own(sym) = {} /\ DefaultOf(sym) = v /\ \A b \in Buffers : Seen(sym, b) = v
  BY <1>3 DEF Own, DefaultOf, Seen
<1>9. /\ Locals!own = {} /\ Locals!default = v
      /\ Locals!seen = [b \in Buffers |-> Locals!default]
  BY <1>5, <1>8, Shown
<1>10. sym.kind \in {"plain", "slot"}
  BY <1>3
<1> QED BY <1>2, <1>7, <1>9, <1>10 DEF Locals!Abstract!VarInit

\* Nothing of the parts that are not in use changes.
LEMMA LocalsStay ==
  ASSUME LocalsInv, UNCHANGED localVars
  PROVE  LocalsGoal
<1>1. UNCHANGED <<sym, selected, bindings, unused>>
  BY DEF localVars
<1>2. LocalsInv'
  BY <1>1 DEF LocalsInv
<1>3. /\ Locals!own' = Locals!own /\ Locals!default' = Locals!default
      /\ Locals!seen' = Locals!seen
  BY <1>1 DEF Locals!own, Locals!default, Locals!seen
<1>4. Locals!AbstractStep
  BY <1>1, <1>3 DEF Locals!AbstractStep
<1>5. Locals!Abstract!LetRestores
  BY <1>1, StackGrows DEF LocalsInv
<1> QED BY <1>2, <1>4, <1>5 DEF LocalsGoal

\* As assumed of the constants.
LEMMA NamesAreApart == NamesApart
BY SessionsAssumption DEF NamesApart, Names, Locals!BufferLocalsAssumption

\* The first state.
LEMMA LocalsFirst ==
  ASSUME SessionsInit
  PROVE  session = "locals" => LocalsInv /\ Locals!Abstract!VarInit
BY LocalsStart, NamesAreApart DEF SessionsInit

\* Every step of the session.
LEMMA LocalsNextOf ==
  ASSUME session = "locals", LocalsInv, [SessionsNext]_sessionsVars
  PROVE  LocalsGoal /\ session' = session
<1>1. CASE SessionsNext
  BY <1>1, LocalsStep, NamesAreApart DEF SessionsNext
<1>2. CASE UNCHANGED sessionsVars
  BY <1>2, LocalsStay DEF sessionsVars
<1> QED BY <1>1, <1>2

\* The value cell is in order, and what specpdl holds can be restored.
LEMMA LocalsAlways == SessionsSpec => [](session = "locals" => LocalsInv)
<1> DEFINE I == session = "locals" => LocalsInv
<1>1. SessionsInit => I
  BY LocalsFirst
<1>2. I /\ [SessionsNext]_sessionsVars => I'
  <2> SUFFICES ASSUME I, [SessionsNext]_sessionsVars, session' = "locals"
               PROVE  LocalsInv'
    OBVIOUS
  <2>1. session = "locals"
    BY DEF SessionsNext, sessionsVars
  <2> QED BY <2>1, LocalsNextOf DEF LocalsGoal
<1> QED BY <1>1, <1>2, PTL DEF SessionsSpec

\* BufferLocals implements Variables: whatever is set, bound, made local or
\* killed in whatever buffer, swapping values in and out of the value cell is
\* never noticed (data.c, eval.c, buffer.c).
THEOREM SwappingIsUnnoticed == SessionsSpec => SwappingUnnoticed
<1>1. SessionsInit => (session = "locals" => Locals!Abstract!VarInit)
  BY LocalsFirst
<1>2. (session = "locals" => LocalsInv) /\ [SessionsNext]_sessionsVars
        => [session = "locals" => Locals!AbstractStep]_sessionsVars
  BY LocalsNextOf DEF LocalsGoal
<1> QED BY <1>1, <1>2, LocalsAlways, PTL DEF SessionsSpec, SwappingUnnoticed

\* C code finds the value of the current buffer in a variable, but for one made
\* local or killed and not looked up since (buffer.c, set_buffer_internal).
THEOREM SetUpForCAlways == SessionsSpec => []SetUpForC
<1>1. (session = "locals" => LocalsInv) => SetUpForC
  <2> SUFFICES ASSUME LocalsInv, sym.forwarded, Locals!Swapped(sym), ~unused
               PROVE  sym.realvalue = Locals!ValueIn(sym, selected)
    BY DEF SetUpForC, Locals!SetUpForCurrentBuffer
  <2>1. CellOK(sym) /\ selected \in Buffers /\ SetUp(sym, selected, unused)
    BY DEF LocalsInv
  <2>2. sym.kind \in {"some", "always"}
    BY DEF Locals!Swapped
  <2>3. sym.element = IF selected \in Own(sym) THEN selected ELSE "default"
    BY <2>1, <2>2 DEF SetUp
  <2>4. sym.realvalue = Seen(sym, selected)
    BY <2>1, <2>2, <2>3 DEF Seen, Own, CellOK
  <2> QED BY <2>1, <2>4, ValueIs, NamesAreApart
<1> QED BY <1>1, LocalsAlways, PTL

\* A let that ends in the buffer where it began, with nothing but setq there in
\* between, leaves every buffer seeing what it saw (eval.c, unbind_to).
THEOREM LetsAlwaysRestore == SessionsSpec => LetsRestore
<1>1. (session = "locals" => LocalsInv) /\ [SessionsNext]_sessionsVars
        => [session = "locals" => Locals!Abstract!LetRestores]_sessionsVars
  BY LocalsNextOf DEF LocalsGoal
<1> QED BY <1>1, LocalsAlways, PTL DEF SessionsSpec, LetsRestore

-----------------------------------------------------------------------------
(***************************************************************************)
(* Searching for a regular expression (regex.c).                           *)
(***************************************************************************)
\* The places a search goes through are in the text.
InText ==
  /\ startpos \in 0 .. Matcher!Total /\ range \in Int
  /\ startpos + range \in 0 .. Matcher!Total

FailurePoint == [p : Int, d : Int]

\* A failure point is a dummy, or a command and a position not beyond dpos.
IsPoint(f, dpos) ==
  f.p # 0 => /\ f.p \in 1 .. Len(compiled) + 1
             /\ f.d \in 0 .. Matcher!Total /\ f.d <= dpos

\* Positions do not decrease from one failure point to the next: a match goes
\* forward only, and what is popped leaves those before it.
Ordered(fs) ==
  \A m, n \in DOMAIN fs :
    m < n /\ fs[m].p # 0 /\ fs[n].p # 0 => fs[m].d <= fs[n].d

Points(fs, dpos) ==
  /\ fs \in Seq(FailurePoint)
  /\ \A n \in DOMAIN fs : IsPoint(fs[n], dpos)
  /\ Ordered(fs)

\* The matcher is at a command or at the end of them, in its string.
InString ==
  /\ pc \in 1 .. Len(compiled) + 1 /\ dp \in 0 .. Matcher!Total
  /\ \/ seg = 1 /\ dp <= size1
     \/ seg = 2 /\ dp > size1
  /\ Points(failures, dp)

MatcherInv ==
  /\ Matcher!IsCode(compiled) /\ subject \in Seq(Matcher!Characters)
  /\ size1 \in Nat
  /\ result \in {"searching", "matching"} => InText
  /\ result = "matching" => InString

MatcherGiven ==
  /\ compiled' = compiled /\ subject' = subject /\ size1' = size1

-----------------------------------------------------------------------------
(***************************************************************************)
(* Stacks of failure points.                                               *)
(***************************************************************************)
LEMMA PointsEmpty ==
  ASSUME NEW dpos \in Int
  PROVE  Points(<<>>, dpos)
BY DEF Points, Ordered

LEMMA PointsPushed ==
  ASSUME NEW fs, NEW dpos \in Int, Points(fs, dpos),
         NEW f \in FailurePoint, IsPoint(f, dpos), f.p = 0 \/ f.d = dpos
  PROVE  Points(Append(fs, f), dpos)
<1> DEFINE gs == Append(fs, f)
<1>1. /\ gs \in Seq(FailurePoint) /\ DOMAIN gs = 1 .. Len(fs) + 1
      /\ Len(fs) \in Nat /\ DOMAIN fs = 1 .. Len(fs)
      /\ gs[Len(fs) + 1] = f /\ \A n \in 1 .. Len(fs) : gs[n] = fs[n]
  BY DEF Points
<1> HIDE DEF gs
<1>2. ASSUME NEW n \in DOMAIN gs PROVE IsPoint(gs[n], dpos)
  <2>1. gs[n] = f \/ (n \in DOMAIN fs /\ gs[n] = fs[n])
    BY <1>1
  <2> QED BY <2>1 DEF Points
<1>3. Ordered(gs)
  <2> SUFFICES ASSUME NEW m \in DOMAIN gs, NEW n \in DOMAIN gs, m < n,
                      gs[m].p # 0, gs[n].p # 0
               PROVE  gs[m].d <= gs[n].d
    BY DEF Ordered
  <2>1. m \in DOMAIN fs /\ gs[m] = fs[m]
    BY <1>1
  <2>2. CASE n \in DOMAIN fs
    BY <2>1, <2>2, <1>1 DEF Points, Ordered
  <2>3. CASE n \notin DOMAIN fs
    <3>1. gs[n] = f
      BY <1>1, <2>3
    <3>2. f.d = dpos /\ fs[m].d <= dpos
      BY <3>1, <2>1 DEF Points, IsPoint
    <3> QED BY <3>1, <3>2, <2>1
  <2> QED BY <2>2, <2>3
<1> QED BY <1>1, <1>2, <1>3 DEF Points, gs

\* What is below a failure point, seen from where it leads back to.
LEMMA PointsPopped ==
  ASSUME NEW fs, NEW dpos \in Int, Points(fs, dpos),
         NEW n \in Nat, n <= Len(fs), NEW less \in Int,
         less = dpos \/ (n < Len(fs) /\ fs[n + 1].p # 0 /\ less = fs[n + 1].d)
  PROVE  Points(SubSeq(fs, 1, n), less)
<1> DEFINE gs == SubSeq(fs, 1, n)
<1>1. /\ fs \in Seq(FailurePoint) /\ Len(fs) \in Nat
      /\ DOMAIN fs = 1 .. Len(fs)
  BY DEF Points
<1>2. /\ gs \in Seq(FailurePoint) /\ DOMAIN gs = 1 .. n
      /\ \A m \in 1 .. n : gs[m] = fs[m] /\ m \in DOMAIN fs
  <2>1. gs = [m \in 1 .. n |-> fs[m]]
    BY <1>1
  <2>2. \A m \in 1 .. n : m \in DOMAIN fs /\ fs[m] \in FailurePoint
    <3>1. 1 .. n \subseteq 1 .. Len(fs)
      BY <1>1
    <3>2. \A m \in 1 .. Len(fs) : fs[m] \in FailurePoint
      BY <1>1
    <3> QED BY <1>1, <3>1, <3>2
  <2>3. \A m \in 1 .. n : gs[m] = fs[m]
    BY <2>1
  <2>4. DOMAIN gs = 1 .. n
    BY <2>1
  <2>5. gs \in [1 .. n -> FailurePoint]
    BY <2>1, <2>2
  <2> QED BY <2>2, <2>3, <2>4, <2>5
<1> HIDE DEF gs
<1>3. ASSUME NEW m \in DOMAIN gs PROVE IsPoint(gs[m], less)
  <2>1. gs[m] = fs[m] /\ m \in DOMAIN fs /\ m \in 1 .. n
    BY <1>2
  <2> SUFFICES ASSUME fs[m].p # 0 PROVE fs[m].d <= less
    BY <2>1 DEF Points, IsPoint
  <2>2. CASE less = dpos
    BY <2>1, <2>2 DEF Points, IsPoint
  <2>3. CASE n < Len(fs) /\ fs[n + 1].p # 0 /\ less = fs[n + 1].d
    <3>1. n + 1 \in DOMAIN fs /\ m < n + 1
      BY <1>1, <2>1, <2>3
    <3> QED BY <2>1, <2>3, <3>1 DEF Points, Ordered
  <2> QED BY <2>2, <2>3
<1>4. Ordered(gs)
  BY <1>2 DEF Points, Ordered
<1> QED BY <1>2, <1>3, <1>4 DEF Points, gs

-----------------------------------------------------------------------------
(***************************************************************************)
(* Going on, back and to the next place.                                   *)
(***************************************************************************)
\* The last failure point that is not a dummy.
LEMMA LastLive ==
  ASSUME failures \in Seq(FailurePoint), Matcher!Live # {}
  PROVE  LET n == Matcher!Max(Matcher!Live)
         IN n \in 1 .. Len(failures) /\ failures[n].p # 0
<1>1. Len(failures) \in Nat /\ Matcher!Live \in SUBSET (1 .. Len(failures))
  BY DEF Matcher!Live
<1>2. Max(Matcher!Live) \in Matcher!Live
  BY <1>1, MaxOfInterval
<1>3. Max(Matcher!Live) = Matcher!Max(Matcher!Live)
  BY DEF Max, Matcher!Max
<1> QED BY <1>1, <1>2, <1>3 DEF Matcher!Live

LEMMA SkippedInRange ==
  ASSUME InText, size1 \in Nat, range > 0
  PROVE  Matcher!Skipped \in 0 .. range
<1> DEFINE lim == IF startpos < size1 /\ startpos + range >= size1
                  THEN size1 - startpos ELSE range
           S == {n \in 0 .. lim : n = lim \/ Matcher!InFastmap(startpos + n)}
<1>1. lim \in 0 .. range /\ lim \in Nat
  BY DEF InText
<1>2. Matcher!Skipped = Matcher!Min(S)
  BY DEF Matcher!Skipped
<1>3. S \subseteq 0 .. lim /\ lim \in S
  BY <1>1
<1>4. Matcher!Min(S) = Min(S)
  BY DEF Min, Matcher!Min
<1> HIDE DEF S, lim
<1>5. Min(S) \in S
  <2>1. CASE 0 \in S
    <3>1. \A y \in S : 0 <= y
      BY <1>1, <1>3
    <3> QED BY <2>1, <3>1 DEF Min
  <2>2. CASE 0 \notin S
    <3>1. S \in SUBSET (1 .. lim) /\ S # {}
      BY <1>1, <1>3, <2>2
    <3> QED BY <3>1, <1>1, MinOfInterval
  <2> QED BY <2>1, <2>2
<1>6. Min(S) \in 0 .. lim
  BY <1>3, <1>5
<1>7. Matcher!Skipped = Min(S)
  BY <1>2, <1>4
<1>8. range \in Int
  BY DEF InText
<1> QED BY <1>1, <1>6, <1>7, <1>8

LEMMA AdvanceKeeps ==
  ASSUME MatcherInv, MatcherGiven, InText, Matcher!Advance(startpos, range)
  PROVE  MatcherInv'
<1>1. result' # "matching"
  BY DEF Matcher!Advance
<1>2. result' = "searching" => InText'
  BY DEF Matcher!Advance, InText, MatcherGiven, Matcher!Total, MatcherInv
<1>3. result' \in {"none", "searching"}
  BY DEF Matcher!Advance
<1> QED BY <1>1, <1>2, <1>3 DEF MatcherInv, MatcherGiven

LEMMA MatchFromKeeps ==
  ASSUME MatcherInv, MatcherGiven, NEW from \in 0 .. Matcher!Total,
         NEW left \in Int, from + left \in 0 .. Matcher!Total,
         Matcher!MatchFrom(from, left)
  PROVE  MatcherInv'
<1>1. CASE result' = "none"
  BY <1>1 DEF MatcherInv, MatcherGiven
<1>2. CASE result' # "none"
  <2>1. /\ result' = "matching" /\ startpos' = from /\ range' = left
        /\ pc' = 1 /\ dp' = from /\ failures' = <<>>
        /\ seg' = IF from <= size1 THEN 1 ELSE 2
    BY <1>2 DEF Matcher!MatchFrom
  <2>2. Matcher!Total' = Matcher!Total
    BY DEF Matcher!Total, MatcherGiven
  <2>3. InText'
    BY <2>1, <2>2 DEF InText
  <2>4. Len(compiled') \in Nat
    BY DEF MatcherInv, MatcherGiven, Matcher!IsCode
  <2>5. Points(failures, dp)'
    BY <2>1 DEF Points, Ordered
  <2>6. from \in Int /\ size1 \in Nat
    BY DEF MatcherInv, Matcher!Total
  <2>7. InString'
    BY <2>1, <2>2, <2>4, <2>5, <2>6 DEF InString, MatcherGiven
  <2> QED BY <2>1, <2>3, <2>7 DEF MatcherInv, MatcherGiven
<1> QED BY <1>1, <1>2

LEMMA SearchKeeps ==
  ASSUME MatcherInv, Matcher!Search
  PROVE  MatcherInv'
<1>1. MatcherGiven /\ InText /\ size1 \in Nat
  BY DEF Matcher!Search, MatcherGiven, MatcherInv
<1>2. startpos \in 0 .. Matcher!Total /\ range \in Int /\ Matcher!Total \in Nat
  BY <1>1 DEF InText, Matcher!Total, MatcherInv
<1>3. CASE Matcher!MatchFrom(startpos, range)
  BY <1>1, <1>3, MatchFromKeeps DEF InText
<1>4. CASE range > 0 /\ Matcher!MatchFrom(startpos + Matcher!Skipped, range - Matcher!Skipped)
  <2>1. Matcher!Skipped \in 0 .. range
    BY <1>1, <1>4, SkippedInRange
  <2> DEFINE from == startpos + Matcher!Skipped
             left == range - Matcher!Skipped
  <2>2. /\ from \in 0 .. Matcher!Total /\ left \in Int
        /\ from + left \in 0 .. Matcher!Total
    BY <1>1, <1>2, <2>1 DEF InText
  <2> QED BY <1>1, <1>4, <2>2, MatchFromKeeps
<1>5. CASE Matcher!Advance(startpos, range)
  BY <1>1, <1>5, AdvanceKeeps
<1> QED BY <1>3, <1>4, <1>5 DEF Matcher!Search

LEMMA FailKeeps ==
  ASSUME MatcherInv, MatcherGiven, result = "matching", Matcher!Fail
  PROVE  MatcherInv'
<1>1. InText /\ InString /\ size1 \in Nat /\ Points(failures, dp)
  BY DEF MatcherInv, InString
<1>2. CASE Matcher!Live = {}
  BY <1>1, <1>2, AdvanceKeeps DEF Matcher!Fail
<1>3. CASE Matcher!Live # {}
  <2> DEFINE n == Matcher!Max(Matcher!Live)
  <2>1. n \in 1 .. Len(failures) /\ failures[n].p # 0
    BY <1>1, <1>3, LastLive DEF Points
  <2>2. /\ pc' = failures[n].p /\ dp' = failures[n].d
        /\ seg' = IF failures[n].d <= size1 THEN 1 ELSE seg
        /\ failures' = SubSeq(failures, 1, n - 1)
        /\ startpos' = startpos /\ range' = range /\ result' = result
    BY <1>3 DEF Matcher!Fail
  <2> HIDE DEF n
  <2>3. IsPoint(failures[n], dp)
    BY <1>1, <2>1 DEF Points
  <2>4. /\ pc' \in 1 .. Len(compiled) + 1 /\ dp' \in 0 .. Matcher!Total
        /\ dp' <= dp
    BY <2>1, <2>2, <2>3 DEF IsPoint
  <2>5. Len(failures) \in Nat /\ dp \in Int /\ dp' \in Int
    BY <1>1, <2>4 DEF Points, InString
  <2>6. Points(SubSeq(failures, 1, n - 1), dp')
    <3>1. /\ n - 1 \in Nat /\ n - 1 < Len(failures)
          /\ (n - 1) + 1 = n
      BY <2>1, <2>5
    <3> QED BY <1>1, <2>1, <2>2, <2>5, <3>1, PointsPopped
  <2>7. Points(failures, dp)'
    BY <2>2, <2>6 DEF Points, IsPoint, Matcher!Total, MatcherGiven
  <2>8. (seg' = 1 /\ dp' <= size1) \/ (seg' = 2 /\ dp' > size1)
    BY <1>1, <2>2, <2>4, <2>5 DEF InString
  <2> QED BY <1>1, <2>2, <2>4, <2>7, <2>8
          DEF MatcherInv, MatcherGiven, InText, InString, Matcher!Total
<1> QED BY <1>2, <1>3

\* On to a command of the pattern, n characters further.
LEMMA GoOnKeeps ==
  ASSUME MatcherInv, MatcherGiven, result = "matching",
         NEW q \in 1 .. Len(compiled) + 1, NEW n \in Nat,
         dp + n <= Matcher!Total, Matcher!GoOn(q, n),
         Points(failures', dp)
  PROVE  MatcherInv'
<1>1. InText /\ InString /\ size1 \in Nat
  BY DEF MatcherInv
<1>2. /\ pc' = q /\ dp' = dp + n
      /\ seg' = IF n > 0 /\ dp + n > size1 THEN 2 ELSE seg
      /\ startpos' = startpos /\ range' = range /\ result' = result
  BY DEF Matcher!GoOn
<1>3. dp \in 0 .. Matcher!Total /\ Matcher!Total \in Nat
  BY <1>1 DEF InString, Matcher!Total, MatcherInv
<1>4. dp' \in 0 .. Matcher!Total /\ dp <= dp'
  BY <1>2, <1>3
<1>5. Points(failures', dp')
  <2> SUFFICES ASSUME NEW m \in DOMAIN failures' PROVE IsPoint(failures'[m], dp')
    BY DEF Points
  <2>1. IsPoint(failures'[m], dp)
    BY DEF Points
  <2> QED BY <1>3, <1>4, <2>1 DEF IsPoint
<1>6. Points(failures, dp)'
  BY <1>5 DEF Points, IsPoint, Matcher!Total, MatcherGiven
<1>7. (seg' = 1 /\ dp' <= size1) \/ (seg' = 2 /\ dp' > size1)
  BY <1>1, <1>2, <1>3 DEF InString
<1> QED BY <1>1, <1>2, <1>4, <1>6, <1>7
        DEF MatcherInv, MatcherGiven, InText, InString, Matcher!Total

\* Where the commands lead: to others, or to the end of the pattern.
LEMMA CommandsLead ==
  ASSUME Matcher!IsCode(compiled), NEW q \in DOMAIN compiled
  PROVE  /\ Len(compiled) \in Nat /\ q + 1 \in 1 .. Len(compiled) + 1
         /\ compiled[q].op = "exactn" =>
              /\ compiled[q].n \in Nat
              /\ q + 1 + compiled[q].n \in 1 .. Len(compiled) + 1
         /\ compiled[q].op \in Matcher!Jumps =>
              Matcher!Target(compiled, q) \in 1 .. Len(compiled) + 1
<1> DEFINE Command == [op : STRING, n : Int, cs : SUBSET Matcher!Characters]
<1>1. compiled \in Seq(Command)
  BY DEF Matcher!IsCode
<1>2. \A x \in Command : x.n \in Int
  OBVIOUS
<1> HIDE DEF Command
<1>3. Len(compiled) \in Nat /\ DOMAIN compiled = 1 .. Len(compiled)
  BY <1>1
<1>4. compiled[q].n \in Int
  BY <1>1, <1>2, <1>3
<1>5. q \in Nat /\ q >= 1 /\ q <= Len(compiled)
  BY <1>3
<1> QED BY <1>3, <1>4, <1>5 DEF Matcher!IsCode

LEMMA GoOnIfKeeps ==
  ASSUME MatcherInv, MatcherGiven, result = "matching", NEW cond \in BOOLEAN,
         NEW q \in 1 .. Len(compiled) + 1, NEW n \in Nat,
         cond => dp + n <= Matcher!Total, Matcher!GoOnIf(cond, q, n)
  PROVE  MatcherInv'
<1>1. CASE cond
  <2>1. Matcher!GoOn(q, n) /\ failures' = failures
    BY <1>1 DEF Matcher!GoOnIf
  <2>2. Points(failures', dp)
    BY <2>1 DEF MatcherInv, InString
  <2> QED BY <1>1, <2>1, <2>2, GoOnKeeps
<1>2. CASE ~cond
  BY <1>2, FailKeeps DEF Matcher!GoOnIf
<1> QED BY <1>1, <1>2

-----------------------------------------------------------------------------
(***************************************************************************)
(* The commands.                                                           *)
(***************************************************************************)
LEMMA ExactnKeeps ==
  ASSUME MatcherInv, MatcherGiven, result = "matching", pc # Len(compiled) + 1,
         Matcher!MatchExactn
  PROVE  MatcherInv'
<1>1. Matcher!IsCode(compiled) /\ pc \in DOMAIN compiled
  BY DEF MatcherInv, InString, Matcher!IsCode
<1> DEFINE n == compiled[pc].n
           cond == /\ dp + n <= Matcher!Total
                   /\ \A k \in 1 .. n : subject[dp + k] \in compiled[pc + k].cs
<1>2. compiled[pc].op = "exactn" /\ Matcher!GoOnIf(cond, pc + 1 + n, n)
  BY DEF Matcher!MatchExactn, Matcher!Op
<1>3. n \in Nat /\ pc + 1 + n \in 1 .. Len(compiled) + 1
  BY <1>1, <1>2, CommandsLead
<1>4. cond \in BOOLEAN /\ (cond => dp + n <= Matcher!Total)
  OBVIOUS
<1> HIDE DEF cond, n
<1> QED BY <1>2, <1>3, <1>4, GoOnIfKeeps

LEMMA CharsetKeeps ==
  ASSUME MatcherInv, MatcherGiven, result = "matching", pc # Len(compiled) + 1,
         Matcher!MatchCharset
  PROVE  MatcherInv'
<1>1. Matcher!IsCode(compiled) /\ pc \in DOMAIN compiled
  BY DEF MatcherInv, InString, Matcher!IsCode
<1> DEFINE cond == dp < Matcher!Total /\ subject[dp + 1] \in compiled[pc].cs
<1>2. Matcher!GoOnIf(cond, pc + 1, 1)
  BY DEF Matcher!MatchCharset
<1>3. pc + 1 \in 1 .. Len(compiled) + 1
  BY <1>1, CommandsLead
<1>4. dp \in Int /\ Matcher!Total \in Nat
  BY DEF MatcherInv, InString, Matcher!Total
<1>5. cond \in BOOLEAN /\ (cond => dp + 1 <= Matcher!Total)
  BY <1>4
<1> HIDE DEF cond
<1> QED BY <1>2, <1>3, <1>5, GoOnIfKeeps

LEMMA LineEndsKeep ==
  ASSUME MatcherInv, MatcherGiven, result = "matching", pc # Len(compiled) + 1,
         Matcher!MatchLineEnds
  PROVE  MatcherInv'
<1>1. Matcher!IsCode(compiled) /\ pc \in DOMAIN compiled
  BY DEF MatcherInv, InString, Matcher!IsCode
<1> DEFINE begins == dp = 0 \/ subject[dp] = Matcher!Newline
           ends == dp = Matcher!Total \/ subject[dp + 1] = Matcher!Newline
<1>2. Matcher!GoOnIf(begins, pc + 1, 0) \/ Matcher!GoOnIf(ends, pc + 1, 0)
  BY DEF Matcher!MatchLineEnds
<1>3. pc + 1 \in 1 .. Len(compiled) + 1
  BY <1>1, CommandsLead
<1>4. dp + 0 <= Matcher!Total
  BY DEF MatcherInv, InString, Matcher!Total
<1>5. begins \in BOOLEAN /\ ends \in BOOLEAN
  OBVIOUS
<1> HIDE DEF begins, ends
<1> QED BY <1>2, <1>3, <1>4, <1>5, GoOnIfKeeps

\* Commands that change the stack of failure points only.
LEMMA StandsKeep ==
  ASSUME MatcherInv, MatcherGiven, result = "matching", pc # Len(compiled) + 1,
         Matcher!MatchMemory \/ Matcher!OnFailureJump \/ Matcher!DoJump
  PROVE  MatcherInv'
<1>1. Matcher!IsCode(compiled) /\ pc \in DOMAIN compiled
  BY DEF MatcherInv, InString, Matcher!IsCode
<1>2. /\ pc + 1 \in 1 .. Len(compiled) + 1
      /\ Matcher!Op \in Matcher!Jumps =>
           Matcher!Target(compiled, pc) \in 1 .. Len(compiled) + 1
  BY <1>1, CommandsLead DEF Matcher!Op
<1>3. dp \in 0 .. Matcher!Total /\ dp + 0 <= Matcher!Total /\ dp \in Int
  BY DEF MatcherInv, InString, Matcher!Total
<1>4. Points(failures, dp)
  BY DEF MatcherInv, InString
<1>5. Len(failures) \in Nat
  BY <1>4 DEF Points
<1>6. ASSUME NEW q \in 1 .. Len(compiled) + 1, Matcher!GoOn(q, 0),
             Points(failures', dp)
      PROVE  MatcherInv'
  BY <1>3, <1>6, GoOnKeeps
<1>7. CASE Matcher!MatchMemory
  BY <1>2, <1>4, <1>6, <1>7 DEF Matcher!MatchMemory
<1>8. CASE Matcher!OnFailureJump
  <2>1. CASE result' = "overflow"
    BY <2>1 DEF MatcherInv, MatcherGiven
  <2>2. CASE result' # "overflow"
    <3> DEFINE f == [p |-> Matcher!Target(compiled, pc), d |-> dp]
    <3>1. Matcher!Op = "on_failure_jump" /\ failures' = Append(failures, f)
          /\ Matcher!GoOn(pc + 1, 0)
      BY <1>8, <2>2 DEF Matcher!OnFailureJump
    <3>2. f.p \in 1 .. Len(compiled) + 1 /\ f.d = dp /\ f \in FailurePoint
      BY <1>2, <1>3, <3>1 DEF Matcher!Jumps, FailurePoint
    <3>3. IsPoint(f, dp)
      BY <1>3, <3>2 DEF IsPoint
    <3> HIDE DEF f
    <3>4. Points(failures', dp)
      BY <1>3, <1>4, <3>1, <3>2, <3>3, PointsPushed
    <3> QED BY <1>2, <1>6, <3>1, <3>4
  <2> QED BY <2>1, <2>2
<1>9. CASE Matcher!DoJump
  <2>1. /\ Matcher!Op \in Matcher!Jumps
        /\ Matcher!GoOn(Matcher!Target(compiled, pc), 0)
    BY <1>9 DEF Matcher!DoJump, Matcher!Jumps
  <2>2. CASE failures' = failures
    BY <1>2, <1>4, <1>6, <2>1, <2>2
  <2>3. CASE failures' = Matcher!Front(failures)
    <3>1. failures' = SubSeq(failures, 1, Len(failures) - 1)
      BY <2>3 DEF Matcher!Front
    <3>2. CASE Len(failures) = 0
      <4>1. failures' = <<>>
        BY <1>5, <3>1, <3>2
      <4>2. Points(failures', dp)
        BY <1>3, <4>1, PointsEmpty
      <4> QED BY <1>2, <1>6, <2>1, <4>2
    <3>3. CASE Len(failures) # 0
      <4>1. Len(failures) - 1 \in Nat /\ Len(failures) - 1 <= Len(failures)
        BY <1>5, <3>3
      <4>2. Points(failures', dp)
        BY <1>3, <1>4, <3>1, <4>1, PointsPopped
      <4> QED BY <1>2, <1>6, <2>1, <4>2
    <3> QED BY <3>2, <3>3
  <2>4. CASE failures' = Append(failures, [p |-> 0, d |-> 0])
    <3> DEFINE f == [p |-> 0, d |-> 0]
    <3>1. f \in FailurePoint /\ f.p = 0 /\ IsPoint(f, dp)
      BY DEF FailurePoint, IsPoint
    <3> HIDE DEF f
    <3>2. Points(failures', dp)
      BY <1>3, <1>4, <2>4, <3>1, PointsPushed DEF f
    <3> QED BY <1>2, <1>6, <2>1, <3>2
  <2> QED BY <1>9, <2>2, <2>3, <2>4 DEF Matcher!DoJump
<1> QED BY <1>7, <1>8, <1>9

LEMMA MatchKeeps ==
  ASSUME MatcherInv, Matcher!Match
  PROVE  MatcherInv'
<1>1. MatcherGiven /\ result = "matching"
  BY DEF Matcher!Match, MatcherGiven
<1>2. CASE pc = Len(compiled) + 1
  <2>1. result' = "found"
    BY <1>2 DEF Matcher!Match, Matcher!Succeed
  <2> QED BY <1>1, <2>1 DEF MatcherInv, MatcherGiven
<1>3. CASE pc # Len(compiled) + 1
  <2>1. \/ Matcher!MatchExactn \/ Matcher!MatchCharset \/ Matcher!MatchLineEnds
        \/ Matcher!MatchMemory \/ Matcher!OnFailureJump \/ Matcher!DoJump
        \/ Matcher!Fail
    BY <1>3 DEF Matcher!Match
  <2> QED BY <1>1, <1>3, <2>1, ExactnKeeps, CharsetKeeps, LineEndsKeep,
             StandsKeep, FailKeeps
<1> QED BY <1>2, <1>3

-----------------------------------------------------------------------------
LEMMA MatcherFirst ==
  ASSUME Matcher!MatcherInit
  PROVE  MatcherInv
<1>1. PICK gap \in Gaps : size1 = IF gap < Len(subject) THEN gap ELSE 0
  BY DEF Matcher!MatcherInit
<1>2. size1 \in Nat /\ subject \in Seq(Matcher!Characters)
  BY <1>1, SessionsAssumption DEF Matcher!MatcherAssumption, Matcher!MatcherInit
<1>3. Matcher!IsCode(compiled)
  BY SessionsAssumption DEF Matcher!MatcherAssumption, Matcher!MatcherInit
<1>4. Len(subject) \in Nat
  BY <1>2
<1>5. InText
  BY <1>4 DEF Matcher!MatcherInit, InText, Matcher!Total
<1>6. result = "searching"
  BY DEF Matcher!MatcherInit
<1> QED BY <1>2, <1>3, <1>5, <1>6 DEF MatcherInv

\* re_match_2 never reads the gap: whatever the pattern was compiled to, and
\* wherever the text is divided, the position is in the string whose end it is
\* compared with, also after backtracking from the second string to the first
\* (regex.c, PREFETCH and fail).
THEOREM PointsIntoItsStringAlways == SessionsSpec => []PointsIntoItsString
<1> DEFINE I == session = "regex" => MatcherInv
<1>1. SessionsInit => I
  BY MatcherFirst DEF SessionsInit
<1>2. I /\ [SessionsNext]_sessionsVars => I'
  <2> SUFFICES ASSUME I, [SessionsNext]_sessionsVars, session' = "regex"
               PROVE  MatcherInv'
    OBVIOUS
  <2>1. session = "regex" /\ MatcherInv
    BY DEF SessionsNext, sessionsVars
  <2>2. CASE Matcher!Search
    BY <2>1, <2>2, SearchKeeps
  <2>3. CASE Matcher!Match
    BY <2>1, <2>3, MatchKeeps
  <2>4. CASE UNCHANGED matcherVars
    BY <2>1, <2>4 DEF matcherVars, MatcherInv, InText, InString, Points, Ordered,
                      IsPoint, Matcher!Total
  <2>5. Matcher!MatcherNext \/ UNCHANGED matcherVars
    BY <2>1 DEF SessionsNext, sessionsVars
  <2> QED BY <2>2, <2>3, <2>4, <2>5 DEF Matcher!MatcherNext
<1>3. I => PointsIntoItsString
  <2> SUFFICES ASSUME MatcherInv, result = "matching"
               PROVE  Matcher!StaysInString
    BY DEF PointsIntoItsString, Matcher!StaysInString
  <2> QED BY DEF MatcherInv, InString, Points, IsPoint, Matcher!StaysInString
<1> QED BY <1>1, <1>2, <1>3, PTL DEF SessionsSpec
=============================================================================
