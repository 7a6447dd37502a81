------------------------------ MODULE Movemail ------------------------------
(***************************************************************************)
(* How mail gets from the inbox to the file of Rmail: the mailer appends   *)
(* to the inbox, movemail (movemail.c) copies it to ~/.newmail and deletes *)
(* it, Rmail (rmail-get-new-mail) reads that file, saves its own and       *)
(* deletes ~/.newmail.  Mailer and movemail exclude each other by a lock   *)
(* file, which is taken from its owner when it is a minute old.  Every     *)
(* process may be killed, every write may fail, and a movemail may outlive *)
(* the Emacs that called it.                                               *)
(*                                                                         *)
(* A message is its number.  Left out: POP, flock, several inboxes, and    *)
(* what a crash of the machine does to data not yet on disk.               *)
(***************************************************************************)
EXTENDS Naturals, Sequences, Functions

CONSTANTS
  Movers,   \* the processes that may run movemail
  Nobody,
  MaxSent   \* bound of the model on messages

VARIABLES
  inbox, newmail,  \* the messages in the file, or Absent
  babyl,           \* those in the file of Rmail
  unsaved,         \* those in its buffer alone
  rmail,           \* the place in rmail-get-new-mail, or "dead"
  caller,          \* the movemail that it waits for
  mover,           \* the place of each movemail
  mailer,          \* the place of the mailer
  sent,            \* messages delivered
  lock,            \* the lock file, see Lock
  accident         \* what has gone wrong, see MailIsKept

files == <<inbox, newmail, babyl>>
emacs == <<rmail, caller, unsaved>>
mailVars == <<files, emacs, mover, mailer, sent, lock, accident>>

Absent == <<0>>
Exists(file) == file # Absent
Content(file) == IF Exists(file) THEN Range(file) ELSE {}

\* The mailer may own the lock as well; a lock has an age.
Mailer == "mailer"
NoLock == [owner |-> Nobody, old |-> FALSE]
Locked == lock # NoLock
Fresh(process) == [owner |-> process, old |-> FALSE]

MovemailAssumption ==
  /\ Nobody \notin Movers /\ Mailer \notin Movers /\ Nobody # Mailer
  /\ MaxSent \in Nat

UnderLock == {"open", "create", "copy", "zap", "unlock", "fatal"}

\* Whether the process that made the lock is still at it.
Owned ==
  \/ lock.owner = Mailer /\ mailer # "idle"
  \/ lock.owner \in Movers
       /\ mover[lock.owner] \in UnderLock

MailInit ==
  /\ inbox = Absent /\ newmail = Absent /\ babyl = {} /\ unsaved = {}
  /\ rmail = "idle" /\ caller = Nobody
  /\ mover = [m \in Movers |-> "none"] /\ mailer = "idle" /\ sent = 0
  /\ lock = NoLock /\ accident = "none"

(***************************************************************************)
(* The mailer: /bin/mail, as movemail takes it to work.                    *)
(***************************************************************************)
MailerLocks ==
  /\ mailer = "idle" /\ sent < MaxSent /\ ~Locked
  /\ lock' = Fresh(Mailer) /\ mailer' = "write"
  /\ UNCHANGED <<files, emacs, mover, sent, accident>>

MailerDelivers ==
  /\ mailer = "write"
  /\ inbox' = IF Exists(inbox) THEN Append(inbox, sent + 1) ELSE <<sent + 1>>
  /\ sent' = sent + 1 /\ mailer' = "unlock"
  /\ UNCHANGED <<newmail, babyl, emacs, mover, lock, accident>>

MailerUnlocks ==
  /\ mailer = "unlock"
  /\ lock' = NoLock /\ mailer' = "idle"
  /\ UNCHANGED <<files, emacs, mover, sent, accident>>

MailerDies ==
  /\ mailer # "idle" /\ mailer' = "idle"
  /\ UNCHANGED <<files, emacs, mover, sent, lock, accident>>

\* A minute passes.
TimePasses ==
  /\ Locked /\ ~lock.old /\ lock' = [lock EXCEPT !.old = TRUE]
  /\ UNCHANGED <<files, emacs, mover, mailer, sent, accident>>

(***************************************************************************)
(* movemail                                                                *)
(***************************************************************************)
Goes(m, from, to) == mover[m] = from /\ mover' = [mover EXCEPT ![m] = to]

\* A file of another name is linked to the lock's, or it is not ...
LinkLock(m) ==
  /\ IF Locked THEN Goes(m, "link", "stat") /\ UNCHANGED lock
     ELSE Goes(m, "link", "open") /\ lock' = Fresh(m)
  /\ UNCHANGED <<files, emacs, mailer, sent, accident>>

\* ... and after a second it looks at the age of the lock ...
StatLock(m) ==
  /\ Goes(m, "stat", IF lock.old THEN "break" ELSE "link")
  /\ UNCHANGED <<files, emacs, mailer, sent, lock, accident>>

\* ... and deletes what has that name by now.
BreakLock(m) ==
  /\ Goes(m, "break", "link")
  /\ lock' = NoLock
  /\ accident' = IF Owned THEN "stolen" ELSE accident
  /\ UNCHANGED <<files, emacs, mailer, sent>>

OpenInbox(m) ==
  /\ Goes(m, "open", IF Exists(inbox) THEN "create" ELSE "fatal")
  /\ UNCHANGED <<files, emacs, mailer, sent, lock, accident>>

\* O_CREAT | O_EXCL
CreateNewmail(m) ==
  /\ IF Exists(newmail) THEN Goes(m, "create", "fatal") /\ UNCHANGED newmail
     ELSE Goes(m, "create", "copy") /\ newmail' = <<>>
  /\ UNCHANGED <<inbox, babyl, emacs, mailer, sent, lock, accident>>

\* read and write, as often as it takes.
Copy(m) ==
  /\ mover[m] = "copy" /\ Len(newmail) < Len(inbox)
  /\ newmail' = Append(newmail, inbox[Len(newmail) + 1])
  /\ UNCHANGED <<inbox, babyl, emacs, mover, mailer, sent, lock, accident>>

\* Mutant of WriteFails: the error is not looked for.
WriteFailsUnseen(m) ==
  /\ Goes(m, "copy", "zap")
  /\ UNCHANGED <<files, emacs, mailer, sent, lock, accident>>

\* write or close fails: ~/.newmail is deleted.
WriteFails(m) ==
  /\ Goes(m, "copy", "fatal")
  /\ newmail' = Absent
  /\ UNCHANGED <<inbox, babyl, emacs, mailer, sent, lock, accident>>

CloseNewmail(m) ==
  /\ Len(newmail) = Len(inbox) /\ Goes(m, "copy", "zap")
  /\ UNCHANGED <<files, emacs, mailer, sent, lock, accident>>

\* "Delete the input file; if we can't, at least get rid of its contents."
\* That may fail as well.
ZapInbox(m) ==
  /\ Goes(m, "zap", "unlock")
  /\ inbox' \in {Absent, <<>>, inbox}
  /\ UNCHANGED <<newmail, babyl, emacs, mailer, sent, lock, accident>>

\* At the end, or on a fatal error, the lock is deleted.
Unlock(m) ==
  /\ Goes(m, "unlock", "none") \/ Goes(m, "fatal", "none")
  /\ lock' = NoLock
  /\ UNCHANGED <<files, emacs, mailer, sent, accident>>

MoverDies(m) ==
  /\ mover[m] # "none" /\ mover' = [mover EXCEPT ![m] = "none"]
  /\ UNCHANGED <<files, emacs, mailer, sent, lock, accident>>

(***************************************************************************)
(* Rmail                                                                   *)
(***************************************************************************)
\* rmail-insert-inbox-text calls movemail unless ~/.newmail is there already.
GetNewMail ==
  /\ rmail = "idle"
  /\ IF Exists(newmail) \/ ~Exists(inbox)
     THEN rmail' = "insert" /\ UNCHANGED <<caller, mover>>
     ELSE /\ rmail' = "wait"
          /\ \E m \in Movers : Goes(m, "none", "link") /\ caller' = m
  /\ UNCHANGED <<files, unsaved, mailer, sent, lock, accident>>

MovemailEnds ==
  /\ rmail = "wait" /\ mover[caller] = "none"
  /\ rmail' = "insert" /\ caller' = Nobody
  /\ UNCHANGED <<files, unsaved, mover, mailer, sent, lock, accident>>

\* C-g: call-process kills movemail.
Quit ==
  /\ rmail = "wait"
  /\ rmail' = "idle" /\ caller' = Nobody
  /\ mover' = [mover EXCEPT ![caller] = "none"]
  /\ UNCHANGED <<files, unsaved, mailer, sent, lock, accident>>

\* ~/.newmail, which a movemail of an earlier Emacs may be writing, is read.
InsertNewmail ==
  /\ rmail = "insert"
  /\ IF Exists(newmail) THEN rmail' = "save" ELSE rmail' = "idle"
  /\ unsaved' = unsaved \cup Content(newmail)
  /\ accident' = IF \E m \in Movers : mover[m] = "copy" THEN "half" ELSE accident
  /\ UNCHANGED <<files, caller, mover, mailer, sent, lock>>

\* The file is saved, unless there are no messages ...
SaveMail ==
  /\ rmail = "save"
  /\ rmail' = "delete"
  /\ IF newmail = <<>> THEN UNCHANGED <<babyl, unsaved>>
     ELSE babyl' = babyl \cup unsaved /\ unsaved' = {}
  /\ UNCHANGED <<inbox, newmail, caller, mover, mailer, sent, lock, accident>>

\* ... or that fails, and the error ends the command.
SaveFails ==
  /\ rmail = "save" /\ newmail # <<>>
  /\ rmail' = "idle"
  /\ UNCHANGED <<files, caller, unsaved, mover, mailer, sent, lock, accident>>

\* "Delete the old files, now that babyl file is saved."
DeleteNewmail ==
  /\ rmail = "delete"
  /\ rmail' = "idle" /\ newmail' \in {Absent, newmail}
  /\ UNCHANGED <<inbox, babyl, caller, unsaved, mover, mailer, sent, lock, accident>>

\* The user saves the buffer, or kills it and visits the file again.
SaveOrRevert ==
  /\ rmail = "idle" /\ unsaved # {}
  /\ babyl' \in {babyl, babyl \cup unsaved} /\ unsaved' = {}
  /\ UNCHANGED <<inbox, newmail, rmail, caller, mover, mailer, sent, lock, accident>>

EmacsDies ==
  /\ rmail # "dead"
  /\ rmail' = "dead" /\ caller' = Nobody /\ unsaved' = {}
  /\ UNCHANGED <<files, mover, mailer, sent, lock, accident>>

EmacsStarts ==
  /\ rmail = "dead" /\ rmail' = "idle"
  /\ UNCHANGED <<files, caller, unsaved, mover, mailer, sent, lock, accident>>

\* After an accident nothing is promised, and nothing more is looked at.
MailNext ==
  /\ accident = "none"
  /\ \/ MailerLocks \/ MailerDelivers \/ MailerUnlocks \/ MailerDies \/ TimePasses
     \/ \E m \in Movers :
          \/ LinkLock(m) \/ StatLock(m) \/ BreakLock(m) \/ OpenInbox(m)
          \/ CreateNewmail(m) \/ Copy(m) \/ WriteFails(m) \/ CloseNewmail(m)
          \/ ZapInbox(m) \/ Unlock(m) \/ MoverDies(m)
     \/ GetNewMail \/ MovemailEnds \/ Quit \/ InsertNewmail \/ SaveMail
     \/ SaveFails \/ DeleteNewmail \/ SaveOrRevert \/ EmacsDies \/ EmacsStarts

MailSpec == MailInit /\ [][MailNext]_mailVars

(***************************************************************************)
(* Properties                                                              *)
(***************************************************************************)
\* Every message delivered is in one of the three files at every moment,
\* whoever has been killed and whatever write has failed.  Except after one of
\* two accidents: the lock was taken from a process that still works under it
\* ("stolen"), or ~/.newmail was read while half written ("half").
KeepsMail ==
  1 .. sent \subseteq Content(inbox) \cup Content(newmail) \cup babyl
=============================================================================
