----------------------------- MODULE SharedFile -----------------------------
(***************************************************************************)
(* Several Emacs processes that visit one file: the lock file through      *)
(* which they warn each other (filelock.c), the buffer that each has of    *)
(* the file (insert-file-contents, write-region and                        *)
(* verify-visited-file-modtime of fileio.c) and what happens when one of   *)
(* them dies.  An action is a stretch of an editor's code with one system  *)
(* call that others can notice.                                            *)
(*                                                                         *)
(* A text is the set of the editors whose changes are in it.  The lock     *)
(* directory is there and may be written.  Reading the lock's owner and    *)
(* asking the kernel whether it lives are one step.  The file exists, can  *)
(* be read, and no two writes to it fall into the same second or two.      *)
(***************************************************************************)
CONSTANTS
  Editors,      \* the processes
  Empty,        \* a lock file nobody has written a pid to
  Free,         \* no lock file
  Ghost         \* a process that died before all others started

ASSUME SharedAssumption ==
  /\ Empty # Free /\ Empty # Ghost /\ Free # Ghost
  /\ {Empty, Free, Ghost} \cap Editors = {}

VARIABLES
  lock,       \* the lock file: Free, Empty, or the pid in it
  superlock,  \* PATH_SUPERLOCK exists
  disk,       \* the text in the file
  ed,         \* the editors, see Editor
  warned,     \* some user was asked and went ahead
  raced       \* a lock was taken away, or not taken, by accident

vars == <<lock, superlock, disk, ed, warned, raced>>

Tasks == {"edit", "save", "visit", "kill", "exit"}

(***************************************************************************)
(* at is the place in the code, task what is to be done when the lock has  *)
(* been dealt with.  fd is the open lock file: "linked" while it still has *)
(* its name, "gone" when another editor has unlinked it.  title is what    *)
(* the editor may think of the lock:                                       *)
(*   "taken"   lock_file returned, and the user was not asked or said s    *)
(*   "waived"  the user said p: go ahead without                           *)
(*   "robbed"  another user said s                                         *)
(*   "dropped" write-region unlocked, but the buffer is still modified     *)
(*   "left"    the buffer was killed, and the lock not given back          *)
(***************************************************************************)
Editor == [at : {"idle", "closed", "threat", "lock", "write pid", "look", "break", "ask",
                 "steal", "attack", "overwrite", "let go", "locked",
                 "write", "stat", "read",
                 "unlock", "own?", "unlink", "unlocked", "dead"},
           task : Tasks,
           fd : {"none", "linked", "gone"},
           title : {"none", "taken", "waived", "robbed", "dropped", "left"},
           text : SUBSET Editors,
           modified : BOOLEAN,
           match : BOOLEAN,  \* verify-visited-file-modtime
           failed : BOOLEAN, \* the last write failed
           overtaken : BOOLEAN] \* written to between comparison and lock

At(e, place) == ed[e].at = place
Alive(e) == ~At(e, "dead")
Dead(pid) == pid = Ghost \/ (pid \in Editors /\ ~Alive(pid))

Idle == [at |-> "idle", task |-> "edit", fd |-> "none", title |-> "none",
         text |-> {}, modified |-> FALSE, match |-> TRUE, failed |-> FALSE,
         overtaken |-> FALSE]

\* All have just visited the file; a lock may be left from an earlier time.
Init ==
  /\ lock \in {Free, Ghost}
  /\ superlock = FALSE
  /\ disk = {}
  /\ ed = [e \in Editors |-> Idle]
  /\ warned = FALSE /\ raced = FALSE

(***************************************************************************)
(* Steps of one editor: it goes on at place, others unchanged.             *)
(***************************************************************************)
Go(e, place) == ed' = [ed EXCEPT ![e].at = place]
Done(e, fields) == [fields EXCEPT !.at = "idle", !.task = "edit",
                                  !.fd = "none", !.overtaken = FALSE]
Undisturbed == UNCHANGED <<disk, warned, raced>>

\* The lock file loses its name, for those too who have it open.
Unlinked(eds) ==
  [f \in Editors |-> [eds[f] EXCEPT !.fd = IF @ = "linked" THEN "gone" ELSE @]]

\* A write to the file changes its time: other buffers are out of date.
BeforeLock == {"lock", "write pid", "look", "break"}
OutOfDate(eds, e) ==
  [f \in Editors |->
     IF f = e THEN eds[f]
     ELSE [eds[f] EXCEPT !.match = FALSE,
                         !.overtaken = @ \/ eds[f].at \in BeforeLock]]

(***************************************************************************)
(* lock_file.  It is called when an unmodified buffer is about to change,  *)
(* and by write-region.  The file's time is compared first.                *)
(***************************************************************************)
\* Mutant of LockFile: the times are not compared.
LockFileBlindly(e, task) ==
  /\ At(e, "idle")
  /\ ed' = [ed EXCEPT ![e].task = task, ![e].at = "lock"]
  /\ UNCHANGED <<lock, superlock, disk, warned, raced>>

LockFile(e, task) ==
  /\ At(e, "idle")
  /\ ed' = [ed EXCEPT ![e].task = task,
                      ![e].at = IF ed[e].match THEN "lock" ELSE "threat"]
  /\ UNCHANGED <<lock, superlock, disk, warned, raced>>

\* Mutant of Edit: prepare_to_modify_buffer does not lock.
EditUnlocked(e) ==
  /\ ~ed[e].modified /\ At(e, "idle") /\ Go(e, "locked")
  /\ UNCHANGED <<lock, superlock, disk, warned, raced>>

Edit(e) == ~ed[e].modified /\ LockFile(e, "edit")
WriteRegion(e) == LockFile(e, "save")

\* ask-user-about-supersession-threat
Supersede(e) ==
  /\ At(e, "threat")
  /\ \/ Go(e, "lock") /\ warned' = TRUE
     \/ ed' = [ed EXCEPT ![e] = Done(e, @)] /\ UNCHANGED warned
  /\ UNCHANGED <<lock, superlock, disk, raced>>

\* Mutant of CreateLock: without O_EXCL.
CreateLockOver(e) ==
  /\ At(e, "lock")
  /\ lock' = Empty
  /\ ed' = [ed EXCEPT ![e].fd = "linked", ![e].at = "write pid"]
  /\ UNCHANGED superlock /\ Undisturbed

\* lock_file_1 with O_EXCL | O_CREAT: the file is created ...
CreateLock(e) ==
  /\ At(e, "lock")
  /\ IF lock = Free
       THEN /\ lock' = Empty
            /\ ed' = [ed EXCEPT ![e].fd = "linked", ![e].at = "write pid"]
       ELSE Go(e, "look") /\ UNCHANGED lock
  /\ UNCHANGED superlock /\ Undisturbed

\* ... and then the pid is written to it.
WritePid(e) ==
  /\ At(e, "write pid")
  /\ lock' = IF ed[e].fd = "linked" THEN e ELSE lock
  /\ ed' = [ed EXCEPT ![e].fd = "none", ![e].title = "taken",
                      ![e].at = "locked"]
  /\ UNCHANGED superlock /\ Undisturbed

\* current_lock_owner, up to the unlink of an obsolete lock.
Look(e) ==
  /\ At(e, "look")
  /\ \/ lock = Free /\ Go(e, "lock")
     \/ lock = e /\ ed' = [ed EXCEPT ![e].title = "taken", ![e].at = "locked"]
     \/ lock \in Editors \ {e} /\ Alive(lock) /\ Go(e, "ask")
     \/ (lock = Empty \/ Dead(lock)) /\ Go(e, "break")
  /\ UNCHANGED <<lock, superlock>> /\ Undisturbed

\* What an unlink by name does that was meant for an obsolete lock: it hits
\* whatever has the name now, or it fails, and lock_if_free returns -1.
Obsolete == Dead(lock) \/ (lock = Empty /\ \A f \in Editors : ed[f].fd = "none")
BreakLock(e) ==
  /\ At(e, "break")
  /\ raced' = (raced \/ ~Obsolete)
  /\ IF lock = Free
       THEN /\ ed' = [ed EXCEPT ![e].title = "taken", ![e].at = "locked"]
            /\ UNCHANGED lock
       ELSE /\ lock' = Free
            /\ ed' = [Unlinked(ed) EXCEPT ![e].at = "lock"]
  /\ UNCHANGED <<superlock, disk, warned>>

\* ask-user-about-lock: steal, proceed, or quit.
Ask(e) ==
  /\ At(e, "ask")
  /\ \/ Go(e, "steal") /\ warned' = TRUE
     \/ /\ ed' = [ed EXCEPT ![e].title = "waived", ![e].at = "locked"]
        /\ warned' = TRUE
     \/ ed' = [ed EXCEPT ![e] = Done(e, @)] /\ UNCHANGED warned
  /\ UNCHANGED <<lock, superlock, disk, raced>>

(***************************************************************************)
(* lock_superlock: wait for the superlock, for 20 seconds, then go on.     *)
(***************************************************************************)
LockSuperlock(e, from, to) ==
  /\ At(e, from)
  /\ Go(e, to)
  /\ superlock' = TRUE
  /\ raced' = (raced \/ superlock)
  /\ UNCHANGED <<lock, disk, warned>>

BeginSteal(e) == LockSuperlock(e, "steal", "attack")
BeginUnlock(e) == LockSuperlock(e, "unlock", "own?")

\* lock_file_1 with O_WRONLY: it opens the lock if there is one ...
Attack(e) ==
  /\ At(e, "attack")
  /\ IF lock = Free
       THEN /\ ed' = [ed EXCEPT ![e].title = "taken", ![e].at = "let go"]
            /\ raced' = TRUE
       ELSE /\ ed' = [ed EXCEPT ![e].fd = "linked", ![e].at = "overwrite"]
            /\ UNCHANGED raced
  /\ UNCHANGED <<lock, superlock, disk, warned>>

\* ... and overwrites the pid.
Overwrite(e) ==
  /\ At(e, "overwrite")
  /\ LET hit == ed[e].fd = "linked"
     IN /\ lock' = IF hit THEN e ELSE lock
        /\ ed' = [f \in Editors |->
             IF f = e
               THEN [ed[f] EXCEPT !.fd = "none", !.title = "taken",
                                  !.at = "let go"]
               ELSE [ed[f] EXCEPT !.title =
                       IF hit /\ lock = f /\ @ \in {"taken", "left"}
                         THEN "robbed" ELSE @]]
        /\ raced' = (raced \/ ~hit \/ lock = Empty)
  /\ UNCHANGED <<superlock, disk, warned>>

LetGo(e) ==
  /\ At(e, "let go")
  /\ superlock' = FALSE
  /\ Go(e, "locked")
  /\ UNCHANGED lock /\ Undisturbed


(***************************************************************************)
(* What the lock was for.  A command that was about to change the buffer   *)
(* may still fail, for lack of memory or by C-g.                           *)
(***************************************************************************)
Modify(e) ==
  /\ At(e, "locked") /\ ed[e].task = "edit"
  /\ \/ ed' = [ed EXCEPT ![e] = [Done(e, @) EXCEPT !.text = ed[e].text \cup {e},
                                                  !.modified = TRUE]]
     \/ ed' = [ed EXCEPT ![e] = Done(e, @)]
  /\ UNCHANGED <<lock, superlock>> /\ Undisturbed

Writes(e) == At(e, "locked") /\ ed[e].task = "save"

\* creat empties the file, or fails; then the lock is let go at once.
Truncate(e) ==
  /\ Writes(e)
  /\ \/ /\ disk' = {}
        /\ ed' = [OutOfDate(ed, e) EXCEPT ![e].at = "write"]
     \/ /\ ed' = [ed EXCEPT ![e].at = "unlock", ![e].failed = TRUE]
        /\ UNCHANGED disk
  /\ UNCHANGED <<lock, superlock, warned, raced>>

\* Mutant of Write: the result of e_write is not looked at.
WriteBlindly(e) ==
  /\ At(e, "write")
  /\ disk' \in {disk, ed[e].text}
  /\ ed' = [OutOfDate(ed, e) EXCEPT ![e].at = "stat", ![e].failed = FALSE]
  /\ UNCHANGED <<lock, superlock, warned, raced>>

\* e_write and fsync, which may find the disk full.
Write(e) ==
  /\ At(e, "write")
  /\ \/ /\ disk' = ed[e].text
        /\ ed' = [OutOfDate(ed, e) EXCEPT ![e].at = "stat", ![e].failed = FALSE]
     \/ /\ ed' = [ed EXCEPT ![e].at = "stat", ![e].failed = TRUE]
        /\ UNCHANGED disk
  /\ UNCHANGED <<lock, superlock, warned, raced>>

\* The time that write-region gives to the buffer, even if writing failed.
Stat(e) ==
  /\ At(e, "stat")
  /\ ed' = [ed EXCEPT ![e].match = TRUE, ![e].at = "unlock"]
  /\ UNCHANGED <<lock, superlock>> /\ Undisturbed

\* insert-file-contents to visit: first the time, then the text.
Visit(e) ==
  /\ At(e, "idle") \/ At(e, "closed")
  /\ ed' = [ed EXCEPT ![e].match = TRUE, ![e].task = "visit",
                      ![e].at = "read"]
  /\ UNCHANGED <<lock, superlock>> /\ Undisturbed

Read(e) ==
  /\ At(e, "read")
  /\ ed' = [ed EXCEPT ![e].text = disk, ![e].modified = FALSE,
                      ![e].failed = FALSE, ![e].at = "unlock"]
  /\ UNCHANGED <<lock, superlock>> /\ Undisturbed

(***************************************************************************)
(* unlock_file, at the end of the tasks; kill-buffer, kill-emacs and the   *)
(* handler of fatal signals call it for modified buffers.                  *)
(***************************************************************************)
Closed == [Idle EXCEPT !.at = "closed"]
Corpse == [Idle EXCEPT !.at = "dead"]

Abandoned(b) == [Closed EXCEPT !.title = IF b.title = "taken" THEN "left" ELSE @]
KillBuffer(e) ==
  /\ At(e, "idle")
  /\ ed' = [ed EXCEPT ![e] = IF ed[e].modified
              THEN [@ EXCEPT !.task = "kill", !.at = "unlock"] ELSE Abandoned(@)]
  /\ UNCHANGED <<lock, superlock>> /\ Undisturbed

\* kill-emacs, or fatal_error_signal, which may come at any time.
ShutDown(e) ==
  /\ Alive(e) /\ ed[e].task # "exit"
  /\ ed' = [ed EXCEPT ![e] = IF ed[e].modified
       THEN [@ EXCEPT !.task = "exit", !.at = "unlock", !.fd = "none"]
       ELSE Corpse]
  /\ UNCHANGED <<lock, superlock>> /\ Undisturbed

Crash(e) ==
  /\ Alive(e)
  /\ ed' = [ed EXCEPT ![e] = Corpse]
  /\ UNCHANGED <<lock, superlock>> /\ Undisturbed

CheckOwn(e) ==
  /\ At(e, "own?")
  /\ Go(e, IF lock = e THEN "unlink" ELSE "unlocked")
  /\ UNCHANGED <<lock, superlock>> /\ Undisturbed

Unlink(e) ==
  /\ At(e, "unlink")
  /\ raced' = (raced \/ lock # e)
  /\ lock' = Free
  /\ ed' = [Unlinked(ed) EXCEPT ![e].at = "unlocked"]
  /\ UNCHANGED <<superlock, disk, warned>>

\* The buffer when unlock_file has returned.
Concluded(e) ==
  LET b == ed[e]
      clean == (b.task = "save" /\ ~b.failed) \/ ~b.modified
  IN CASE b.task = "kill" -> Closed
       [] b.task = "exit" -> Corpse
       [] b.task \notin {"kill", "exit"} /\ clean ->
            [Done(e, b) EXCEPT !.modified = FALSE, !.title = "none"]
       [] OTHER -> [Done(e, b) EXCEPT !.title =
                      IF @ = "taken" THEN "dropped" ELSE @]

Conclude(e) ==
  /\ At(e, "unlocked")
  /\ superlock' = FALSE
  /\ ed' = [ed EXCEPT ![e] = Concluded(e)]
  /\ UNCHANGED lock /\ Undisturbed

Step(e) ==
  \/ Edit(e) \/ WriteRegion(e) \/ Supersede(e) \/ CreateLock(e) \/ WritePid(e)
  \/ Look(e) \/ BreakLock(e) \/ Ask(e) \/ BeginSteal(e) \/ Attack(e)
  \/ Overwrite(e) \/ LetGo(e) \/ Modify(e) \/ Truncate(e) \/ Write(e)
  \/ Stat(e) \/ Visit(e) \/ Read(e) \/ KillBuffer(e) \/ ShutDown(e) \/ Crash(e)
  \/ BeginUnlock(e) \/ CheckOwn(e) \/ Unlink(e) \/ Conclude(e)

Next == \E e \in Editors : Step(e)
Spec == Init /\ [][Next]_vars

(***************************************************************************)
(* Properties                                                              *)
(***************************************************************************)
\* Unless a lock was lost by accident, an editor between two commands has the
\* lock file exactly when it has taken it and given it back to nobody: two
\* editors never both think that they have it.  When its buffer is gone it has
\* none either, but in one case: a command took the lock and was abandoned, so
\* that the buffer was unmodified, for which kill-buffer does not unlock.
LockedForUs ==
  ~raced => \A e \in Editors :
    /\ At(e, "idle") => (ed[e].title = "taken" <=> lock = e)
    /\ At(e, "closed") => (ed[e].title = "left" <=> lock = e)

\* A modified buffer has its file locked, or its user said to go ahead
\* without, or another user took the lock away, or write-region gave it up.
ModifiedMeansToldSo ==
  \A e \in Editors : At(e, "idle") /\ ed[e].modified => ed[e].title # "none"

\* What verify-visited-file-modtime promises: an unmodified buffer whose time
\* is that of the file has the text of the file.  It does not after a failed
\* write-region, which records the time of what it has spoiled.
UnmodifiedMeansOnDisk ==
  ~raced /\ ~warned => \A e \in Editors :
    At(e, "idle") /\ ed[e].match /\ ~ed[e].modified /\ ~ed[e].failed
      => ed[e].text = disk

\* No editor overwrites what another has saved, unless a user went ahead after
\* a question, or the save came between its comparing the times and its lock.
SaveLosesNothing ==
  ~raced /\ ~warned => \A e \in Editors :
    Writes(e) /\ ~ed[e].overtaken => disk \subseteq ed[e].text
=============================================================================
