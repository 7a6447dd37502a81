------------------------------ MODULE AutoSave ------------------------------
(***************************************************************************)
(* Auto-saving (do-auto-save of fileio.c): the buffers that have changed   *)
(* since they were saved are written to their # files, now and then and    *)
(* when Emacs is killed by a signal, while files may refuse to be written, *)
(* the user may quit, and Emacs may vanish at any moment.  With it go the  *)
(* commands whose notes of what was saved when it depends on: changes,     *)
(* write-region, visiting, set-buffer-modified-p.                          *)
(*                                                                         *)
(* Every buffer visits a file of its own and has auto-saving enabled.  A   *)
(* text is the number of the change that made it.  Locks are in SharedFile.*)
(***************************************************************************)
EXTENDS Naturals, Sequences, FiniteSetsExt

CONSTANTS
  BufferList,   \* Vbuffer_alist
  Large,        \* the <<buffer, text>> with more than 5000 characters
  MaxModiff,    \* bounds of the model on the changes to one buffer
  MaxChanges    \* and to all

Listed == {BufferList[i] : i \in DOMAIN BufferList}

AutoSaveAssumption ==
  /\ BufferList \in Seq(Listed)
  /\ MaxModiff \in Nat \ {0} /\ MaxChanges \in Nat

VARIABLES
  buf,          \* struct buffer, see Buffer
  disk, copy,   \* the visited file and the # file of each buffer
  at,           \* the place in the code
  todo,         \* what is left to be written, what is being written first
  auto_saving,
  leaving,      \* the way out: "no", "exit" (kill-emacs), "signal"
  fatal,        \* fatal_error_in_progress
  exposed       \* buffers with a text in no file that Emacs takes for saved, see
                \* BeginWrite and BeginSave

files == <<disk, copy>>
place == <<at, todo>>
autoVars == <<buf, files, place, auto_saving, leaving, fatal, exposed>>

Spoilt == MaxModiff + 1  \* a file that was emptied and not written
Absent == MaxModiff + 2  \* no # file

\* save_length: whether the text was large when last read or saved.  A small one
\* is shorter by more than 3/13.
Buffer == [text : 0 .. Spoilt, save_length : BOOLEAN,
           modiff : 1 .. MaxModiff, save_modified : 0 .. MaxModiff,
           auto_save_modified : 0 .. MaxModiff]

Modified(o) == o.save_modified < o.modiff
IsLarge(b) == <<b, buf[b].text>> \in Large
Shrunk(b) == buf[b].save_length /\ ~IsLarge(b)

\* What do-auto-save looks for.
Wanted(o) == Modified(o) /\ o.auto_save_modified < o.modiff

AutoInit ==
  /\ buf = [b \in Listed |-> [text |-> 0, save_length |-> <<b, 0>> \in Large,
                               modiff |-> 1, save_modified |-> 1,
                               auto_save_modified |-> 1]]
  /\ disk = [b \in Listed |-> 0] /\ copy = [b \in Listed |-> Absent]
  /\ at = "command" /\ todo = <<>>
  /\ auto_saving = FALSE /\ leaving = "no" /\ fatal = FALSE /\ exposed = {}

(***************************************************************************)
(* Commands.  A process filter may change buffers while do-auto-save sleeps *)
(* (that it may also read and save them is left out).                      *)
(***************************************************************************)
Lisp == at \in {"command", "nap", "complain"} /\ leaving = "no"

MayChange(b) ==
  /\ buf[b].modiff < MaxModiff
  /\ MapThenSumSet(LAMBDA c : buf[c].modiff - 1, Listed) < MaxChanges

Change(b) ==
  /\ Lisp /\ MayChange(b)
  /\ buf' = [buf EXCEPT ![b].modiff = @ + 1, ![b].text = buf[b].modiff + 1]
  /\ UNCHANGED <<files, place, auto_saving, leaving, fatal, exposed>>

\* Mutant of SubstChar: the text is taken for auto-saved whether it was or not.
SubstCharBlindly(b) ==
  /\ Lisp /\ MayChange(b)
  /\ LET m == buf[b].modiff
     IN buf' = [buf EXCEPT ![b].modiff = m + 1,
                           ![b].save_modified = IF @ = m THEN m + 1 ELSE @,
                           ![b].auto_save_modified = m + 1]
  /\ UNCHANGED <<files, place, auto_saving, leaving, fatal, exposed>>

\* subst-char-in-region with NOUNDO, as used to hide lines: the file would be
\* written as before.
SubstChar(b) ==
  /\ Lisp /\ MayChange(b)
  /\ LET m == buf[b].modiff
         Up(n) == IF n = m THEN m + 1 ELSE n
     IN buf' = [buf EXCEPT ![b].modiff = m + 1, ![b].save_modified = Up(@),
                           ![b].auto_save_modified = Up(@)]
  /\ UNCHANGED <<files, place, auto_saving, leaving, fatal, exposed>>

SetBufferModified(b, flag) ==
  /\ Lisp
  /\ buf' = [buf EXCEPT ![b].save_modified = IF flag THEN 0 ELSE buf[b].modiff]
  /\ UNCHANGED <<files, place, auto_saving, leaving, fatal, exposed>>

\* insert-file-contents, to visit the file again, in the emptied buffer.
Visit(b) ==
  /\ at = "command" /\ MayChange(b)
  /\ LET m == buf[b].modiff + 1
     IN buf' = [buf EXCEPT ![b] =
                  [text |-> disk[b], save_length |-> <<b, disk[b]>> \in Large,
                   modiff |-> m, save_modified |-> m, auto_save_modified |-> m]]
  /\ UNCHANGED <<files, place, auto_saving, leaving, fatal, exposed>>

\* write-region, to save: the file is opened and emptied ...  It may be the only
\* one that has the text, when the buffer is as it was last saved or read, also
\* if set-buffer-modified-p has marked it modified.
BeginSave(b) ==
  /\ at = "command"
  /\ disk' = [disk EXCEPT ![b] = Spoilt]
  /\ exposed' = IF disk[b] = buf[b].text /\ copy[b] # buf[b].text
                THEN exposed \cup {b} ELSE exposed
  /\ at' = "save" /\ todo' = <<b>>
  /\ UNCHANGED <<buf, copy, auto_saving, leaving, fatal>>

Here == Head(todo)

\* ... and written, or not.
Save ==
  /\ at = "save"
  /\ \/ /\ disk' = [disk EXCEPT ![Here] = buf[Here].text]
        /\ buf' = [buf EXCEPT ![Here].save_modified = buf[Here].modiff,
                              ![Here].save_length = IsLarge(Here)]
        /\ exposed' = exposed \ {Here}
     \/ UNCHANGED <<disk, buf, exposed>>
  /\ at' = "command" /\ todo' = <<>>
  /\ UNCHANGED <<copy, auto_saving, leaving, fatal>>

\* What the Lisp command that saves does next: the # file is deleted and
\* set-buffer-auto-saved called.
DeleteAutoSaveFile(b) ==
  /\ at = "command" /\ ~Modified(buf[b]) /\ disk[b] = buf[b].text
  /\ copy' = [copy EXCEPT ![b] = Absent]
  /\ buf' = [buf EXCEPT ![b].auto_save_modified = buf[b].modiff,
                        ![b].save_length = IsLarge(b)]
  /\ exposed' = exposed \ {b}
  /\ UNCHANGED <<disk, place, auto_saving, leaving, fatal>>

(***************************************************************************)
(* do-auto-save                                                            *)
(***************************************************************************)
Begin == at' = "walk" /\ todo' = BufferList /\ auto_saving' = TRUE

\* From read_command_char, or as a command.
DoAutoSave ==
  /\ at = "command" /\ Begin
  /\ UNCHANGED <<buf, files, leaving, fatal, exposed>>

KillEmacs ==
  /\ at = "command" /\ Begin /\ leaving' = "exit"
  /\ UNCHANGED <<buf, files, fatal, exposed>>

\* fatal_error_signal, at any place; the second time it is fatal at once.
FatalSignal ==
  /\ at # "dead"
  /\ IF fatal THEN at' = "dead" /\ UNCHANGED <<todo, auto_saving, leaving>>
     ELSE Begin /\ leaving' = "signal"
  /\ fatal' = TRUE
  /\ UNCHANGED <<buf, files, exposed>>

Skip ==
  /\ at = "walk" /\ todo # <<>> /\ ~Wanted(buf[Here])
  /\ todo' = Tail(todo)
  /\ UNCHANGED <<buf, files, at, auto_saving, leaving, fatal, exposed>>

\* "Buffer has shrunk a lot; not autosaving it"
SleepForShrunk ==
  /\ at = "walk" /\ todo # <<>> /\ Wanted(buf[Here]) /\ Shrunk(Here)
  /\ at' = "nap"
  /\ UNCHANGED <<buf, files, todo, auto_saving, leaving, fatal, exposed>>

NapOver ==
  /\ at = "nap"
  /\ at' = "walk" /\ todo' = Tail(todo)
  /\ UNCHANGED <<buf, files, auto_saving, leaving, fatal, exposed>>

\* write-region to the # file: it is emptied, or cannot be opened ...
BeginWrite ==
  /\ at = "walk" /\ todo # <<>> /\ Wanted(buf[Here]) /\ ~Shrunk(Here)
  /\ exposed' = exposed \cup {Here}
  /\ \/ at' = "write" /\ copy' = [copy EXCEPT ![Here] = Spoilt]
     \/ at' = "complain" /\ UNCHANGED copy
  /\ UNCHANGED <<buf, disk, todo, auto_saving, leaving, fatal>>

\* do-auto-save notes that it is done with the buffer, and goes on.
NoteAndGoOn ==
  /\ buf' = [buf EXCEPT ![Here].auto_save_modified = buf[Here].modiff,
                        ![Here].save_length = IsLarge(Here)]
  /\ at' = "walk" /\ todo' = Tail(todo)

\* ... and written, or not.
Write ==
  /\ at = "write"
  /\ \/ /\ copy' = [copy EXCEPT ![Here] = buf[Here].text]
        /\ exposed' = exposed \ {Here}
        /\ NoteAndGoOn
     \/ at' = "complain" /\ UNCHANGED <<buf, copy, todo, exposed>>
  /\ UNCHANGED <<disk, auto_saving, leaving, fatal>>

\* auto_save_error has slept.
Complained ==
  /\ at = "complain" /\ NoteAndGoOn
  /\ UNCHANGED <<files, auto_saving, leaving, fatal, exposed>>

\* C-g ends sleep-for, and do-auto-save with it: auto_saving stays set.
Quit ==
  /\ at \in {"nap", "complain"}
  /\ at' = "command" /\ todo' = <<>> /\ leaving' = "no"
  /\ UNCHANGED <<buf, files, auto_saving, fatal, exposed>>

Finish ==
  /\ at = "walk" /\ todo = <<>>
  /\ auto_saving' = FALSE
  /\ at' = IF leaving = "no" THEN "command" ELSE "dead"
  /\ UNCHANGED <<buf, files, todo, leaving, fatal, exposed>>

\* The machine stops.
Crash ==
  /\ at # "dead"
  /\ at' = "dead" /\ leaving' = "no"
  /\ UNCHANGED <<buf, files, todo, auto_saving, fatal, exposed>>

AutoNext ==
  \/ \E b \in Listed : \/ Change(b) \/ SubstChar(b) \/ Visit(b) \/ BeginSave(b)
                        \/ DeleteAutoSaveFile(b)
                        \/ \E flag \in BOOLEAN : SetBufferModified(b, flag)
  \/ Save \/ DoAutoSave \/ KillEmacs \/ FatalSignal \/ Skip \/ SleepForShrunk
  \/ NapOver \/ BeginWrite \/ Write \/ Complained \/ Quit \/ Finish \/ Crash

AutoSpec == AutoInit /\ [][AutoNext]_autoVars

(***************************************************************************)
(* Properties                                                              *)
(***************************************************************************)
\* A changed text that do-auto-save believes it has saved can be read from one
\* of the two files at every moment, also after a crash; and when Emacs was
\* left, or killed by a signal for the first time, so can every changed text.
\* Except: the # file could not be written (it is nevertheless noted as saved),
\* the buffer has shrunk and is not saved, or the visited file had the text
\* already, the # file did not, and a save emptied the one and did not end.
KeepsChanges ==
  \A b \in Listed :
    LET believed == buf[b].auto_save_modified = buf[b].modiff
        left == at = "dead" /\ leaving # "no" /\ ~auto_saving /\ ~Shrunk(b)
    IN Modified(buf[b]) /\ (believed \/ left) /\ b \notin exposed
         => buf[b].text \in {disk[b], copy[b]}
=============================================================================
