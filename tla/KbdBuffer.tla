----------------------------- MODULE KbdBuffer -----------------------------
(***************************************************************************)
(* How a character gets from the terminal to the command that reads it     *)
(* (keyboard.c, and wait_reading_process_input of process.c).  With        *)
(* interrupt_input, the SIGIO handler moves what was typed to kbd_buffer   *)
(* at any moment; C-g is one of those characters.  Without it (CBREAK      *)
(* mode), characters stay in the terminal until they are read, and C-g     *)
(* raises SIGINT.  Either way a handler can run between any two steps of   *)
(* the reader, and may throw out of it; pc says where the reader is.       *)
(*                                                                         *)
(* Keyboard macros, the dialogue after a second C-g, and echoing are left  *)
(* out, but for the echo of set_waiting_for_input, which delays a throw.   *)
(* An immediate quit is C-g followed at once by QuitCommand.               *)
(***************************************************************************)
EXTENDS Integers, Sequences, SequencesExt

CONSTANTS
  Key,        \* the characters typed, C-g apart
  CtrlG,      \* quit_char
  Junk,       \* what kbd_buffer holds before anything is stored
  NoKey,      \* unread_command_char when there is none (-1)
  Size,       \* sizeof kbd_buffer
  TtyMax      \* bound: characters in the terminal at once

ASSUME KbdAssumption ==
  /\ Size \in Nat \ {0} /\ TtyMax \in Nat \ {0}
  /\ {CtrlG, Junk, NoKey} \cap Key = {}
  /\ CtrlG # NoKey

VARIABLES
  interruptInput,   \* interrupt_input
  tty,              \* typed, not yet read from the terminal
  sigio,            \* SIGIO was raised and its handler has not run
  kbd,              \* kbd_buffer: [mem, ptr, count]
  quitFlag,         \* Vquit_flag
  waiting,          \* waiting_for_input
  timedOut,         \* the timeout of select is zero
  inputPending,     \* input_pending, cached
  unread,           \* unread_command_char
  pc,               \* where the reader is
  c,                \* the character read, NoKey when there is none
  hit               \* SIGIO came between --kbd_count and kbd_ptr++

kbdVars == <<interruptInput, tty, sigio, kbd, quitFlag, waiting, timedOut,
             inputPending, unread, pc, c, hit>>

Empty == kbd.count = 0

\* Mutant of Compacted: one character too few is moved down.
CompactedShort(q) ==
  [mem |-> [i \in 0 .. Size |->
              IF i < q.count - 1 THEN q.mem[q.ptr + i] ELSE q.mem[i]],
   ptr |-> 0, count |-> q.count]

\* kbd_buffer_store_char of an ordinary character.
Compacted(q) ==
  [mem |-> [i \in 0 .. Size |->
              IF i < q.count THEN q.mem[q.ptr + i] ELSE q.mem[i]],
   ptr |-> 0, count |-> q.count]

Store(q, ch) ==
  LET low == Compacted(q)
  IN IF low.count < Size
     THEN [mem |-> [low.mem EXCEPT ![low.count] = ch],
           ptr |-> 0, count |-> low.count + 1]
     ELSE low

\* What is read before the first C-g; the rest of the batch is dropped.
UpToQuit(batch) ==
  SelectInSeq(batch, LAMBDA ch : ch = CtrlG)
KeysOf(batch) ==
  LET n == UpToQuit(batch)
  IN IF n = 0 THEN batch ELSE SubSeq(batch, 1, n - 1)
StoreBatch(q, batch) == FoldLeft(Store, q, KeysOf(batch))
HasQuit(batch) == UpToQuit(batch) # 0

\* get_input_pending: a C-g counts as input.  In interrupt mode the terminal
\* is not asked, except while SIGIO is off.
TtyCounts(deferred) == ~ interruptInput \/ deferred
SomePending(deferred) ==
  ~ Empty \/ quitFlag \/ (TtyCounts(deferred) /\ tty # << >>)
Detected(deferred) == inputPending \/ SomePending(deferred)

\* Where redisplay has SIGIO turned off.
Deferred == pc \in {"redisplay", "sitfor"}
Waits == {"check", "echo", "select", "sleep", "woken"}
Reading == pc \notin {"run", "sitfor", "got"}

\* quit_throw_to_read_command_char, and the setjmp it lands on.
ThrowToReader ==
  /\ waiting' = FALSE
  /\ inputPending' = FALSE
  /\ unread' = NoKey
  /\ c' = CtrlG
  /\ pc' = "got"

\* interrupt_signal; the reader goes on at next if it is not thrown out.
InterruptSignal(next) ==
  /\ quitFlag' = TRUE
  /\ IF waiting /\ pc # "echo"
     THEN ThrowToReader
     ELSE pc' = next /\ UNCHANGED <<waiting, inputPending, unread, c>>

\* What input_available_signal and read_avail_input do with n characters.
Receive(n, next) ==
  LET batch == SubSeq(tty, 1, n)
  IN /\ tty' = SubSeq(tty, n + 1, Len(tty))
     /\ kbd' = StoreBatch(kbd, batch)
     /\ IF HasQuit(batch) THEN InterruptSignal(next)
        ELSE /\ pc' = next
             /\ UNCHANGED <<quitFlag, waiting, inputPending, unread, c>>
-----------------------------------------------------------------------------
KbdInit ==
  /\ interruptInput \in BOOLEAN
  /\ tty = << >> /\ sigio = FALSE
  /\ kbd = [mem |-> [i \in 0 .. Size |-> Junk], ptr |-> 0, count |-> 0]
  /\ quitFlag = FALSE /\ waiting = FALSE /\ timedOut = FALSE
  /\ inputPending = FALSE /\ unread = NoKey
  /\ pc = "run" /\ c = NoKey /\ hit = FALSE

(***************************************************************************)
(* The terminal and the signal handlers.                                   *)
(***************************************************************************)
Type(ch) ==
  /\ Len(tty) < TtyMax
  /\ interruptInput \/ ch # CtrlG
  /\ tty' = Append(tty, ch)
  /\ sigio' = (sigio \/ (interruptInput /\ ~ Deferred))
  /\ UNCHANGED <<interruptInput, kbd, quitFlag, waiting, timedOut,
                 inputPending, unread, pc, c, hit>>

\* SIGINT
TypeQuit ==
  /\ ~ interruptInput
  /\ InterruptSignal(pc)
  /\ timedOut' = (timedOut /\ waiting')
  /\ UNCHANGED <<interruptInput, tty, sigio, kbd, hit>>

\* Mutant of InputAvailable: the timeout of select is left alone.
InputAvailableSilently(next) ==
  /\ Receive(Len(tty), next)
  /\ timedOut' = (timedOut /\ waiting')

\* input_available_signal.  The word it clears is set while waiting.
InputAvailable(next) ==
  /\ Receive(Len(tty), next)
  /\ timedOut' = waiting'

Sigio ==
  /\ sigio /\ ~ Deferred
  /\ InputAvailable(pc)
  /\ sigio' = FALSE
  /\ hit' = (hit \/ (pc \in {"fetch", "advance"} /\ KeysOf(tty) # << >>))
  /\ UNCHANGED interruptInput

(***************************************************************************)
(* A command runs.                                                         *)
(***************************************************************************)
Discarded ==
  /\ unread' = NoKey
  /\ quitFlag' = FALSE
  /\ tty' = << >>
  /\ kbd' = [kbd EXCEPT !.count = 0]
  /\ inputPending' = FALSE

\* discard-input, and an error that reaches the command loop (cmd_error).
DiscardInput ==
  /\ pc = "run"
  /\ Discarded
  /\ UNCHANGED <<interruptInput, sigio, waiting, timedOut, pc, c, hit>>

\* QUIT, caught by a condition-case (if not, it is DiscardInput).
QuitCommand ==
  /\ pc = "run" /\ quitFlag
  /\ quitFlag' = FALSE
  /\ UNCHANGED <<interruptInput, tty, sigio, kbd, waiting, timedOut,
                 inputPending, unread, pc, c, hit>>

\* input-pending-p
DetectInput ==
  /\ pc = "run"
  /\ inputPending' = Detected(FALSE)
  /\ UNCHANGED <<interruptInput, tty, sigio, kbd, quitFlag, waiting,
                 timedOut, unread, pc, c, hit>>

SetUnread(ch) ==
  /\ pc = "run"
  /\ unread' = ch
  /\ UNCHANGED <<interruptInput, tty, sigio, kbd, quitFlag, waiting,
                 timedOut, inputPending, pc, c, hit>>

\* A message of the minibuffer has stayed for two seconds: a C-g typed
\* meanwhile is put back to be read.
QuitToUnread ==
  /\ pc = "run" /\ quitFlag
  /\ quitFlag' = FALSE
  /\ unread' = CtrlG
  /\ UNCHANGED <<interruptInput, tty, sigio, kbd, waiting, timedOut,
                 inputPending, pc, c, hit>>

\* A command redisplays, with (sit-for 0), unless input is pending.
SitFor ==
  /\ pc = "run"
  /\ inputPending' = Detected(FALSE)
  /\ pc' = IF inputPending' THEN "run" ELSE "sitfor"
  /\ UNCHANGED <<interruptInput, tty, sigio, kbd, quitFlag, waiting,
                 timedOut, unread, c, hit>>

EndSitFor ==
  /\ pc = "sitfor"
  /\ pc' = "run"
  /\ inputPending' \in {inputPending, Detected(TRUE)}
  /\ UNCHANGED <<interruptInput, tty, sigio, kbd, quitFlag, waiting,
                 timedOut, unread, c, hit>>

StartRead ==
  /\ pc = "run"
  /\ pc' = "read"
  /\ UNCHANGED <<interruptInput, tty, sigio, kbd, quitFlag, waiting,
                 timedOut, inputPending, unread, c, hit>>
-----------------------------------------------------------------------------
(***************************************************************************)
(* read_command_char                                                       *)
(***************************************************************************)
Reread ==
  /\ pc = "read" /\ unread # NoKey
  /\ c' = unread
  /\ unread' = NoKey
  /\ pc' = "got"
  /\ UNCHANGED <<interruptInput, tty, sigio, kbd, quitFlag, waiting,
                 timedOut, inputPending, hit>>

\* It redisplays unless input is pending, or it was told not to.
ReadCommandChar ==
  /\ pc = "read" /\ unread = NoKey
  /\ \/ pc' = "loop" /\ inputPending' = inputPending
     \/ /\ inputPending' = Detected(FALSE)
        /\ pc' = IF inputPending' THEN "loop" ELSE "redisplay"
  /\ UNCHANGED <<interruptInput, tty, sigio, kbd, quitFlag, waiting,
                 timedOut, unread, c, hit>>

EndRedisplay ==
  /\ pc = "redisplay"
  /\ pc' = "loop"
  /\ inputPending' \in {inputPending, Detected(TRUE)}
  /\ UNCHANGED <<interruptInput, tty, sigio, kbd, quitFlag, waiting,
                 timedOut, unread, c, hit>>

(***************************************************************************)
(* kbd_buffer_read_command_char                                            *)
(***************************************************************************)
ThrowQuit ==
  /\ \/ pc = "loop" /\ Empty
     \/ pc \in {"check", "echo"}  \* in set_waiting_for_input, and after its echo
  /\ quitFlag
  /\ ThrowToReader
  /\ timedOut' = FALSE
  /\ UNCHANGED <<interruptInput, tty, sigio, kbd, quitFlag, hit>>

\* Mutant of GobbleInput: what arrived while SIGIO was off is not looked for.
NoGobbleInput ==
  /\ pc = "loop" /\ Empty /\ ~ quitFlag
  /\ pc' = "wait"
  /\ UNCHANGED <<interruptInput, tty, sigio, kbd, quitFlag, waiting, timedOut,
                 inputPending, unread, c, hit>>

\* gobble_input: what arrived while SIGIO was off is read as its handler
\* would.
GobbleInput ==
  /\ pc = "loop" /\ Empty /\ ~ quitFlag
  /\ IF interruptInput /\ tty # << >>
     THEN InputAvailable(IF KeysOf(tty) = << >> THEN "wait" ELSE "loop")
     ELSE /\ pc' = "wait"
          /\ UNCHANGED <<tty, kbd, quitFlag, waiting, timedOut, inputPending,
                         unread, c>>
  /\ UNCHANGED <<interruptInput, sigio, hit>>

(***************************************************************************)
(* wait_reading_process_input                                              *)
(***************************************************************************)
\* The timeout is chosen, and set_waiting_for_input told where it is.
SetWaiting ==
  /\ pc = "wait"
  /\ timedOut' = FALSE
  /\ waiting' = TRUE
  /\ pc' = "check"
  /\ UNCHANGED <<interruptInput, tty, sigio, kbd, quitFlag, inputPending,
                 unread, c, hit>>

\* After the check for C-g, the keys typed so far are echoed if the alarm
\* has asked for it; after the echo, which delays a throw, comes another check.
Checked ==
  /\ pc \in {"check", "echo"} /\ ~ quitFlag
  /\ pc' \in {"select"} \cup (IF pc = "check" THEN {"echo"} ELSE {})
  /\ UNCHANGED <<interruptInput, tty, sigio, kbd, quitFlag, waiting,
                 timedOut, inputPending, unread, c, hit>>

\* kbd_count is looked at just before the select.
Select ==
  /\ pc = "select"
  /\ pc' = IF Empty THEN "sleep" ELSE "woken"
  /\ UNCHANGED <<interruptInput, tty, sigio, kbd, quitFlag, waiting,
                 timedOut, inputPending, unread, c, hit>>

Wake ==
  /\ pc = "sleep"
  /\ pc' = "woken"
  /\ UNCHANGED <<interruptInput, tty, sigio, kbd, quitFlag, waiting,
                 timedOut, inputPending, unread, c, hit>>

\* The terminal is readable, or the timeout is zero.
WakeForInput == (tty # << >> \/ timedOut) /\ Wake

\* Output of a process, or the timeout of 100 seconds.
WakeForOther == Wake

\* Mutant of ClearWaiting: C-g goes on throwing.
StillWaiting ==
  /\ pc = "woken"
  /\ timedOut' = FALSE
  /\ pc' = "pending"
  /\ UNCHANGED <<interruptInput, tty, sigio, kbd, quitFlag, waiting,
                 inputPending, unread, c, hit>>

ClearWaiting ==
  /\ pc = "woken"
  /\ waiting' = FALSE
  /\ timedOut' = FALSE
  /\ pc' = "pending"
  /\ UNCHANGED <<interruptInput, tty, sigio, kbd, quitFlag, inputPending,
                 unread, c, hit>>

\* If there is input the wait is over; the processes are served otherwise.
CheckPending ==
  /\ pc = "pending"
  /\ inputPending' = Detected(FALSE)
  /\ pc' = IF ~ inputPending' THEN "wait"
           ELSE IF ~ interruptInput /\ Empty THEN "avail" ELSE "loop"
  /\ UNCHANGED <<interruptInput, tty, sigio, kbd, quitFlag, waiting,
                 timedOut, unread, c, hit>>

\* read_avail_input (0).  It reads as many characters as get_input_pending
\* counted, one if that was only the quit flag.
ReadAvail ==
  /\ pc = "avail"
  /\ IF quitFlag
     THEN /\ pc' = "block"
          /\ UNCHANGED <<tty, kbd, quitFlag, waiting, inputPending, unread, c>>
     ELSE Receive(Len(tty), "loop")
  /\ UNCHANGED <<interruptInput, sigio, timedOut, hit>>

\* That one character may have to be typed first.
ReadOne ==
  /\ pc = "block" /\ tty # << >>
  /\ Receive(1, "loop")
  /\ UNCHANGED <<interruptInput, sigio, timedOut, hit>>

(***************************************************************************)
(* A buffered character is taken in three steps.                           *)
(***************************************************************************)
CountDown ==
  /\ pc = "loop" /\ ~ Empty
  /\ kbd' = [kbd EXCEPT !.count = @ - 1]
  /\ inputPending' = (kbd'.count > 0)
  /\ pc' = "fetch"
  /\ UNCHANGED <<interruptInput, tty, sigio, quitFlag, waiting, timedOut,
                 unread, c, hit>>

Fetch ==
  /\ pc = "fetch"
  /\ c' = kbd.mem[kbd.ptr]
  /\ pc' = "advance"
  /\ UNCHANGED <<interruptInput, tty, sigio, kbd, quitFlag, waiting,
                 timedOut, inputPending, unread, hit>>

Advance ==
  /\ pc = "advance"
  /\ kbd' = [kbd EXCEPT !.ptr = @ + 1]
  /\ pc' = "got"
  /\ UNCHANGED <<interruptInput, tty, sigio, quitFlag, waiting, timedOut,
                 inputPending, unread, c, hit>>

\* read-char returns the character; read_key_sequence clears the quit flag,
\* and reads on after a prefix key.
Return ==
  /\ pc = "got"
  /\ \/ pc' = "run" /\ quitFlag' = quitFlag
     \/ pc' \in {"run", "read"} /\ quitFlag' = FALSE
  /\ c' = NoKey
  /\ UNCHANGED <<interruptInput, tty, sigio, kbd, waiting, timedOut,
                 inputPending, unread, hit>>
-----------------------------------------------------------------------------
Handlers ==
  \/ \E ch \in Key \cup {CtrlG} : Type(ch)
  \/ TypeQuit
  \/ Sigio

Command ==
  \/ DiscardInput \/ QuitCommand \/ DetectInput \/ SitFor \/ EndSitFor
  \/ StartRead \/ QuitToUnread
  \/ \E ch \in Key : SetUnread(ch)

Reader ==
  \/ Reread \/ ReadCommandChar \/ EndRedisplay
  \/ ThrowQuit \/ GobbleInput
  \/ SetWaiting \/ Checked \/ Select \/ WakeForInput \/ ClearWaiting
  \/ CheckPending \/ ReadAvail \/ ReadOne
  \/ CountDown \/ Fetch \/ Advance \/ Return

KbdNext == Handlers \/ Command \/ Reader \/ WakeForOther

\* The reader takes the steps it can, and a signal is delivered at last.
KbdSpec ==
  /\ KbdInit /\ [][KbdNext]_kbdVars
  /\ WF_kbdVars(Reader) /\ WF_kbdVars(Sigio)
-----------------------------------------------------------------------------
(***************************************************************************)
(* Properties.                                                             *)
(***************************************************************************)
\* waiting_for_input is set only inside the wait: C-g at any other time sets
\* the quit flag and cannot throw to a frame that is gone.
ThrowsOnlyIntoTheWait == waiting => pc \in Waits

\* Whenever the reader is about to sleep or sleeps, either it is woken at
\* once or there is nothing to read: input that comes between the look at
\* kbd_count and the select zeroes its timeout.  And it never sleeps on a C-g,
\* in either mode, whenever that came: the flag is looked at once waiting is
\* set, and again after the echo.
SleepsOnlyWithoutInput ==
  pc = "sleep" => ~ quitFlag /\ (timedOut \/ Empty)

\* Seen from the program the buffer is a KeyFifo: no character is lost,
\* repeated or made up, and none overtakes another.
InBuffer(from, n) == [i \in 1 .. n |-> kbd.mem[from + i - 1]]
Fifo == INSTANCE KeyFifo WITH
          typed <- tty,
          pending <- CASE pc = "fetch" -> InBuffer(kbd.ptr, kbd.count + 1)
                       [] pc = "advance" -> InBuffer(kbd.ptr + 1, kbd.count)
                       [] OTHER -> InBuffer(kbd.ptr, kbd.count),
          last <- c
ImplementsKeyFifo == Fifo!Spec

\* ... as long as SIGIO does not come while a character is taken.
KeyFifoUnlessHit == Fifo!Init /\ [][hit' \/ Fifo!Next]_(Fifo!fifoVars)

\* A reader gets what was typed, C-g included.  In CBREAK mode C-g alone may
\* not be enough.
InputIsRead ==
  (Reading /\ (tty # << >> \/ ~ Empty \/ (interruptInput /\ quitFlag)))
    ~> pc = "got"
=============================================================================
