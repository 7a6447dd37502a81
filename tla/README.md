# A verification model of the holomacs editors

The repository holds two editors and the means to compare them:

* `emacs-archaeology/`: GNU Emacs 18 in C, kept as the oracle;
* `holomacs/`: a port in Common Lisp, meant to match the oracle's behaviour
  (`README.md`), with requirements in `spec/` and tests in `tests/`;
* `test_harness.py` runs both and compares what they print.

Whether the port is right therefore depends on what the oracle does. This
project is mostly of the C core: the part on which everything else rests, and
the part with asynchronous signals, abandoned operations and low-level
invariants that a batch comparison of two programs cannot reach.

## 1. Inventory

| Component | State | Operations | What makes it correct | What is hard |
|---|---|---|---|---|
| Buffer text and gap (`insdel.c`, `buffer.h`) | block of memory, gap, `z`, narrowing, point | move_gap, make_gap, insert, insert_before_markers, del_range | Lisp sees a plain sequence of characters | C-g between two chunks of a gap motion; no memory; read-only found out late |
| Markers (`marker.c`) | memory index, chain of the buffer | set-marker, unchain, relocation | a marker follows its text; it never points into the gap | two indices for one position; ranges half open in each direction |
| Editing primitives (`editfns.c`, `casefiddle.c`, `cmds.c`) | none of their own | insert, delete-region, narrowing, insert-buffer-substring, subst-char-in-region, upcase-region, save-excursion | arguments are checked before anything changes | text taken from the buffer being changed |
| Redisplay hints (`insdel.c`, `xdisp.c`, `dispnew.c`) | beg_unchanged, end_unchanged, unchanged_modified | every change, end of redisplay, direct output | what redisplay leaves alone is right on the screen | hints lag behind the gap; redisplay paused by input |
| Keyboard input (`keyboard.c`, `process.c`) | kbd_buffer, kbd_count, kbd_ptr, quit flag, waiting_for_input, input_pending | SIGIO, SIGINT, reading, waiting, discarding | each character once, in order; no lost wake-up; C-g throws only into a live frame | handlers between any two statements |
| Undo (`undo.c`) | undo_list, modtime | record_*, undo-boundary, truncation, primitive-undo | the list leads back through every text; unmodified means saved | merging, saves and undos of undos in any order |
| Buffers (`buffer.c`, variables of `data.c`) | list, current buffer, the value cell of each variable and the buffers' alists | switch, set, make local, kill local, kill | a variable has the value of the buffer that is current, in Lisp and in C | one cell is shared by all buffers and swapped when somebody notices |
| Evaluator (`eval.c`) | C stack, specpdl, catchlist, handlerlist, backtrace_list, gcprolist | eval, catch, throw, condition-case, signal, unwind-protect, let | the lists are those of live frames; unwind forms run; bindings are undone | non-local exits from the forms that a non-local exit runs |
| Storage (`alloc.c`, `ralloc.c`) | conses, string blocks, marks | allocation, collection | nothing reachable is freed or damaged | strings move while their slots are threaded through their headers |
| Processes (`process.c`, `callproc.c`) | process table, process_tick, input_wait_mask | output, filters, sentinels, SIGCHLD | output in order, each end reported once and at last | SIGCHLD between any two statements; filters that throw or delete |
| Files and locks (`fileio.c`, `filelock.c`) | modtime, save_modified, lock files | visit, write-region, auto-save, lock_file | no two editors own a lock; nothing is overwritten unasked | editors race, crash and steal; writes fail |
| Windows (`window.c`) | tree of windows, configurations | split, delete, enlarge, shrink, select, show, kill-buffer | the windows tile the screen, one is selected, none shows a dead buffer | rounding, deletion while walking, nested combinations |
| Regular expressions (`regex.c`) | compiled pattern, fastmap, failure stack | compile, search, match | finds what the pattern means | jumps that rewrite themselves; two strings with the gap between |
| Terminals, start-up, libraries of functions | | | | sequential code over data, or devices: not modelled |
| Auxiliary programs (`lib-src/`), Rmail (`rmail.el`) | sockets, lock files, mail files | emacsserver, movemail, rmail-get-new-mail | mail is not lost | crashes between two steps |
| holomacs (`holomacs/*.lisp`) | vectors with fill pointers, marker lists, symbol values | primitives, command loop | agrees with the oracle | arguments out of range, errors that are caught half way |

Components meet as follows. The command loop calls `read_key_sequence`, which
waits in `keyboard.c` and `process.c`; commands change a buffer through
`insdel.c`, which calls `prepare_to_modify_buffer` and the recorder of `undo.c`,
relocates the markers of `marker.c`, counts MODIFF and sets the redisplay
hints; redisplay reads the hints and turns SIGIO off and on; signal handlers
set the quit flag, which `QUIT` polls, in gap motions too. The wait also reads
the output of processes and, when SIGCHLD has counted an event, tells
sentinels. `prepare_to_modify_buffer` compares the visited file's time and
takes its lock, through which editors meet. Selecting a buffer swaps variables;
`unbind_to`, at every exit, selects buffers and sets variables again; killing a
buffer takes it out of the windows that show it.

`PROJECT.json` lists all components, and under `hazards` every place where the
code can go wrong in a way that a test would hardly reach.

## 2. Modules

| Module | What it models | Extends / refines |
|---|---|---|
| `BufferText` | what Lisp sees of a buffer: text, narrowing, point, markers | |
| `GapBuffer` | the storage of `insdel.c` and `marker.c` | implements `BufferText` |
| `GapBufferProofs` | the proofs about `GapBuffer` and `RedisplayHints` | extends `RedisplayHints`, `TLAPS` |
| `RedisplayHints` | the hints to redisplay | extends `GapBuffer`, conjoining the hints to its actions |
| `KeyFifo` | what the keyboard buffer promises | |
| `KbdBuffer` | `kbd_buffer`, its handlers and its reader | implements `KeyFifo`, with one exception |
| `Induction` | induction over naturals as sets, and folds step by step, for the proofs | |
| `Undo` | the undo list | extends `BufferText` |
| `UndoProofs` | the proofs about `Undo` | extends `Undo`, `Induction` |
| `Process` | subprocesses, SIGCHLD, the wait, filters and sentinels | |
| `InputProofs` | the proofs about `KbdBuffer` and `Process`: what comes in | extends `KbdBuffer`, `Process`, `Induction` |
| `SharedFile` | editors that visit one file, and its lock | |
| `SharedFileProofs` | the proofs about `SharedFile` | extends `SharedFile`, `TLAPS` |
| `AutoSave` | do-auto-save and the notes and files it depends on | |
| `Movemail` | mailer, movemail and Rmail, and the files between them | |
| `Variables` | what a buffer-local variable promises | |
| `BufferLocals` | the value cell, the alists and specpdl | implements `Variables` |
| `Windows` | the tree of windows | |
| `Matcher` | search and match with a compiled pattern | |
| `Regex` | compilation and fastmap | extends `Matcher`; compared with `Matches`, the meaning of a pattern |
| `Holo` | text, point and markers of holomacs | |
| `Eval` | evaluation and the ways out of it | |
| `Gc` | conses, strings, marking, sweeping, compaction | |
| `GcProofs` | the proofs about `Gc` | extends `Gc`, `Induction` |
| `Sessions` | six of them, each by itself, as one specification | instances of `BufferLocals`, `Holo`, `AutoSave`, `Movemail`, `Eval`, `Matcher` |
| `SessionsProofs` | the proofs about `Movemail`, `AutoSave`, `Holo`, `BufferLocals` and `Matcher` | extends `Sessions`, `Induction` |
| `EvalProofs` | the proofs about `Eval` | extends `Sessions`, `Induction`, `TLAPS` |
| `MCSessions` | the windows, storage and the compiled patterns beside those, in one run | extends `Sessions`, `Gc`; instances of `Windows`, `Regex` |
| other `MC*` | values of the constants for TLC | |

`BufferText` and `KeyFifo` are abstract. `BufferText` is stated at the level of
the Lisp primitives (and mapped to them); `KeyFifo` maps to no code, it is the
promise of the comment "fifo" at `keyboard.c:1079`. `Variables` is what the
docstrings of `data.c` and of `let` describe: a default, values
of a buffer's own, and bindings that remember what they shadowed.

### GapBuffer

`buf` is `struct buffer_text` without the narrowing: `mem` (`beg`), `gpt`,
`gap` (`gap_size`), `z`, and `bufpos`, the index each marker of the buffer's
chain holds. `begv`, `zv` and `pt` are variables of their own. `FetchChar` is
`FETCH_CHAR`; `MarkerPosition` is `marker_position`.

A primitive is one action. An operation in it that moves the gap is a function
from storage to storage (`GapLeft`, `GapRight`, `MakeGap`, `FillGap`,
`WidenGap`), written in the order of the code. A gap motion copies `Chunk`
characters (32000) between two polls for C-g: `Stops` are the places where it
may stop, and the `...GivenUp` actions are the primitives that end there by a
quit, by lack of memory, or by the read-only error that `del_range` raises only
after the motion. `make_gap` treats the old gap as text while it moves the new
one; `MakeGap` does so too, and `QUIT` cannot stop it (`inhibit-quit` is bound).

`InsertBufferSubstring` is `insert-buffer-substring` with the current buffer as
its argument; with another buffer it is `Insert`. `insert_char` is `Insert` of
one character. MODIFF appears in `RedisplayHints` only.

### RedisplayHints

Each action of `GapBuffer` is conjoined with what it does to the hints.
`edited` is `MODIFF # unchanged_modified`; `shown` is a history variable, the
text at the last finished redisplay; `overrun` records the one case in which
the hints are wrong (section 5). Narrowing is left out: it sets `clip_changed`
and the hints are then not read.

### KbdBuffer

`pc` is the place in the reader at which a handler may come in. `Sigio` is
`input_available_signal`, `TypeQuit` is SIGINT in CBREAK mode. The three
statements that take a character (`keyboard.c:1166-1168`) are the three actions
`CountDown`, `Fetch` and `Advance`. `set_waiting_for_input` sets the flag
(`SetWaiting`), looks for a C-g that came before and may echo (`Checked`,
`ThrowQuit`); during the echo a handler must not throw, so `echo` looks for C-g
once more at its end (`keyboard.c:345-346`). `select` is `Select`, `sleep` and `Wake`. `ThrowToReader` is the longjmp to
`getcjmp`. The commands between two reads are reduced to what they can do to
this state: discard input, quit, redisplay, look for input, put a character
back.

### Undo

`undoList` has the latest element first, as in the code. Every element also
holds, for the properties only, the text before the change (`was`) and whether
the buffer was unmodified then (`clean`). `primitive-undo` is a fold of
`UndoElement` over the list; it changes the buffer through the same operators
(`Inserted`, `Deleted`) as commands do, so that what it undoes is recorded.
`modified` is `MODIFF > save_modified`. `modtime` numbers the modification
times of the visited file.

### Process

A child, as the kernel has it, is `child[p]`: running, stopped or dead, what
`wait3` has yet to report of it (`news`) and the output in its pipe. `proc[p]`
is `struct Lisp_Process`. `at` is the place in Emacs: in a command, at the top
of the wait loop, in `select`, in the walk of `status_notify`, in its draining
of output, between that and the look at the status, and between the two halves
of `update_status`. `SigChld` may come at any of them, as `sigchld_handler`
may. Filters and sentinels are places too, which they leave by returning or by
an error, or in which they may delete a process. `sentinels` are the processes
that have one just now: `exec_sentinel` takes it off while it runs, and an error
in it leaves it off for good. Who has neither a sentinel nor a buffer
(`Buffered`) is told of nothing, though his event is taken for told. The ticks
are compared for equality alone: `event` is `p->tick # p->update_tick`,
`ticking` is `process_tick # update_tick`. A pipe holds `MaxOutput` pieces, but
a child may write again when they have been read, for ever. `excused` notes in
which of nine ways the code has let a process down (section 5); each property
names the ways that concern it, and holds for all others.

### SharedFile

An action is what one editor does up to and including one system call that
another editor can notice. `at` is the place in the code: comparing the times
and asking about the difference (`threat`, `userlock.el`), `lock_file` with its
exclusive creation, writing of the pid, look at the owner, removal of a dead
owner's lock, question, superlock and theft, `unlock_file`, and the steps of
write-region and of insert-file-contents. A text is the set of the editors
whose changes are in it, so that a lost save is a missing editor. An editor may
be killed in any place (`Crash`) or shut down in order (`ShutDown`); it stays
dead, and its lock may stay with it. A command that took the lock may be
abandoned before it changes anything (`Modify`); kill-buffer then finds an
unmodified buffer and leaves the lock file (title "left"). `warned` and `raced` note when a user has gone ahead after a question
and when a lock was lost by one of the races of section 5.

### AutoSave

`buf` has of `struct buffer` the counters `modiff`, `save_modified` and
`auto_save_modified`; a text is the number of the change that made it, and
opening a file for writing spoils it until the write has succeeded. `at` is the
place: a command, the walk over the list of buffers, the write to a `#` file, one
of the two sleeps, or the write of a save. While it sleeps, filters may change
buffers. A fatal signal may come in any place and begins a walk of its own; C-g
leaves the sleeps by a non-local exit. `Large` says which texts are long, so that
`b1` shrinks at its first change and grows again at its second. `exposed` is a
history variable: the buffers of which no file need have the text, because the
`#` file could not be written, or because a save has emptied the visited file
when this alone had the text: the buffer was as it was last saved or read, which
includes one that set-buffer-modified-p has marked modified since. A text that
the `#` file has is not exposed by a save, and a changed one that has not been
auto-saved is not taken for saved.

### Movemail

An action is what a process does up to and including one system call on a file
that others see. `mover` is the place of each process that runs `movemail.c`:
linking the lock file, looking at its age, removing it, opening, copying,
zapping the inbox, unlocking. `mailer` is /bin/mail, which movemail takes to use
the same lock (external). `rmail` is the place in `rmail-get-new-mail`: waiting
for movemail, inserting `~/.newmail`, saving, deleting. Emacs, the mailer and
each movemail may be killed in any place; a movemail outlives its Emacs, and the
next Emacs may start another. `TimePasses` makes a lock old. A behaviour ends at
the first `accident` (section 5).

### Variables and BufferLocals

A variable is kept in one of five ways: plain, local in some buffers, local in
every buffer that sets it, in a slot of every buffer, or forwarded to a C
variable with local values. `sym` is the symbol's value cell with the buffer
for which it was set up; each access is the code of `symbol-value`, `set` or
`store_symval_forwarding`, swapping included. `seen`, `own` and `default` map
it to `Variables`, where a variable is just a default and the buffers' own
values; the refinement says that swapping is never noticed. `stack` is specpdl,
with `let` and save-excursion; `unbind_to` takes several entries in one step,
as a non-local exit does. A variable that has been made local or killed and not
looked up since (`unused`) is excepted from `SetUpForC` (section 5).

### Windows

A window is a record with its edges, sizes and children, or its buffer; windows
are named by their path in the tree. Deleting and resizing work on the pointers
that `struct window` has: `Linked` gives each window its `next`, `prev`, `parent`
and first child, `Tree` makes a tree of them again. `SetSize` is
set_window_height and set_window_width: `SetEach` the loop over children across,
`Spread` the one that shares out among children along, `Prune` the one that then
deletes what is too small; each goes on with the `next` of the window it was at,
whatever `DeleteFrom` (Fdelete_window, with `Replaced` and `SelectNext`) has made
of that. `Enlarged` is change_window_height, which computes `delta1` so that the
siblings give way in proportion. `garbled` says that it has divided by zero, or
come to a window that had been deleted (section 5); what the windows are then is
not modelled. `lost` says that shrink-window has deleted the selected window with
its combination.

### Matcher and Regex

A pattern is a syntax tree; `Tokens` writes it as the user would type it, and
`Compiled` folds the tokens to commands as `re_compile_pattern` does, with
`laststart`, `fixup_jump`, the stack of groups and jumps inserted before what
has been compiled. `Search` is the loop of `re_search_2` with its skipping by
the fastmap, forward and backward; each command of `re_match_2` is an action
with the failure stack, and `maybe_finalize_jump` is decided whenever it is
come to, which rewrites it in the code. The text is in two strings. To
`Matcher` a pattern is whatever `Program` says that it was compiled to; that
jumps stay in the code and that exactn has its characters (`IsCode`) is assumed
there, and TLC finds it of every pattern in the runs. `Matches` gives the sets
of places where a match may end, and `FindsWhatItMeans` compares: something is
found where something begins, and ends where a match may end.

### Holo

Of each character the model knows where it was before the last change, so that
"a marker keeps its place" can be said without markers: the character after it
(or before it) is the same. A marker is in the list of one buffer (`chain`) and
has a place, which `set-marker` changes in steps; when resolving a position
fails after the marker has been taken off its list, `condition-case` lets the
program go on. `outside` is the set of buffers that an argument beyond the text
has put in disorder; TLC does not follow what happens next.

### Eval

A frame is a place on the C stack, and the lists hold places, so that a list
which still holds a frame that has gone is visible. Any program within the
bounds is evaluated: in each state a form may be evaluated, a body may throw or
signal, or a frame returns. A non-local exit is `unbind_catch`, one specpdl
entry at a time, since an unwind form is itself evaluated there.

### Gc

A string is a run of units in a block, with a header that holds its size or,
while marking, the beginning of the chain of its slots. `val` is what every slot
holds: an object, or the link that a threaded slot has instead. A collection is
as many steps as the loops of the code make: `visits` are the roots that are
still to be marked, `calls` the calls of `mark_object` in progress (the
recursion, first call first), `scan` the variables of `compact_strings`.
`MarkString` threads one slot; `FollowChain` goes one slot along a chain to the
size; `MoveString` is the bcopy; `Relocate` takes one slot off the chain again.
The steps are not cut up further and nothing comes between them: the program
stands still in a collection. They are this small so that each can be proved
about. `before` is a history variable, the slots and blocks when the collection
began. Large strings have blocks of their own, which are swept. `StackSlots` are
protected by GCPRO and may be come to twice, as arguments of a call in progress
are. `Reachable` is defined as the least closed set of slots that has the roots,
apart from what marking does.

## 3. Runs

| Run | Checks | Bounds | Result |
|---|---|---|---|
| `gap_buffer` | `TypeOK`, `PositionsOrdered`, `MarkersOutsideGap`, `NoJunkInText`, `ImplementsBufferText`, `InsertsSubstringBesidePoint` | 2 characters, 1 marker, 3 characters of text, inserts of 2, chunks of 2 | 15 thousand states |
| `gap_substring` | `InsertsTheSubstring` | text of 4 | violated |
| `redisplay_hints` | `RegionsUnchangedUnlessOverrun`, `EndUnchanged` | 2 characters, text of 4 | 92 thousand states |
| `hints_overrun` | `RegionsUnchanged` | text of 3 | violated |
| `kbd_buffer` | `ThrowsOnlyIntoTheWait`, `SleepsOnlyWithoutInput`, `KeyFifoUnlessHit`, `InputIsRead` | 2 characters and C-g, `kbd_buffer` of 2, 2 typed ahead | 119 thousand states |
| `kbd_sigio` | `ImplementsKeyFifo` | the same | violated |
| `undo` | `LeadsBack`, `UnmodifiedMeansSaved`, `FirstChangeRecorded`, `UndoesWholeUnitsUnlessSaved` | text of 2, list of 4, 2 modification times | 270 thousand states |
| `undo_obsolete` | `UndoesWholeUnits` | list of 6 | violated |
| `process` | `OutputBeforeNotice`, `EventsTick`, `AnnouncedOnce`, `DeathIsReported` | two processes, one that writes and stops, without a buffer, and one with a buffer that only ends; pipes of one piece, one excuse | 134 thousand states |
| `shared_file` | `LockedForUs`, `ModifiedMeansToldSo`, `UnmodifiedMeansOnDisk`, `SaveLosesNothing` | two editors, up to the first lost race | 1.9 million states |
| `sessions` | `SetUpForC`, `SwappingUnnoticed`, `LetsRestore`; `ScreenCovered`, `OneSelected`, `LiveBuffersShown`; `FindsWhatItMeans`, `PointsIntoItsString`; `PositionsInText`, `MarkersKeepPlace`; `ListsMatchStack`, `UnwindFormsRun`; `ChangesAreKept`; `MailIsKept`; `StorageWellFormed`, `CollectsGarbageOnly` | below | 1.9 million states |
| `regex_finalize` | `FinalizesOnlyIfSafe` | the patterns of `sessions` | violated |

Why the bounds are enough.

* `GapBuffer`: no operation relates two markers, so one stands for all. Three
  characters and chunks of two let a motion stop in the middle, on either side
  of a marker; inserts of two need the gap to grow when it is empty or of one;
  the gap's final size varies with the history. The view forgets what the gap
  holds, which no operation reads. The theorems of section 6 cover every size.
* `RedisplayHints`: four characters leave room for a kept region at each end, a
  gap and a change between. Markers play no part.
* `KbdBuffer`: a buffer of two overflows, wraps by moving down, and holds a
  character while another is taken; a batch of two can have a C-g first, last or
  not at all.
* `Undo`: `Typed`, `Regions` and the whole region for subst-char-in-region and
  upcase-region limit the inputs; `MaxList` of 4 holds two units with a boundary
  and a modification time; undos of undos fill it. `undo_obsolete` needs 6 for
  two saves in one unit.

* `Process`: two processes make the walk of `status_notify` leave one behind
  and let one's filter delete the other; one piece in the pipe is enough to be read
  too late or never, and a child that fills it again and again keeps the wait
  from looking for events. One process has no buffer, so that it needs its
  sentinel to be told. The state after a second excuse is not followed: the
  first has already ended what the properties promise to that process.
* `SharedFile`: two editors and, in the beginning, the lock of a dead third.
  Behaviours end at the first accident with a lock, since from there on nothing
  is promised.
* `AutoSave`: two buffers, so that one is being dealt with while the other waits
  its turn; two changes, both to one buffer, to be auto-saved between them, or one
  to each.
* `Movemail`: two messages, of which one may be copied while the other is not
  yet; two movemails, one of which an Emacs that was killed has left behind.
* `BufferLocals`: two buffers, two values, two entries on specpdl: a variable
  bound in one buffer and unbound in the other.
* `Windows`: a screen of 5 lines and 5 columns with at most four windows, of at
  least 2 lines and 1 column: combinations of combinations, also in one
  direction, children that vanish, the last of which takes the place of its
  parent while the walk goes on, and resizing by -3 and 3. One configuration of
  one window is saved.
* `Regex`: every pattern of two items in a group, in order or as alternatives,
  the group repeated and something after it; texts of up to three letters, and
  one with a newline; the first string of one character; two registers, so that
  one group is recorded; 12 failure points, of which none of these needs more.
* `Holo`: three characters, two buffers, two markers. The view keeps of a text its
  length: where its characters were before the last change is looked at in that
  step alone.
* `Eval`: depth 4 and 12 frames, one tag, an error and another condition: an
  unwind form inside a handler inside a catch, exited twice.
* `Gc`: a cons, a static and a stack slot, strings of one to three characters in
  blocks of four, of which three leave a string a block of its own; three
  strings at once, so that one may be moved over another and into an earlier
  block, with chains of up to four slots.

`sessions` chooses in its first state which of the eight is used (six of them
in `Sessions`, the windows and storage in `MCSessions`), and the others stand still: they do
not interact here, and the states are the sum, not the product. What is exchanged
by symmetry is a buffer, a value or a marker in each.

Every property of a passing run fails for a plausible slip in the code, given
as a mutant in `PROJECT.json` (a character too few copied, a marker not
clamped, a flag not cleared, a boundary ignored).

Only `MaxSize` (what fits the value bits of a Lisp integer), `NREGS`,
`max_lisp_eval_depth` and the sizes of string blocks bound something in the
code as well; the other `Max...` bound the models alone. Deadlock is checked
except in three runs: in `sessions` and `regex_finalize` a search ends, and in
`shared_file` (and `sessions`) every editor may be dead.

### Assumptions that the properties make explicit

* `UnmodifiedMeansSaved` is checked with `TickAtSave`: two saves in the same
  second get the same modification time, and then `undo` can mark a buffer
  unmodified that is not what is on disk. The code cannot tell.
* `FirstChangeRecorded` excepts buffers that subst-char-in-region changed while
  unmodified (`slipped`): it marks the buffer modified before it records.
* `InputIsRead` asks, in CBREAK mode, for a character in the terminal: C-g
  alone may leave the reader blocked in `read`.
* `DeathIsReported` asks that no child writes for ever: `wait_reading_process_input`
  calls `status_notify` only when nothing can be read (`process.c:1650-1659`), so
  that one child's output can keep the end of another from being told.

## 4. Fairness

`KbdSpec` and `Process!Spec` are fair; the other modules state safety only.

In `KbdSpec`, `WF(Reader)`: the reader is sequential code on a
processor of its own; it stops only in `select` and in `read`, whose actions
are enabled only when the system call returns, and `WakeForInput` is enabled
when the terminal is readable or the timeout has been zeroed, which is when the
kernel returns from `select`. The other reasons to wake (process output, 100
seconds) are not in `Reader`: nothing is assumed of them. `WF(Sigio)`: the
kernel delivers a pending signal that is not blocked. Nothing is assumed of
the typist or of commands.

In `Process`, `WF(SigChld)`: the kernel delivers the signal. Weak fairness of
`BeginWait`, `GoOnToSelect`, `StatusNotify` and `SelectTimesOut`: the command loop
comes back to waiting, the code runs on, and `select` returns when its timeout
is over (100 seconds at most, `process.c:1705-1708`, which is what saves a
wake-up that came between the look at the ticks and `select`). Strong fairness
of `SelectReads`, `BeginNotify`, `FilterReturns` and `SentinelReturns`, since
the user's keys may end the wait and Lisp may signal errors again and again:
not always just then. No child is assumed to write, to stop or to end.

## 5. What the checks found

* `gap_substring`: `insert-buffer-substring` of the current buffer, point
  inside the substring. The first insertion moves the gap, and with it the rest of
  the substring, to the right. `beg = min (end, BUF_GPT (bp))` (`editfns.c:703`)
  is where that rest begins, but `end` is where the substring ended before, so that
  the second piece is cut short or left out: in "ab" with point 2,
  `(insert-buffer-substring 1 3)` gives "aab". The comment above it says that it
  does not matter whether the buffer is the current one. Outside that case it does not:
  `InsertsSubstringBesidePoint`.
* `hints_overrun`: after a redisplay, subst-char-in-region beyond the gap sets
  `beg_unchanged` past the gap (`insdel.c:408`), an insertion at the gap leaves
  it, and once the gap has moved on nothing lowers it: redisplay keeps changed
  text. In all other histories the hints are right
  (`RegionsUnchangedUnlessOverrun`), and `end_unchanged` always is.
* `kbd_sigio`: `kbd_count` is counted down before the character is fetched
  (`keyboard.c:1166`). SIGIO in between moves the rest of the buffer down, so
  that the reader returns another character and skips one. The statements were
  split to avoid a timing error; it needs the count to come last.
* `undo_obsolete`: an obsolete modification time in the middle of a unit ends
  the undoing (`undo.c:240`), where the comment speaks only of not marking the
  buffer unmodified. Commands that save, or upcase-region followed by a save,
  have such a unit.

* `regex_finalize`: `\(ab?\)*b` finds `b`, not `ab`, in "ab". The jump back of
  the outer loop compares its first character with what follows, rewrites itself
  to finalize_jump, and then throws away the latest failure point, which is the
  one inside the loop (`regex.c:1340`, `1374`). `FindsWhatItMeans` holds for all
  patterns but those that are finalized with a failure point inside (`Hasty`),
  those that repeat what may be empty (`MayHang`: `\(a*\)*` never ends), and
  those with more groups than registers, where the loop begins inside an exactn.

Disagreements that the models except by name, at the lines where they are:

* Process: the comments at `process.c:253` speak of events that have been told,
  but `status_notify` sets `update_tick` to what `process_tick` has become in the
  meantime (`2650`, "overtaken"); a SIGCHLD during draining is told with output
  still unread or is told twice ("midway", "late"); between the two halves of
  `update_status` it is forgotten ("erased", `306-314`); continue-process sets
  the status of a dead process to run ("revived", `2247-2254`); an error in a
  filter or sentinel ends the walk ("thrown"); a sentinel is taken off its process
  while it runs and not put back after an error (`2666-2674`, there is no
  unwind-protect), so that a process without a buffer is told of nothing more
  ("silenced"), nor is it told of an event that comes up in the status_notify of a
  delete-process in its own sentinel; a write to a dead process throws
  its output away ("broken", `2088-2094`); a filter that deletes its process while
  the output is drained makes the loop read descriptor 0 ("recursive", `2580`).
* SharedFile: `filelock.c:80-85` says "either the lock is locked for us, or the
  user has said to go ahead". Not when two editors break one stale lock, when a
  fresh lock is still empty and another takes it for obsolete, when a thief finds
  the lock gone (it opens without creating), when the superlock is given up
  after 20 seconds, or when a failed write-region has dropped the lock of a
  buffer that is still modified (`fileio.c:1916-1932`), whose time it takes from
  the file it has spoiled. The times are compared before the lock is taken
  (`filelock.c:128-138`). And a lock file may stay behind without an accident: a
  command takes the lock and is abandoned before it changes the buffer, and
  kill-buffer and the way out of Emacs unlock modified buffers only
  (`filelock.c:350-352`, `393-395`).
* AutoSave: `KeepsChanges` excepts a text that only the visited file had when a
  save emptied that and did not end: a buffer counts as auto-saved when its file has
  been read or written, and set-buffer-modified-p may mark it modified, before the
  save or after. A buffer whose `#` file could not be written is noted as auto-saved
  all the same (`fileio.c:2099`), and is not tried again until it changes; one that
  has shrunk is not saved even when Emacs is being killed. `auto_saving` is set
  without an unwind-protect (`2061`, `2111`): C-g in one of the two sleeps (`2091`,
  `2025-2029`) leaves it set, as in the action `Quit`, and until an auto-save comes
  to its end saves neither lock nor unlock (`1745`, `1934`). Since locks are in
  `SharedFile`, no property is about that.
* Movemail: a process slower than a minute loses its lock to another, and so does
  one that has just taken the lock over from a dead owner, when a second waiter had
  looked at the old lock before (`movemail.c:173-177`, "stolen"). If Emacs is killed
  while its movemail runs, the next one finds `~/.newmail`, reads what has been
  written so far and deletes it, and movemail then deletes the inbox
  (`rmail.el:532`, "half"). Read errors are left out: -1 is taken for the result of
  a write that failed in the same way (`movemail.c:216-217`).
* BufferLocals: `buffer.c:843` promises to update variables that forward into C;
  make-local-variable and kill-local-variable leave the C variable as it was
  until somebody looks. A let of a buffer's slot that ends in another buffer sets
  the slot there.
* Windows: a child of size 0 makes the sharing out divide by zero
  (`window.c:753`), half done; shrink-window may delete the combination that
  holds the selected window. When a combination is replaced by its last child, the
  walk that deletes small children (`764-767`, `826-829`) runs on into the siblings
  of that combination, and the walk over those, which is still at it, goes on with
  its `next`, which may have been deleted in between. If that is a leaf,
  `unshow_buffer` aborts (`879`): with four windows in five columns, of which the
  first two are a combination, enlarging the last does it. If it is a
  combination, its size is taken from its parent a second time, and windows
  overlap. `ScreenCovered` is about all other commands.
* Eval: unwind forms "are executed anyway" (`eval.c:891`), but not when the depth
  limit refuses them (`1304-1309`).
* Holo: set-marker with a bad position has already taken the marker off its list
  (`primitives.lisp:537-541`); delete-region past the end of the text takes
  other characters (`603-606`); replace-match after looking-at is off by one
  (`967-993` against `825`); find-file-noselect on a buffer that is there
  discards its text and leaves point and markers (`430`); copy-marker does not
  clamp an integer (`563-565`). `MarkerAdjustmentReq` says that an insertion shifts
  the markers at or before it (`src/spec/markers.py:36-42`);
  `adjust-markers-on-insert` shifts those behind it and leaves one at its place
  where it is (`primitives.lisp:95-104`). `MarkersKeepPlace` says what the code
  does: what is inserted at a marker comes after it.

## 6. Proofs

`GapBufferProofs` proves, for every set of characters and markers and every
value of `MaxSize`, `MaxInsert`, `Chunk`, `Extra` and `FirstGap` that meets
`GapBufferAssumption`:

| Theorem | Statement |
|---|---|
| `InvHolds` | the inductive invariant |
| `TypeCorrect` | `Spec => []TypeOK` |
| `PositionsStayOrdered` | `Spec => []PositionsOrdered` |
| `MarkersStayOutsideGap` | `Spec => []MarkersOutsideGap` |
| `NoJunkEver` | `Spec => []NoJunkInText` |
| `GapBufferImplementsBufferText` | `Spec => ImplementsBufferText` |

The invariant is the conjunction of the four: none is inductive alone, since a
marker's relocation is right only if it was outside the gap, and text is free of
junk only if positions lie in the block. The argument goes by storage
operation: a lemma for each of `GapLeft`, `GapRight`, `MakeGap`, `FillGap` and
`WidenGap` says what it does to the text and to the position of each marker
(nothing, for the first three); the lemmas about `MoveGap` and `RoomAt` combine
them; each action of `GapBuffer` is then an action of `BufferText`, or, when it
is given up, a stutter.

`InputProofs` proves, for every set of processes, with buffers or without, and
every `MaxOutput` that meet `ProcessAssumption`:

| Theorem | Statement |
|---|---|
| `ProcessTypes` | `Spec => []TypeOK` |
| `EventsAlwaysTick` | `Spec => []EventsTick` |
| `OutputComesFirst` | `Spec => []OutputBeforeNotice` |
| `EndAnnouncedOnce` | `Spec => []AnnouncedOnce` |

`TypeOK` needs one more fact to be inductive: `status_notify` stands at a process
while it deals with one. `EventsTick` is then inductive, since every
action that makes an event ticks, or notes an excuse, and excuses are only
added (`ExcusesGrow`). `OutputBeforeNotice` is about the moment of the notice;
what makes it true lies before: the news of a child is true, exit status means
death, a channel is closed only when it has been read, and a walk that has
drained a process tells of no event that came later. These are the five parts of
`OutputInv`, each for a process to which none of the excuses applies.

`AnnouncedOnce` has an invariant of its own (`OnceInv`), again for processes
without an excuse: nothing speaks of an end that is still to come (`Unheard`),
who was announced is closed and has no event left (`Announced`), and so has who
is being dealt with (`Answered`).

`SharedFileProofs` proves, for any number of editors, from `SharedAssumption`:

| Theorem | Statement |
|---|---|
| `LockIsOurs` | `Spec => []LockedForUs` |
| `ModifiedMeansToldSoHolds` | `Spec => []ModifiedMeansToldSo` |
| `UnmodifiedMeansOnDiskHolds` | `Spec => []UnmodifiedMeansOnDisk` |
| `SaveLosesNothingHolds` | `Spec => []SaveLosesNothing` |

All four are about editors between two commands or at one place in a save; the
invariants say what is true on the way. `LockInv` says of an editor at any place
where it is not just making or giving back a lock that the lock file is that of
who thinks so, and that the file is empty and linked while one writes its pid
into it, so that no second editor can be about to do so. `ToldInv` needs nothing
of the lock: it follows one editor from its question to its change.  `FileInv`
rests on `LockInv`: who is about to take the lock, compares times, or has
compared them, has the file's text or its time is not that of the file
(`TakesLock`, `HasFile`, `HasFileStill`), since nobody else can save while it
holds the lock.

It also proves, for every set of characters, size of `kbd_buffer` and bound of
the terminal that meet `KbdAssumption`:

| Theorem | Statement |
|---|---|
| `ThrowsOnlyIntoTheWaitHolds` | `KbdSpec => []ThrowsOnlyIntoTheWait` |
| `SleepsOnlyWithoutInputHolds` | `KbdSpec => []SleepsOnlyWithoutInput` |
| `KeyFifoUnlessHitHolds` | `KbdSpec => KeyFifoUnlessHit` |

`WaitInv` ties `waiting_for_input` to the places in the reader: that it is set
exactly there is why a handler never throws elsewhere, and that it is set before
the buffer is looked at is why the reader cannot go to sleep on a character. It
is set before the quit flag is looked at, too, and the flag is looked at again
after the echo, the one place where a handler does not throw although it is set:
so the reader does not sleep on a C-g either.
`BufferInv` says that `kbd_ptr` and `kbd_count` stay in the buffer, and that the
slot of a character that is being taken is not free yet, until a signal hits
there (`hit`). The handler stores a batch by a fold; what it has stored after `n` characters
(`Received`) is shown by induction on `n`.

`UndoProofs` proves, for all texts, regions and lengths of the list that meet
`UndoAssumption`:

| Theorem | Statement |
|---|---|
| `UndoInvariant` | the inductive invariant |
| `LeadsBackHolds` | `UndoSpec => []LeadsBack` |
| `FirstChangeRecordedHolds` | `UndoSpec => []FirstChangeRecorded` |
| `UnmodifiedMeansSavedHolds` | `UndoSpec => []UnmodifiedMeansSaved`, assuming `TickAtSave` |
| `UndoesWholeUnitsUnlessSavedHolds` | `UndoSpec => UndoesWholeUnitsUnlessSaved` |

The list is in order if undoing each element turns the text above it into the
text that the element was recorded in (`AllLead`); with that, undoing the list
from the top leads through every text. `primitive-undo` records its own changes
while it undoes: after `i` elements the text is the one noted at the `i`-th
element, and the new list is in order as well (`OnTheWay`, by induction on `i`).
Of modification times the invariant says that everything recorded as unmodified
under the present time, and the buffer if it is unmodified, is one text
(`SavedInv`).

`GapBufferProofs` goes on to the hints to redisplay and to
`insert-buffer-substring`:

| Theorem | Statement |
|---|---|
| `HintInvariant` | `HintSpec => []HintInv` |
| `EndUnchangedHolds` | `HintSpec => []EndUnchanged` |
| `RegionsUnchangedUnlessOverrunHolds` | `HintSpec => []RegionsUnchangedUnlessOverrun` |
| `InsertsSubstringBesidePointHolds` | `Spec => InsertsSubstringBesidePoint` |

An edit leaves the characters before and behind it as they were
(`ChangedWithin`), and what is kept afterwards reaches no further than that
place; what is kept, the gap included, never grows until the screen is right
again. `HintInv` is `GapBuffer`'s invariant with: the end that is kept is right
(`EndRight`); so is the start, and the two do not overlap in what was shown
(`StartRight`), unless `overrun`.

`SessionsProofs` and `EvalProofs` prove, for any buffers, values, markers,
messages, tags, conditions, commands, texts and bounds that meet
`SessionsAssumption` (the conjunction of the six modules' assumptions):

| Theorem | Statement |
|---|---|
| `NoMailIsLost` | `SessionsSpec => []MailIsKept` |
| `ChangesAreAlwaysKept` | `SessionsSpec => []ChangesAreKept` |
| `PositionsStayInText` | `SessionsSpec => []PositionsInText` |
| `EditsMoveMarkers` | `SessionsSpec => MarkersKeepPlace` |
| `SwappingIsUnnoticed` | `SessionsSpec => SwappingUnnoticed` |
| `SetUpForCAlways` | `SessionsSpec => []SetUpForC` |
| `LetsAlwaysRestore` | `SessionsSpec => LetsRestore` |
| `PointsIntoItsStringAlways` | `SessionsSpec => []PointsIntoItsString` |
| `ListsAlwaysMatch` | `SessionsSpec => []ListsMatchStack` |
| `UnwindFormsAlwaysRun` | `SessionsSpec => UnwindFormsRun` |

The `Spec` that the run `sessions` checks conjoins the windows and storage to
`SessionsSpec`, and so implies it. Storage either takes its steps there or stays
at `GcInit`, so that `Spec` implies `GcSpec` too.

* Mail. That every message is somewhere does not follow from itself: it depends
  on when a file is deleted. `MailInv` adds, for as long as there has been no
  accident, that whoever works under the lock owns it (`WorkersOwnLock`), that
  what a movemail has written agrees with the inbox as far as it goes, that all
  of it has been written once the inbox is to be deleted (`CopiedFirst`), and that
  Rmail reads `~/.newmail` only when nobody writes it, and deletes it only when
  its messages are in the saved file (`ReadWhenComplete`).
* Auto-saving. `KeepsChanges` speaks of changed buffers only, but a command may
  mark a buffer modified again; `BelievedInFile` says the same of all buffers.
  `WrittenIsExposed` says that the buffer whose `#` file is being written is
  exposed, since that file has been emptied;
  `WayOut` that on the way out of Emacs every buffer is still on the list, or is
  not wanted, or has shrunk, which at the end of the list is what was to be shown.
* holomacs. `ChainedWhereTheyAre`: a marker is only on the list of the buffer it is
  in. So an edit reaches all markers of a buffer and none of another. `Follows`
  says of the text and of the function that moves the markers that they move
  alike, and that a marker stays right behind the last old character before it;
  an insertion, a deletion and their composition satisfy it.
* Local variables. The refinement mapping takes from a symbol what each buffer
  sees (`Seen`), which buffers have a value of their own, and the default.
  `CellOK` is what the value cell means: it holds the value of the element it
  points to, which may be newer than the element. Each operation of `data.c` is
  described once by what it does to `CellOK` and the mapping (`Storing`,
  `SettingDefault`, `MakingLocal`, `KillingLocal`...). For C, `SetUp` says that
  the cell is loaded for the selected buffer, unless a making or killing has not
  been looked up since; for let, `Restorable` says of every entry on specpdl, not
  only the top one, that setting its old value would bring back what was seen.
* Matching. That a failure point leads back into the string whose end will be
  compared depends on all of them: the positions do not decrease from one failure
  point to the next and none is beyond the present one, dummies left out
  (`Points`), however many a loop throws away. So what goes back from the first
  string stays in it, and what goes back from the second is told by the
  position. `InText` says of the search that the places it tries are in the text,
  though it skips by the fastmap.
* Evaluation. `ListsMatchStack` speaks of the lists between jumps only, but what
  they are then depends on what a jump made of them, and a jump may begin within
  the unwind forms of another. `EvalInv` has three parts. `Linked` says of every
  frame but those in which a jump begins that the lists, as the next frame found
  them, are what this one made of its own; so without jumps they are those of the
  stack, by induction on the frames (`ListsOfFrames`). `Live` says that there is a
  set of frames that no jump under way has left, to which the lists and the
  targets of all jumps belong, in which each list entry is the newest frame of its
  kind, and in which what is bound grows with the frames; a jump makes that set
  smaller, and every other way back only cuts it off (`CallsLive`, `JumpsLive`,
  `PopsLive`, `DiscardsLive`, `HandlesLive`). Frame 2, the handler of the command
  loop, is in it but for the moment in which a throw to top-level goes from there
  to frame 1 (`Leaving`). `BoundInOrder` and `Kept` say that an entry of specpdl
  has its frame and that an unwind-protect that has not run its forms has its
  entry, so that no frame is popped before them. Each action is one of six kinds
  of step (`EvalSteps`), and the lemmas are about these.

`GcProofs` proves, for any conses, roots, strings and size of a block that meet
`GcAssumption`, with chains of any length:

| Theorem | Statement |
|---|---|
| `StorageAlwaysWellFormed` | `GcSpec => []StorageWellFormed` |
| `OnlyGarbageIsCollected` | `GcSpec => CollectsGarbageOnly` |

Both properties speak of the storage between collections and of the end of one;
`GcInv` says what is true on the way, against `before`.

* While the program runs (`Idle`): what `StorageWellFormed` says, of all slots, and
  nothing is marked.
* While objects are marked (`Marked`): there is a set D of slots for which
  `mark_object` has been called, in the order `rank`. D and the slots on `calls` are
  reachable and disjoint, and a cons is marked exactly if both its slots are among
  them (`MarksOK`): so a slot is threaded no more than once, and when nothing is
  left to do, D is all that can be reached, as it has the roots and is closed. A
  root that may be come to twice has its MARKBIT, or will have, when it is in D
  (`VisitsOK`). The slots in D that refer to a string are its chain, from the
  header through the last marked to the first, and at the end is the size
  (`ChainsOK`).
* While strings are moved (`Compacting`): before the cursor the strings moved are
  packed, are those that were reached, and their slots refer to them (`MovedOK`);
  behind it headers and chains are as marking left them (`AheadOK`). That
  what is written never reaches what is still to be read is `to_pos <= pos` in the
  same block (`RestOK`). A chain that is followed or taken apart is in part done
  (`Measuring`, `Relocating`): the slots with a rank from `cut` on are.

There is a lemma for each action. That `to_sb` never passes `from_sb`, as the
comment at `alloc.c:1411` says, is a step of the one about `CloseBlock`: the string
did fit where it was.

Induction is over sets (`NatSetInduction`), since a theorem that takes an
operator cannot be instantiated; a fold is first shown to be the last value of a
function over the naturals (`FoldExists`).

What the proofs changed in the models. Two `CASE`s (`Concluded` of `SharedFile`,
`Fkill_all_local_variables` of `BufferLocals`) had overlapping guards, of which
TLC takes the first but TLA+ any; `Undo` notes
with each element if the buffer was unmodified (`clean`), without which its
properties could not say of older elements what they say of new ones;
`BufferLocals` needs `"nil"`, `"default"` and `"dead"` to be no buffers, and
`AutoSave` needs the list of buffers to be a sequence of them. `Gc` did a
collection in one step, by recursive functions; it is a loop of small steps now,
whose order is that of the code.

Model-checked only:

* `InputIsRead` and `DeathIsReported`: liveness is out of the prover's reach.
* `ScreenCovered`, `OneSelected`, `LiveBuffersShown` (`Windows`) and
  `FindsWhatItMeans` (`Regex`): these modules define trees, and what patterns mean,
  with RECURSIVE operators, which the provers do not take.

## 7. Plan

Done: `BufferText`, `GapBuffer` with its proofs, `RedisplayHints`, `KeyFifo`,
`KbdBuffer`, `Undo`, `Process`, `SharedFile`, `AutoSave`, `Movemail`, `Variables`, `BufferLocals`,
`Windows`, `Matcher`, `Regex`, `Holo`, `Eval`, `Gc`.

Next, in order of weight:

1. `Quit` (`eval.c`, `keyboard.c`): the quit flag from the handler to `QUIT`, with
   inhibit-quit, unwind forms and getcjmp in recursive reads. Property: a C-g is
   obeyed or given to Lisp as a character.
2. `EmacsServer` (`lib-src/`): clients that send half a line.
3. `MarkerChain` and `Excursion` (`marker.c`, `buffer.c`, `alloc.c`): markers that
   change buffers, weak chains swept by the collector, killed buffers.
4. `HoloCommandLoop` and `HoloVars` (`holomacs/`): last-command and this-command
   over errors, and let of buffer-local variables after translation.
5. `RAlloc` and `SupersessionHook`.

Proofs to add: the tree of `Windows` as a function on windows, for `OneSelected`
and `LiveBuffersShown`.

## 8. Not modelled

Drawing, terminals and window systems; the Lisp library functions; syntax
tables and search.c; byte code, reader and printer; keymaps and the minibuffer;
dumping and platform code: sequential code over data or devices, where tests do
better. In the modelled files:

* keyboard.c: keyboard macros, echo area, polling for input, the dialogue after
  a second C-g, `set-input-mode`;
* undo: `NOUNDO` of subst-char-in-region, `set-buffer-modified-p`; the Lisp
  command `undo`, which calls `primitive-undo`, is not in the repository;
* process.c: network connections, accept-process-output, ptys, call-process,
  process groups; signals during the `status_notify` of delete-process;
* fileio.c: file names, directories; reading a file is taken not to fail: an I/O
  error after some of it has been read (`1675-1677`) leaves a modified buffer for
  whose file nobody has asked for the lock, with the old time; two writes in one
  second; saves and reads by a
  filter that runs while do-auto-save sleeps;
* data.c and buffer.c: void variables, the list of buffers, and lets of more
  than one variable;
* window.c: points and starts of windows, scrolling, the choice of
  display-buffer, a screen that changes its size;
* regex.c: registers and duplicates, words, syntax and the ends of the buffer;
* eval.c: the debugger, autoloading, macros;
* movemail.c and rmail.el: POP, flock, several inboxes, data lost in a crash of the
  machine;
* alloc.c: vectors, symbols, buffers, markers, pure storage;
* holomacs: what its searches and files do, narrowing, local variables.

`holomacs_stubs.c` turns signals and locks off in the batch oracle; the models
are of the code that an interactive build has.
