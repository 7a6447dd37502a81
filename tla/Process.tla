------------------------------- MODULE Process -------------------------------
(***************************************************************************)
(* Asynchronous subprocesses (process.c): children that write, stop and    *)
(* die when they like, the SIGCHLD handler that may run between any two    *)
(* statements, and the wait for the keyboard, in which Emacs reads their   *)
(* output, runs filters, and tells sentinels what became of them.          *)
(*                                                                         *)
(* The counters tick and update_tick of a process are only ever compared:  *)
(* event says that they differ, and ticking that process_tick and the      *)
(* global update_tick do.  Output is counted, in pieces of what one read   *)
(* returns, and a child may write for ever.  A process has a buffer for as *)
(* long as it lives or has none; it gets its sentinel when it is started.  *)
(* Network connections, process groups and accept-process-output are left  *)
(* out, and what filters and sentinels do is to return, to signal an       *)
(* error, or to delete a process.  The status_notify of delete-process and *)
(* continue-process is one step: its filters and sentinels return, and no  *)
(* signal comes.                                                           *)
(***************************************************************************)
EXTENDS Naturals

CONSTANTS
  Processes,
  Nobody,    \* no process
  Busy,      \* those whose children write and stop: the others only end
  Buffered,  \* those that have a buffer, which is not killed
  MaxOutput  \* pieces of output that a pipe holds

ASSUME ProcessAssumption ==
  /\ Nobody \notin Processes
  /\ Busy \subseteq Processes /\ Buffered \subseteq Processes
  /\ MaxOutput \in Nat

VARIABLES
  child,    \* the processes as the kernel has them, see Child
  proc,     \* struct Lisp_Process, see Object
  sentinels, \* the processes whose p->sentinel is not nil
  ticking,  \* update_tick # process_tick
  at,       \* the place in Emacs's code
  back,     \* the place to which a filter returns
  cur,      \* the process that status_notify deals with
  todo,     \* what status_notify has not come to yet
  heard,    \* what sentinels and buffers were last told of a process
  deaths,   \* how often its end was announced
  excused   \* processes that were let down, see Excuses

vars == <<child, proc, sentinels, ticking, at, back, cur, todo,
          heard, deaths, excused>>
history == <<heard, deaths, excused>>

(***************************************************************************)
(* news is what wait3 has yet to report, unread the output in the pipe.    *)
(***************************************************************************)
Child == [state : {"none", "running", "stopped", "dead"},
          news : {"none", "stop", "exit"}, unread : 0 .. MaxOutput]

\* mask is the bit in input_wait_mask, infd says that the descriptor is open.
Object == [listed : BOOLEAN, infd : BOOLEAN, mask : BOOLEAN,
           raw : {"none", "stop", "exit"}, status : {"run", "stop", "exit"},
           event : BOOLEAN]

Unused == [listed |-> FALSE, infd |-> FALSE, mask |-> FALSE, raw |-> "none",
           status |-> "run", event |-> FALSE]

(***************************************************************************)
(* How a process can be let down:                                          *)
(*   "overtaken"  SIGCHLD came while status_notify ran, after the walk had *)
(*                passed the process, and update_tick was set regardless   *)
(*   "midway"     SIGCHLD came while status_notify was reading its output, *)
(*                for an earlier event                                     *)
(*   "late"       SIGCHLD came when it had read that output, and not yet   *)
(*                looked at the status                                     *)
(*   "erased"     SIGCHLD came between the two halves of update_status     *)
(*   "revived"    continue-process set its status to run after its death   *)
(*   "thrown"     a filter or sentinel ended status_notify by an error     *)
(*   "broken"     a write to it failed, and its output was thrown away     *)
(*   "recursive"  its filter deleted it while status_notify read from it,  *)
(*                which reads on, from descriptor 0                        *)
(*   "silenced"   it has no buffer, and its sentinel ended by an error and *)
(*                was not put back, or deleted another process, and in the *)
(*                status_notify of that could not be told of an event      *)
(***************************************************************************)
Excuses == {"overtaken", "midway", "late", "erased", "revived", "thrown", 
            "broken", "recursive", "silenced"}
Excuse(p, why) == excused' = excused \cup {<<p, why>>}
Has(p, reasons) == \E why \in reasons : <<p, why>> \in excused

Init ==
  /\ child = [p \in Processes |->
       [state |-> "none", news |-> "none", unread |-> 0]]
  /\ proc = [p \in Processes |-> Unused] /\ sentinels = {}
  /\ ticking = FALSE
  /\ at = "command" /\ back = "command" /\ cur = Nobody /\ todo = {}
  /\ heard = [p \in Processes |-> "run"]
  /\ deaths = [p \in Processes |-> 0]
  /\ excused = {}

Emacs == <<sentinels, ticking, at, back, cur, todo>>

(***************************************************************************)
(* The children, and the handler.                                          *)
(***************************************************************************)
Output(p) ==
  /\ p \in Busy /\ child[p].state = "running" /\ child[p].unread < MaxOutput
  /\ child' = [child EXCEPT ![p].unread = @ + 1]
  /\ UNCHANGED <<proc, Emacs, history>>

Stop(p) ==
  /\ p \in Busy /\ child[p].state = "running"
  /\ child' = [child EXCEPT ![p].state = "stopped", ![p].news = "stop"]
  /\ UNCHANGED <<proc, Emacs, history>>

\* Any program may send SIGCONT; a stop not yet reported is forgotten.
Resumed(c) == IF c.state # "stopped" THEN c
              ELSE [c EXCEPT !.state = "running", !.news = "none"]
Resume(p) ==
  /\ child[p].state = "stopped"
  /\ child' = [child EXCEPT ![p] = Resumed(@)]
  /\ UNCHANGED <<proc, Emacs, history>>

Died(c) == [c EXCEPT !.state = "dead", !.news = "exit"]
Die(p) ==
  /\ child[p].state \in {"running", "stopped"}
  /\ child' = [child EXCEPT ![p] = Died(@)]
  /\ UNCHANGED <<proc, Emacs, history>>

Draining == at = "drain" \/ (at = "filter" /\ back = "drain")

Ticked(o) == [o EXCEPT !.event = TRUE]

\* sigchld_handler, for one child: the next is the next step.  A signal makes
\* select return, if select was reached.
SigChld(p) ==
  /\ child[p].news # "none"
  /\ child' = [child EXCEPT ![p].news = "none"]
  /\ IF proc[p].listed
       THEN /\ proc' = [proc EXCEPT ![p] =
                 [Ticked(@) EXCEPT !.raw = child[p].news,
                                   !.mask = proc[p].mask /\ child[p].news # "exit"]]
            /\ ticking' = TRUE
       ELSE UNCHANGED <<proc, ticking>>
  /\ at' \in IF at = "select" THEN {"select", "top"} ELSE {at}
  /\ CASE Draining /\ p = cur -> Excuse(p, "midway")
       [] at = "report" /\ p = cur -> Excuse(p, "late")
       [] at = "clear" /\ p = cur -> Excuse(p, "erased")
       [] OTHER -> UNCHANGED excused
  /\ UNCHANGED <<sentinels, back, cur, todo, heard, deaths>>

(***************************************************************************)
(* Pieces of status_notify, as functions of a struct Lisp_Process.         *)
(***************************************************************************)
UpdateStatus(o) ==
  [o EXCEPT !.status = IF o.raw = "none" THEN @ ELSE o.raw, !.raw = "none"]

DeactivateProcess(o) == [o EXCEPT !.infd = FALSE, !.mask = FALSE]
RemoveProcess(o) == [DeactivateProcess(o) EXCEPT !.listed = FALSE]
\* delete_exited_processes says which of the two.
Buried(o) ==
  IF o.status = "exit" THEN {RemoveProcess(o), DeactivateProcess(o)} ELSE {o}

\* A process that has neither is passed over in silence, and so is one in whose
\* buffer it would be said that it runs.
Tells(p, status) == p \in sentinels \/ (p \in Buffered /\ status # "run")

\* One, two, many.
Counted(n) == IF n < 2 THEN n + 1 ELSE n
Told(p, status) ==
  /\ heard' = [heard EXCEPT ![p] = status]
  /\ deaths' = [deaths EXCEPT ![p] = IF status = "exit" THEN Counted(@) ELSE @]

(***************************************************************************)
(* status_notify as delete-process and continue-process call it.  proc0    *)
(* and child0 are what they have made of the processes.                    *)
(***************************************************************************)
NotifyAll(proc0, child0, gone) ==
  LET New == {p \in Processes : proc0[p].listed /\ proc0[p].event}
      Now(p) == [UpdateStatus(proc0[p]) EXCEPT !.event = FALSE]
  IN /\ proc' \in [Processes -> UNION {Buried(Now(p)) : p \in New}
                        \cup {RemoveProcess(Now(p)) : p \in gone}
                        \cup {proc0[p] : p \in Processes}]
     /\ \A p \in Processes :
          proc'[p] \in IF p \in gone THEN {RemoveProcess(Now(p))}
                       ELSE IF p \in New THEN Buried(Now(p)) ELSE {proc0[p]}
     /\ child' = [p \in Processes |->
          IF p \in New /\ proc0[p].infd THEN [child0[p] EXCEPT !.unread = 0]
                                        ELSE child0[p]]
     /\ heard' = [p \in Processes |->
          IF p \in New /\ Tells(p, Now(p).status) THEN Now(p).status ELSE heard[p]]
     /\ deaths' = [p \in Processes |->
          IF p \in New /\ Tells(p, Now(p).status) /\ Now(p).status = "exit"
          THEN Counted(deaths[p]) ELSE deaths[p]]
     /\ ticking' = FALSE

(***************************************************************************)
(* What Lisp programs do.                                                  *)
(***************************************************************************)
InLisp == at \in {"command", "filter", "sentinel"}

StartProcess(p) ==
  /\ at = "command" /\ child[p].state = "none"
  /\ child' = [child EXCEPT ![p].state = "running"]
  /\ proc' = [proc EXCEPT ![p] =
       [Unused EXCEPT !.listed = TRUE, !.infd = TRUE, !.mask = TRUE]]
  /\ sentinels' \in {sentinels \cup {p}} \cup (IF p \in Buffered THEN {sentinels} ELSE {})
  /\ UNCHANGED <<ticking, at, back, cur, todo, history>>

\* There is an event for the sentinel that runs, and nowhere else to put it.
NobodyToTell == at = "sentinel" /\ cur \notin Buffered /\ proc[cur].event

\* delete-process of a process that is not active only removes it.
DeleteProcess(p) ==
  /\ InLisp /\ proc[p].listed
  /\ IF proc[p].infd
       THEN /\ NotifyAll(
                 [proc EXCEPT ![p] =
                    [Ticked(@) EXCEPT !.raw = "none", !.status = "exit"]],
                 [child EXCEPT ![p] = IF @.state = "dead" THEN @ ELSE Died(@)],
                 {p})
       ELSE /\ proc' = [proc EXCEPT ![p] = RemoveProcess([@ EXCEPT !.raw = "none"])]
            /\ UNCHANGED <<child, ticking, heard, deaths>>
  /\ excused' = CASE Draining /\ p = cur -> excused \cup {<<p, "recursive">>}
                  [] NobodyToTell /\ p # cur /\ proc[p].infd ->
                       excused \cup {<<cur, "silenced">>}
                  [] OTHER -> excused
  /\ UNCHANGED <<sentinels, at, back, cur, todo>>

\* process_send_signal with SIGCONT
ContinueProcess(p) ==
  /\ at = "command" /\ proc[p].infd
  /\ NotifyAll(
       [proc EXCEPT ![p] = [Ticked(@) EXCEPT !.raw = "none", !.status = "run"]],
       [child EXCEPT ![p] = Resumed(@)],
       {})
  /\ excused' = IF "exit" \in {proc[p].raw, proc[p].status}
                THEN excused \cup {<<p, "revived">>} ELSE excused
  /\ UNCHANGED <<sentinels, at, back, cur, todo>>

\* send_process to a child that reads no more, alive or dead: SIGPIPE
SendProcess(p) ==
  /\ at = "command" /\ proc[p].infd
  /\ LET o == UpdateStatus(proc[p])
     IN IF o.status # "run"
          THEN /\ proc' = [proc EXCEPT ![p] = o]
               /\ UNCHANGED <<ticking, excused>>
          ELSE /\ proc' = [proc EXCEPT ![p] =
                    DeactivateProcess([Ticked(o) EXCEPT !.status = "exit"])]
               /\ ticking' = TRUE
               /\ Excuse(p, "broken")
  /\ UNCHANGED <<child, sentinels, at, back, cur, todo, heard, deaths>>

(***************************************************************************)
(* wait_reading_process_input, for the keyboard.  Commands typed ahead are *)
(* taken without waiting: they are part of the command.                    *)
(***************************************************************************)
BeginWait ==
  /\ at = "command" /\ at' = "top"
  /\ UNCHANGED <<child, proc, sentinels, ticking, back, cur, todo, history>>

\* A pipe can be read when there is output, or when there never will be.
Readable(p) == proc[p].mask /\ (child[p].unread > 0 \/ child[p].state = "dead")

\* Plausible bug: update_tick is set when the walk begins.
BeginNotifyEarly ==
  /\ at = "top" /\ ticking /\ \A p \in Processes : ~Readable(p)
  /\ at' = "notify" /\ todo' = {p \in Processes : proc[p].listed}
  /\ ticking' = FALSE
  /\ UNCHANGED <<child, proc, sentinels, back, cur, history>>

BeginNotify ==
  /\ at = "top" /\ ticking /\ \A p \in Processes : ~Readable(p)
  /\ at' = "notify" /\ todo' = {p \in Processes : proc[p].listed}
  /\ UNCHANGED <<child, proc, sentinels, ticking, back, cur, history>>

\* No event, or input: output, or a key.
GoOnToSelect ==
  /\ at = "top" /\ at' = "select"
  /\ UNCHANGED <<child, proc, sentinels, ticking, back, cur, todo, history>>

\* read_process_output: what comes goes to a filter or into the buffer.
Read(p, next) ==
  /\ child[p].unread > 0
  /\ child' = [child EXCEPT ![p].unread = @ - 1]
  /\ \/ at' = "filter" /\ back' = next
     \/ at' = next /\ UNCHANGED back
  /\ UNCHANGED <<proc, sentinels, ticking, cur, todo, history>>

SelectReads(p) == at = "select" /\ proc[p].mask /\ Read(p, "top")

\* Plausible bug: no timeout, since every event comes with a signal.
SelectWaitsOn ==
  /\ at = "select" /\ at' = "top" /\ \E p \in Processes : Readable(p)
  /\ UNCHANGED <<child, proc, sentinels, ticking, back, cur, todo, history>>

\* After 100 seconds, or because of a pipe that is at its end.
SelectTimesOut ==
  /\ at = "select" /\ at' = "top"
  /\ UNCHANGED <<child, proc, sentinels, ticking, back, cur, todo, history>>

\* Keys come before output.
KeyTyped ==
  /\ at = "select" /\ at' = "command"
  /\ UNCHANGED <<child, proc, sentinels, ticking, back, cur, todo, history>>

(***************************************************************************)
(* status_notify.                                                          *)
(***************************************************************************)
\* Plausible bug: p->update_tick is forgotten.
NotifyAgain(p) ==
  /\ at = "notify" /\ p \in todo
  /\ todo' = todo \ {p}
  /\ IF proc[p].listed /\ proc[p].event
       THEN cur' = p /\ at' = IF proc[p].infd THEN "drain" ELSE "report"
       ELSE UNCHANGED <<cur, at>>
  /\ UNCHANGED <<child, proc, sentinels, ticking, back, history>>

NotifyNext(p) ==
  /\ at = "notify" /\ p \in todo
  /\ todo' = todo \ {p}
  /\ IF proc[p].listed /\ proc[p].event
       THEN /\ proc' = [proc EXCEPT ![p].event = FALSE]
            /\ cur' = p
            /\ at' = IF proc[p].infd THEN "drain" ELSE "report"
       ELSE UNCHANGED <<proc, cur, at>>
  /\ UNCHANGED <<child, sentinels, ticking, back, history>>

Drain == at = "drain" /\ proc[cur].infd /\ Read(cur, "drain")

\* Plausible bug: one read, as in the wait.
DrainedOnce ==
  /\ at = "drain" /\ at' = "report"
  /\ UNCHANGED <<child, proc, sentinels, ticking, back, cur, todo, history>>

Drained ==
  /\ at = "drain" /\ (proc[cur].infd => child[cur].unread = 0)
  /\ at' = "report"
  /\ UNCHANGED <<child, proc, sentinels, ticking, back, cur, todo, history>>

\* The burial of a process with this status, and the message: for its sentinel,
\* which is taken away while it runs, or else in its buffer.
Report(o) ==
  /\ \E buried \in Buried(o) : proc' = [proc EXCEPT ![cur] = buried]
  /\ IF Tells(cur, o.status) THEN Told(cur, o.status) ELSE UNCHANGED <<heard, deaths>>
  /\ at' = IF cur \in sentinels THEN "sentinel" ELSE "notify"
  /\ sentinels' = sentinels \ {cur}

\* The first half of update_status, where there is something to do.
ReadRawStatus ==
  /\ at = "report"
  /\ IF proc[cur].raw = "none"
       THEN Report(proc[cur])
       ELSE /\ proc' = [proc EXCEPT ![cur].status = proc[cur].raw]
            /\ at' = "clear"
            /\ UNCHANGED <<sentinels, heard, deaths>>
  /\ UNCHANGED <<child, ticking, back, cur, todo, excused>>

ClearRawStatus ==
  /\ at = "clear"
  /\ Report([proc[cur] EXCEPT !.raw = "none"])
  /\ UNCHANGED <<child, ticking, back, cur, todo, excused>>

\* update_tick = process_tick
NotifyEnd ==
  /\ at = "notify" /\ todo = {}
  /\ ticking' = FALSE /\ at' = "top" /\ cur' = Nobody
  /\ excused' = excused \cup
       {<<p, "overtaken">> : p \in {q \in Processes :
                                      proc[q].listed /\ proc[q].event}}
  /\ UNCHANGED <<child, proc, sentinels, back, todo, heard, deaths>>

(***************************************************************************)
(* A filter or a sentinel returns, or signals an error, which goes to the  *)
(* command loop.  Only a sentinel that returns is put back.                *)
(***************************************************************************)
FilterReturns ==
  /\ at = "filter" /\ at' = back
  /\ back' = "command"
  /\ UNCHANGED <<child, proc, sentinels, ticking, cur, todo, history>>

SentinelReturns ==
  /\ at = "sentinel" /\ at' = "notify" /\ sentinels' = sentinels \cup {cur}
  /\ UNCHANGED <<child, proc, ticking, back, cur, todo, history>>

LispError ==
  /\ at \in {"filter", "sentinel"} /\ at' = "command"
  /\ todo' = {} /\ cur' = Nobody /\ back' = "command"
  /\ CASE Draining -> Excuse(cur, "thrown")
       [] at = "sentinel" /\ cur \notin Buffered -> Excuse(cur, "silenced")
       [] OTHER -> UNCHANGED excused
  /\ UNCHANGED <<child, proc, sentinels, ticking, heard, deaths>>

WaitLoop ==
  BeginNotify \/ GoOnToSelect \/ SelectTimesOut
    \/ \E p \in Processes : SelectReads(p)
StatusNotify ==
  \/ \E p \in Processes : NotifyNext(p)
  \/ Drain \/ Drained \/ ReadRawStatus \/ ClearRawStatus \/ NotifyEnd

Next ==
  \/ \E p \in Processes :
       \/ Output(p) \/ Stop(p) \/ Resume(p) \/ Die(p) \/ SigChld(p)
       \/ StartProcess(p) \/ DeleteProcess(p) \/ ContinueProcess(p)
       \/ SendProcess(p)
  \/ BeginWait \/ WaitLoop \/ KeyTyped \/ StatusNotify
  \/ FilterReturns \/ SentinelReturns \/ LispError

(***************************************************************************)
(* The kernel delivers signals, select returns, the code runs on, Lisp     *)
(* returns, not always by an error, and the user pauses now and then: the  *)
(* keyboard does not keep Emacs from everything else for ever.             *)
(***************************************************************************)
Fairness ==
  /\ \A p \in Processes : WF_vars(SigChld(p)) /\ SF_vars(SelectReads(p))
  /\ WF_vars(BeginWait) /\ SF_vars(BeginNotify)
  /\ WF_vars(GoOnToSelect) /\ WF_vars(SelectTimesOut)
  /\ WF_vars(StatusNotify)
  /\ SF_vars(FilterReturns) /\ SF_vars(SentinelReturns)

Spec == Init /\ [][Next]_vars /\ Fairness

-----------------------------------------------------------------------------
(***************************************************************************)
(* The types, and that select is only asked about open descriptors: with   *)
(* another, EBADF, it makes Emacs abort (process.c:1760-1768).             *)
(***************************************************************************)
TypeOK ==
  /\ child \in [Processes -> Child]
  /\ proc \in [Processes -> Object] /\ sentinels \subseteq Processes
  /\ ticking \in BOOLEAN
  /\ at \in {"command", "filter", "sentinel", "top", "select", "notify",
             "drain", "report", "clear"}
  /\ back \in {"command", "top", "drain"}
  /\ cur \in Processes \cup {Nobody} /\ todo \subseteq Processes
  /\ heard \in [Processes -> {"run", "stop", "exit"}]
  /\ deaths \in [Processes -> 0 .. 2]
  /\ excused \subseteq Processes \X Excuses
  /\ \A p \in Processes : proc[p].mask => proc[p].infd

(***************************************************************************)
(* Nobody hears that a process has ended before he has got everything it   *)
(* wrote ("If process is still active, read any output that remains").     *)
(***************************************************************************)
OutputBeforeNotice ==
  \A p \in Processes :
    heard[p] = "exit" /\ ~Has(p, {"broken", "late"}) => child[p].unread = 0

(***************************************************************************)
(* An event nobody was told of keeps the two ticks apart: it is what makes *)
(* the wait look at the processes at all.                                  *)
(***************************************************************************)
EventsTick ==
  \A p \in Processes :
    proc[p].listed /\ proc[p].event => ticking \/ Has(p, {"overtaken"})

\* The end of a process is announced once, however it came.
AnnouncedOnce ==
  \A p \in Processes : deaths[p] <= 1 \/ Has(p, {"midway", "late", "broken", "recursive"})

(***************************************************************************)
(* Whoever has a process is told of its end, unless he deletes it, in      *)
(* whatever order output, signals and events of other processes come: if   *)
(* no child writes for ever, which keeps the wait from looking for events  *)
(* at all.                                                                 *)
(***************************************************************************)
StopsWriting(p) == <>[][~Output(p)]_vars
DeathIsReported ==
  (\A p \in Processes : StopsWriting(p)) =>
    \A p \in Processes :
      child[p].state = "dead" /\ proc[p].listed
        ~> heard[p] = "exit" \/ ~proc[p].listed
             \/ Has(p, {"overtaken", "erased", "revived", "thrown", "silenced"})
==============================================================================
