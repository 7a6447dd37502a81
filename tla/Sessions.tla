------------------------------ MODULE Sessions ------------------------------
(***************************************************************************)
(* Parts that do not interact in this model, checked in one run: which of  *)
(* them is used is chosen in the beginning, and the variables of the others *)
(* keep the value Idle.  The state space is the sum of theirs, and each    *)
(* property is that of one module, while it is used.                       *)
(*                                                                         *)
(* Here are the six that are proved about; MCSessions adds the windows.    *)
(***************************************************************************)
EXTENDS Naturals, Sequences

CONSTANTS
  \* Things of different modules that TLC may exchange are the same here:
  Buffers,  \* of BufferLocals, Windows and Holo; what runs movemail
  Values,   \* of BufferLocals; the markers of Holo
  NoValue,  \* of BufferLocals; nil in Holo; nobody in Movemail
  MaxDepth,
  MaxText,
  BufferList, Large, MaxModiff, MaxChanges,
  MaxSent,
  Tags, Conditions, max_lisp_eval_depth, MaxStack,
  Program, Subjects, Gaps, MaxFailures

VARIABLES
  session,                                        \* the module that is used
  sym, selected, bindings, unused,                \* BufferLocals
  contents, point, chain, place, current, outside,\* Holo
  buf, disk, copy, at, todo,                      \* AutoSave
  auto_saving, leaving, fatal, exposed,
  inbox, newmail, babyl, unsaved,                 \* Movemail
  rmail, caller, mover, mailer, sent, lock, accident,
  stack, specpdl, lists,                          \* Eval
  pattern, subject, size1, direction, compiled,   \* Matcher
  fast, startpos, range, pc, dp, seg, failures, result

Locals == INSTANCE BufferLocals WITH current <- selected, stack <- bindings
Holo == INSTANCE Holo WITH Markers <- Values, Nowhere <- NoValue, text <- contents
AutoSave == INSTANCE AutoSave
Mail == INSTANCE Movemail WITH Movers <- Buffers, Nobody <- NoValue
Eval == INSTANCE Eval
Matcher == INSTANCE Matcher WITH
  Texts <- Subjects, text <- subject, code <- compiled, p <- pc, d <- dp

ASSUME SessionsAssumption ==
  /\ Locals!BufferLocalsAssumption /\ Locals!Abstract!VariablesAssumption
  /\ Holo!HoloAssumption
  /\ AutoSave!AutoSaveAssumption /\ Mail!MovemailAssumption
  /\ Eval!EvalAssumption /\ Matcher!MatcherAssumption

localVars == <<sym, selected, bindings, unused>>
holoVars == <<contents, point, chain, place, current, outside>>
autoVars == <<buf, disk, copy, at, todo, auto_saving, leaving, fatal, exposed>>
mailVars == <<inbox, newmail, babyl, unsaved, rmail, caller, mover, mailer, sent,
              lock, accident>>
evalVars == <<stack, specpdl, lists>>
matcherVars == <<pattern, subject, size1, direction, compiled, fast, startpos,
                 range, pc, dp, seg, failures, result>>
sessionsVars ==
  <<session, localVars, holoVars, autoVars, mailVars, evalVars, matcherVars>>

Idle == "idle"
LocalsIdle == sym = Idle /\ selected = Idle /\ bindings = Idle /\ unused = Idle
HoloIdle ==
  /\ contents = Idle /\ point = Idle /\ chain = Idle
  /\ place = Idle /\ current = Idle /\ outside = Idle
AutoIdle ==
  /\ buf = Idle /\ disk = Idle /\ copy = Idle /\ at = Idle /\ todo = Idle
  /\ auto_saving = Idle /\ leaving = Idle /\ fatal = Idle /\ exposed = Idle
MailIdle ==
  /\ inbox = Idle /\ newmail = Idle /\ babyl = Idle /\ unsaved = Idle
  /\ rmail = Idle /\ caller = Idle /\ mover = Idle /\ mailer = Idle
  /\ sent = Idle /\ lock = Idle /\ accident = Idle
EvalIdle == stack = Idle /\ specpdl = Idle /\ lists = Idle
MatcherIdle ==
  /\ pattern = Idle /\ subject = Idle /\ size1 = Idle /\ direction = Idle
  /\ compiled = Idle /\ fast = Idle /\ startpos = Idle /\ range = Idle
  /\ pc = Idle /\ dp = Idle /\ seg = Idle /\ failures = Idle /\ result = Idle

SessionsInit ==
  /\ IF session = "locals" THEN Locals!LocalsInit ELSE LocalsIdle
  /\ IF session = "holo" THEN Holo!HoloInit ELSE HoloIdle
  /\ IF session = "auto" THEN AutoSave!AutoInit ELSE AutoIdle
  /\ IF session = "mail" THEN Mail!MailInit ELSE MailIdle
  /\ IF session = "eval" THEN Eval!EvalInit ELSE EvalIdle
  /\ IF session = "regex" THEN Matcher!MatcherInit ELSE MatcherIdle

SessionsNext ==
  /\ session' = session
  /\ IF session = "locals" THEN Locals!LocalsNext ELSE UNCHANGED localVars
  /\ IF session = "holo" THEN Holo!HoloNext ELSE UNCHANGED holoVars
  /\ IF session = "auto" THEN AutoSave!AutoNext ELSE UNCHANGED autoVars
  /\ IF session = "mail" THEN Mail!MailNext ELSE UNCHANGED mailVars
  /\ IF session = "eval" THEN Eval!EvalNext ELSE UNCHANGED evalVars
  /\ IF session = "regex" THEN Matcher!MatcherNext ELSE UNCHANGED matcherVars

SessionsSpec == SessionsInit /\ [][SessionsNext]_sessionsVars
-----------------------------------------------------------------------------
\* BufferLocals implements Variables: that values are swapped in and out of a
\* symbol's value cell as buffers are selected is never noticed.
SwappingUnnoticed ==
  /\ session = "locals" => Locals!Abstract!VarInit
  /\ [][session = "locals" => Locals!AbstractStep]_sessionsVars
\* C finds the value of the current buffer in a variable, unless it was made
\* local or killed and not looked up since.
SetUpForC == session = "locals" => Locals!SetUpForCurrentBuffer
\* A let restores what every buffer saw, if it ends where it began.
LetsRestore == [][session = "locals" => Locals!Abstract!LetRestores]_sessionsVars

\* Point and markers stay within the text of holomacs's buffers.
PositionsInText == session = "holo" => Holo!PointAndMarkersInText
\* Markers stay between the characters they were between, and what is inserted
\* at one comes after it, except in the buffers that are outside.
MarkersKeepPlace == [][session = "holo" => Holo!KeepsPlaces]_sessionsVars

\* What is taken for auto-saved can be read from a file, and on leaving all can.
ChangesAreKept == session = "auto" => AutoSave!KeepsChanges

\* A message is in the inbox, in the file on its way or in that of Rmail.
MailIsKept == session = "mail" => Mail!KeepsMail

\* The lists of catches, handlers and calls are those of the frames that exist.
ListsMatchStack == session = "eval" => Eval!ListsAreOfStack
\* No unwind-protect goes before its forms have been begun, or refused.
UnwindFormsRun == [][session = "eval" => Eval!RunsUnwindForms]_sessionsVars

\* The matcher never reads the gap between its two strings.
PointsIntoItsString == session = "regex" => Matcher!StaysInString
=============================================================================
