------------------------------ MODULE Matcher ------------------------------
(***************************************************************************)
(* Searching for a compiled regular expression (regex.c): the fastmap says *)
(* which characters a match may begin with, and the matcher runs the       *)
(* commands over the text, which is in two strings on either side of the   *)
(* gap, and backtracks by a stack of failure points.                       *)
(*                                                                         *)
(* What compiles the pattern is Regex; here the result is given.  Addresses *)
(* count commands and the characters after an exactn, not bytes.           *)
(* Registers are not modelled, nor is \1 .. \9, nor the commands about     *)
(* words, syntax, point and the ends of the buffer.                        *)
(***************************************************************************)
EXTENDS Integers, Sequences, SequencesExt, FiniteSets

CONSTANTS
  Program,     \* what the patterns searched for are compiled to: the commands
               \* as code, the fastmap and can_be_null as fast
  Texts,       \* where is searched: sequences of characters
  Gaps,        \* sizes of the first string
  MaxFailures  \* failure points on the stack before re_match gives up

Newline == "nl"
Characters == {"a", "b", Newline}

\* A command, with a number and a set of characters to match any of.  A jump
\* has the distance from the command after it, so that code moves with the
\* jumps inside it; an exactn has the number of characters after it.
Cell(op, n, cs) == [op |-> op, n |-> n, cs |-> cs]
Target(c, i) == i + 1 + c[i].n
Jumps == {"jump", "on_failure_jump", "maybe_finalize_jump", "dummy_failure_jump"}
IsCode(c) ==
  /\ c \in Seq([op : STRING, n : Int, cs : SUBSET Characters])
  /\ \A q \in DOMAIN c :
       /\ c[q].op = "exactn" => c[q].n >= 0 /\ q + c[q].n <= Len(c)
       /\ c[q].op \in Jumps => Target(c, q) \in 1 .. Len(c) + 1

MatcherAssumption ==
  /\ \A x \in DOMAIN Program : IsCode(Program[x].code)
  /\ Texts \subseteq Seq(Characters)
  /\ Gaps \subseteq Nat /\ MaxFailures \in Nat

VARIABLES
  pattern, text, size1, direction, \* what is searched for, where and how
  code, fast,          \* the compiled pattern; its fastmap and can_be_null
  startpos, range,     \* of re_search
  p, d, seg, failures, \* of re_match; seg says to which string dend belongs
  result               \* "searching", "matching", "none", "overflow", or
                       \* "found" from startpos to d

matcherVars == <<pattern, text, size1, direction, code, fast, startpos, range,
               p, d, seg, failures, result>>

-----------------------------------------------------------------------------
(***************************************************************************)
(* maybe_finalize_jump: is it clear from what follows that to have made    *)
(* fewer rounds would be of no use?                                        *)
(***************************************************************************)
Finalizes(c, q) ==
  q < Len(c) =>
     /\ c[q + 1].op \in {"exactn", "endline"}
     /\ LET follows == IF c[q + 1].op = "endline" THEN {Newline}
                       ELSE c[q + 2].cs
            body == Target(c, q) + 1
        IN \/ c[body].op = "exactn" /\ c[body + 1].cs # follows
           \/ c[body].op = "charset" /\ follows \cap c[body].cs = {}

-----------------------------------------------------------------------------
MatcherInit ==
  /\ pattern \in DOMAIN Program /\ text \in Texts
  /\ direction \in {"forward", "backward"}
  /\ \E gap \in Gaps : size1 = IF gap < Len(text) THEN gap ELSE 0
  /\ code = Program[pattern].code /\ fast = Program[pattern].fast
  /\ startpos = IF direction = "forward" THEN 0 ELSE Len(text)
  /\ range = IF direction = "forward" THEN Len(text) ELSE 0 - Len(text)
  /\ p = 1 /\ d = 0 /\ seg = 1 /\ failures = <<>>
  /\ result = "searching"

Total == Len(text)
InFastmap(i) == text[i + 1] \in fast.map

\* How far re_search runs over characters not in the fastmap: not out of the
\* first string.
Skipped ==
  LET lim == IF startpos < size1 /\ startpos + range >= size1
             THEN size1 - startpos ELSE range
  IN Min({n \in 0 .. lim : n = lim \/ InFastmap(startpos + n)})

\* The next place, if there is one.
Advance(at, left) ==
  IF left = 0 THEN result' = "none" /\ UNCHANGED <<startpos, range>>
  ELSE /\ result' = "searching"
       /\ startpos' = at + (IF left > 0 THEN 1 ELSE -1)
       /\ range' = left + (IF left > 0 THEN -1 ELSE 1)

MatchFrom(at, left) ==
  IF left >= 0 /\ at = Total /\ fast.null = 0
  THEN result' = "none" /\ UNCHANGED <<startpos, range, p, d, seg, failures>>
  ELSE /\ result' = "matching" /\ startpos' = at /\ range' = left
       /\ p' = 1 /\ d' = at /\ failures' = <<>>
       /\ seg' = IF at <= size1 THEN 1 ELSE 2

\* re_search_2, up to the next call of re_match_2.
Search ==
  /\ result = "searching"
  /\ IF fast.null = 1 \/ startpos = Total THEN MatchFrom(startpos, range)
     ELSE IF range > 0 THEN MatchFrom(startpos + Skipped, range - Skipped)
     ELSE IF InFastmap(startpos) THEN MatchFrom(startpos, range)
     ELSE Advance(startpos, range) /\ UNCHANGED <<p, d, seg, failures>>
  /\ UNCHANGED <<pattern, text, size1, direction, code, fast>>

-----------------------------------------------------------------------------
\* Those that are not dummies.
Live == {n \in DOMAIN failures : failures[n].p # 0}

\* Plausible bug: dend stays where it was.
FailKeepingEnd ==
  IF Live = {}
  THEN /\ Advance(startpos, range) /\ failures' = <<>>
       /\ UNCHANGED <<p, d, seg>>
  ELSE LET n == Max(Live)
       IN /\ p' = failures[n].p /\ d' = failures[n].d
          /\ failures' = SubSeq(failures, 1, n - 1)
          /\ UNCHANGED <<seg, startpos, range, result>>

\* fail: back to the last failure point that is not a dummy.
Fail ==
  IF Live = {}
  THEN /\ Advance(startpos, range) /\ failures' = <<>>
       /\ UNCHANGED <<p, d, seg>>
  ELSE LET n == Max(Live)
       IN /\ p' = failures[n].p /\ d' = failures[n].d
          /\ seg' = IF failures[n].d <= size1 THEN 1 ELSE seg
          /\ failures' = SubSeq(failures, 1, n - 1)
          /\ UNCHANGED <<startpos, range, result>>

\* On to the command q, n characters further.
GoOn(q, n) ==
  /\ p' = q /\ d' = d + n
  /\ seg' = IF n > 0 /\ d + n > size1 THEN 2 ELSE seg
  /\ UNCHANGED <<startpos, range, result>>

GoOnIf(cond, q, n) ==
  IF cond THEN GoOn(q, n) /\ UNCHANGED failures ELSE Fail

Op == code[p].op

MatchExactn ==
  /\ Op = "exactn"
  /\ LET n == code[p].n
     IN GoOnIf(/\ d + n <= Total
               /\ \A k \in 1 .. n : text[d + k] \in code[p + k].cs,
               p + 1 + n, n)

MatchCharset ==
  /\ Op = "charset" /\ GoOnIf(d < Total /\ text[d + 1] \in code[p].cs, p + 1, 1)

MatchLineEnds ==
  \/ Op = "begline" /\ GoOnIf(d = 0 \/ text[d] = Newline, p + 1, 0)
  \/ Op = "endline" /\ GoOnIf(d = Total \/ text[d + 1] = Newline, p + 1, 0)

MatchMemory ==
  /\ Op \in {"start_memory", "stop_memory"}
  /\ GoOn(p + 1, 0) /\ UNCHANGED failures

OnFailureJump ==
  /\ Op = "on_failure_jump"
  /\ IF Len(failures) >= MaxFailures
     THEN result' = "overflow" /\ UNCHANGED <<p, d, seg, failures, startpos, range>>
     ELSE /\ failures' = Append(failures, [p |-> Target(code, p), d |-> d])
          /\ GoOn(p + 1, 0)

\* The failure point that a finalize_jump throws away is the last.
DoJump ==
  \/ /\ Op \in {"jump", "maybe_finalize_jump"}
     /\ Op = "maybe_finalize_jump" => ~Finalizes(code, p)
     /\ GoOn(Target(code, p), 0) /\ UNCHANGED failures
  \/ /\ Op = "maybe_finalize_jump" /\ Finalizes(code, p)
     /\ GoOn(Target(code, p), 0) /\ failures' = Front(failures)
  \/ /\ Op = "dummy_failure_jump"
     /\ GoOn(Target(code, p), 0) /\ failures' = Append(failures, [p |-> 0, d |-> 0])

Succeed ==
  /\ result' = "found" /\ UNCHANGED <<p, d, seg, failures, startpos, range>>

\* re_match_2, one command.
Match ==
  /\ result = "matching"
  /\ IF p = Len(code) + 1 THEN Succeed
     ELSE \/ MatchExactn \/ MatchCharset \/ MatchLineEnds \/ MatchMemory
          \/ OnFailureJump \/ DoJump
          \* Not a command: a loop was put inside an exactn.
          \/ Op = "char" /\ Fail
  /\ UNCHANGED <<pattern, text, size1, direction, code, fast>>

MatcherNext == Search \/ Match
MatcherSpec == MatcherInit /\ [][MatcherNext]_matcherVars
-----------------------------------------------------------------------------
(***************************************************************************)
(* d points into the string to which dend belongs, after any backtracking, *)
(* and never to the beginning of the second (regex.c:1127 "it cannot equal *)
(* string2"): so no character of the gap is read.                          *)
(***************************************************************************)
StaysInString ==
  result = "matching" =>
    /\ seg = 1 => d <= size1
    /\ seg = 2 => d > size1
    /\ \A n \in DOMAIN failures : failures[n].p # 0 => failures[n].d <= d
=============================================================================
