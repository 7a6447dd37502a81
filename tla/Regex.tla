------------------------------- MODULE Regex -------------------------------
(***************************************************************************)
(* Regular expressions (regex.c): what a pattern matches, to which commands *)
(* it is compiled and which fastmap they get.  Matcher runs them; here is  *)
(* said what it should find.                                               *)
(***************************************************************************)
EXTENDS Matcher

CONSTANT NREGS \* RE_NREGS: one more than the groups that are recorded

RegexAssumption == NREGS \in Nat

-----------------------------------------------------------------------------
(***************************************************************************)
(* What a pattern matches: the places where a match that begins at i may   *)
(* end, in the order in which they are tried.  Of cs a "lit" and a "set"   *)
(* match any member; the others are made of kids.                          *)
(***************************************************************************)
Node(k, cs, kids) == [k |-> k, cs |-> cs, kids |-> kids]
Lit(c) == Node("lit", {c}, <<>>)
Set(cs) == Node("set", cs, <<>>)
Eol == Node("eol", {}, <<>>)
Bol == Node("bol", {}, <<>>)
Group(x) == Node("group", {}, <<x>>)
Repeat(k, x) == Node(k, {}, <<x>>)
InOrder(xs) == Node("seq", {}, xs)
OneOf(xs) == Node("alt", {}, xs)

RECURSIVE Matches(_, _, _)
RECURSIVE MatchesAll(_, _, _)
Then(is, Rest(_)) == FlattenSeq([n \in DOMAIN is |-> Rest(is[n])])
MatchesAll(xs, t, i) ==
  IF xs = <<>> THEN <<i>>
  ELSE Then(Matches(Head(xs), t, i), LAMBDA j : MatchesAll(Tail(xs), t, j))
Matches(x, t, i) ==
  LET If(cond, j) == IF cond THEN <<j>> ELSE <<>>
      Some == SelectSeq(Matches(x.kids[1], t, i), LAMBDA j : j > i)
      More(is) == Then(is, LAMBDA j : Matches(Repeat("star", x.kids[1]), t, j))
  IN CASE x.k \in {"lit", "set"} ->
            If(i < Len(t) /\ t[i + 1] \in x.cs, i + 1)
       [] x.k = "eol" -> If(i = Len(t) \/ t[i + 1] = Newline, i)
       [] x.k = "bol" -> If(i = 0 \/ t[i] = Newline, i)
       [] x.k = "group" -> Matches(x.kids[1], t, i)
       [] x.k = "seq" -> MatchesAll(x.kids, t, i)
       [] x.k = "alt" ->
            FlattenSeq([n \in DOMAIN x.kids |-> Matches(x.kids[n], t, i)])
       [] x.k = "opt" -> Matches(x.kids[1], t, i) \o <<i>>
       [] x.k = "star" -> More(Some) \o <<i>>
       [] x.k = "plus" -> More(Matches(x.kids[1], t, i))

\* The pattern as the user types it.
RECURSIVE Tokens(_)
Tokens(x) ==
  LET Sign(t) == <<[t |-> t, cs |-> {}]>>
      Of == [n \in DOMAIN x.kids |-> Tokens(x.kids[n])]
  IN CASE x.k \in {"lit", "set", "eol", "bol"} -> <<[t |-> x.k, cs |-> x.cs]>>
       [] x.k = "group" -> Sign("(") \o Of[1] \o Sign(")")
       [] x.k = "seq" -> FlattenSeq(Of)
       [] x.k = "alt" ->
            FlattenSeq([n \in DOMAIN Of |->
                          IF n = 1 THEN Of[n] ELSE Sign("|") \o Of[n]])
       [] OTHER -> Of[1] \o Sign(x.k)

-----------------------------------------------------------------------------
(***************************************************************************)
(* re_compile_pattern.  A pointer of the C code is an address here, 0 for  *)
(* none; b is the address after the code.                                  *)
(***************************************************************************)
Jump(op, from, to) == Cell(op, to - (from + 1), {})

b(s) == Len(s.code) + 1
Push(s, cell) == [s EXCEPT !.code = Append(@, cell)]
\* store_jump and insert_jump
StoreJump(c, op, from, to) == [c EXCEPT ![from] = Jump(op, from, to)]
InsertJump(c, op, from, to) ==
  SubSeq(c, 1, from - 1) \o <<Jump(op, from, to)>> \o SubSeq(c, from, Len(c))

\* The jump that ends the alternative before, if there is one, goes to the end.
Fixed(s) ==
  IF s.fixup = 0 THEN s
  ELSE [s EXCEPT !.code = StoreJump(@, "jump", s.fixup, b(s)), !.fixup = 0]

\* Characters in a row are one exactn, but for one that is to be repeated.
NormalChar(s, cs, next) ==
  LET new == \/ s.pending = 0
             \/ s.pending + s.code[s.pending].n + 1 # b(s)
             \/ next \in {"star", "plus", "opt", "bol"}
      o == IF new THEN [Push(s, Cell("exactn", 0, {})) EXCEPT
                          !.last = b(s), !.pending = b(s)]
           ELSE s
  IN Push([o EXCEPT !.code[o.pending].n = @ + 1], Cell("char", 0, cs))

OpenGroup(s) ==
  LET o == IF s.regnum < NREGS THEN Push(s, Cell("start_memory", 0, {})) ELSE s
  IN [o EXCEPT !.groups =
                 Append(@, [b |-> b(o), fixup |-> s.fixup, regnum |-> s.regnum,
                            begalt |-> s.begalt]),
               !.regnum = @ + 1, !.fixup = 0, !.last = 0, !.begalt = b(o)]

CloseGroup(s) ==
  LET g == Last(s.groups)
      o == Fixed(s)
  IN [(IF g.regnum < NREGS THEN Push(o, Cell("stop_memory", 0, {})) ELSE o)
        EXCEPT !.groups = Front(@), !.begalt = g.begalt, !.fixup = g.fixup,
               !.last = g.b]

\* handle_bar: the alternative gets a failure point before it, and after it a
\* place for a jump, to which the jump of the alternative before leads.
Bar(s) ==
  LET o == [s EXCEPT !.code =
              InsertJump(@, "on_failure_jump", s.begalt, b(s) + 2)]
      f == Push(Fixed(o), Cell("unused", 0, {}))
  IN [f EXCEPT !.fixup = b(o), !.pending = 0, !.last = 0, !.begalt = b(f)]

\* Plausible bug: + does not skip the failure point of its first round.
LoopUnskipped(s, kinds) ==
  LET many == kinds # {"opt"}
      o == IF many THEN Push(s, Jump("maybe_finalize_jump", b(s), s.last - 1))
           ELSE s
  IN [o EXCEPT !.pending = 0,
        !.code = InsertJump(@, "on_failure_jump", s.last, b(o) + 1)]

\* Repetition signs in a row are like one.
Loop(s, kinds) ==
  LET many == kinds # {"opt"}
      o == IF many THEN Push(s, Jump("maybe_finalize_jump", b(s), s.last - 1))
           ELSE s
      f == [o EXCEPT !.pending = 0,
              !.code = InsertJump(@, "on_failure_jump", s.last, b(o) + 1)]
  IN IF kinds # {"plus"} THEN f
     ELSE [f EXCEPT !.code =
             InsertJump(@, "dummy_failure_jump", s.last, s.last + 2)]

RECURSIVE CompileFrom(_, _)
CompileFrom(s, ts) ==
  IF ts = <<>> THEN Fixed(s)
  ELSE LET t == Head(ts)
           rest == Tail(ts)
           Plain(cell) == [Push(s, cell) EXCEPT !.last = b(s)]
           rounds == 1 + CHOOSE n \in 0 .. Len(rest) :
                       /\ \A m \in 1 .. n : rest[m].t \in {"star", "plus", "opt"}
                       /\ n < Len(rest) =>
                            rest[n + 1].t \notin {"star", "plus", "opt"}
       IN CASE t.t = "lit" ->
                 CompileFrom(NormalChar(s, t.cs,
                               IF rest = <<>> THEN "end" ELSE rest[1].t), rest)
            [] t.t = "set" -> CompileFrom(Plain(Cell("charset", 0, t.cs)), rest)
            [] t.t = "eol" -> CompileFrom(Push(s, Cell("endline", 0, {})), rest)
            [] t.t = "bol" -> CompileFrom(Push(s, Cell("begline", 0, {})), rest)
            [] t.t = "(" -> CompileFrom(OpenGroup(s), rest)
            [] t.t = ")" -> CompileFrom(CloseGroup(s), rest)
            [] t.t = "|" -> CompileFrom(Bar(s), rest)
            [] OTHER ->
                 CompileFrom(
                   Loop(s, {ts[n].t : n \in 1 .. rounds}),
                   SubSeq(ts, rounds + 1, Len(ts)))

Compiled(x) ==
  CompileFrom([code |-> <<>>, pending |-> 0, fixup |-> 0, last |-> 0,
               begalt |-> 1, regnum |-> 1, groups |-> <<>>], Tokens(x)).code

-----------------------------------------------------------------------------
(***************************************************************************)
(* re_compile_fastmap: all the ways into the pattern are followed up to    *)
(* the first character.  null is can_be_null: 1 if a match may be empty or *)
(* that is not clear, 2 if at the end of a line only.                      *)
(***************************************************************************)
RECURSIVE FastFrom(_, _, _, _, _)
FastFrom(c, q, stack, map, null) ==
  LET NextWay(m, n) ==
        IF stack = <<>> THEN [map |-> m, null |-> n]
        ELSE FastFrom(c, Last(stack), Front(stack), m, n)
      to == Target(c, q)
      after == Target(c, to)
  IN IF q = Len(c) + 1 THEN [map |-> map, null |-> 1]
     ELSE CASE c[q].op = "exactn" -> NextWay(map \cup c[q + 1].cs, null)
            [] c[q].op = "charset" -> NextWay(map \cup c[q].cs, null)
            [] c[q].op = "endline" ->
                 NextWay(map \cup {Newline}, IF null = 1 THEN 1 ELSE 2)
            [] c[q].op \in {"start_memory", "stop_memory", "begline"} ->
                 FastFrom(c, q + 1, stack, map, null)
            [] c[q].op = "on_failure_jump" ->
                 FastFrom(c, q + 1, Append(stack, to), map, null)
            [] OTHER ->
                 IF c[q].n > 0 \/ to = Len(c) + 1 \/ c[to].op # "on_failure_jump"
                 THEN FastFrom(c, to, stack, map, 1)
                 ELSE FastFrom(c, after,
                        IF stack # <<>> /\ Last(stack) = after
                        THEN Front(stack) ELSE stack, map, 1)

Fastmap(c) == FastFrom(c, 1, <<>>, {}, 0)

-----------------------------------------------------------------------------
\* Where the search should end: at the first place, in its direction, where
\* the pattern matches, with the match that is tried first.
Places == {i \in 0 .. Total : Matches(pattern, text, i) # <<>>}
Right ==
  IF Places = {} THEN result = "none"
  ELSE /\ result = "found" /\ startpos \in Places
       /\ \A i \in Places : IF direction = "forward" THEN startpos <= i
                            ELSE startpos >= i
       /\ d = Matches(pattern, text, startpos)[1]

RECURSIVE MatchesEmpty(_)
MatchesEmpty(x) ==
  \/ x.k \in {"star", "opt", "eol", "bol"}
  \/ x.k \in {"group", "plus"} /\ MatchesEmpty(x.kids[1])
  \/ x.k = "seq" /\ \A n \in DOMAIN x.kids : MatchesEmpty(x.kids[n])
  \/ x.k = "alt" /\ \E n \in DOMAIN x.kids : MatchesEmpty(x.kids[n])

\* A repeat of what may be empty: the matcher may go round for ever.
RECURSIVE RepeatsEmpty(_)
RepeatsEmpty(x) ==
  \/ x.k \in {"star", "plus"} /\ MatchesEmpty(x.kids[1])
  \/ \E n \in DOMAIN x.kids : RepeatsEmpty(x.kids[n])
MayHang == RepeatsEmpty(pattern)

\* A repeat is finalized though there are failure points inside.
Hasty ==
  \E q \in DOMAIN code :
    /\ code[q].op = "maybe_finalize_jump" /\ q # Len(code)
    /\ Finalizes(code, q)
    /\ \E r \in Target(code, q) + 1 .. q - 1 : code[r].op = "on_failure_jump"

\* A group beyond those that are recorded begins in the middle of an exactn.
Groups(x) == Len(SelectSeq(Tokens(x), LAMBDA t : t.t = "("))

Searched == result \in {"none", "found", "overflow"}

(***************************************************************************)
(* Compiled, fastmap, two strings, failure points and finalized repeats    *)
(* come to what the pattern means.  That excludes the patterns for which   *)
(* regex.c is wrong: see Hasty, MayHang and Groups.                      *)
(***************************************************************************)
FindsMeaning ==
  Searched => Right \/ MayHang \/ Hasty \/ Groups(pattern) >= NREGS

(***************************************************************************)
(* regex.h:130 "we can be sure that there is no use backtracking out of    *)
(* repetitions already completed": not if they have failure points inside. *)
(***************************************************************************)
FinalizesOnlyIfSafe ==
  Searched => Right \/ MayHang \/ Groups(pattern) >= NREGS

=============================================================================
