------------------------------ MODULE MCRegex ------------------------------
\* Regex with small patterns: two things in a group, in order or as
\* alternatives, the group itself repeated, and something after it.
EXTENDS Regex

Signs == {"star", "plus", "opt"}
BOrNewline == Set({"b", Newline})
Items == {Lit("b"), BOrNewline} \cup {Repeat(k, Lit("b")) : k \in Signs}
OneGroup ==
  {Group(InOrder(<<Lit("a"), y>>)) : y \in Items}
  \cup {Group(OneOf(<<x, Lit("a")>>)) : x \in Items \cup {InOrder(<<>>)}}
Repeated == OneGroup \cup {Repeat(k, x) : k \in Signs, x \in OneGroup}
MCPatterns ==
  {InOrder(<<x, y>>) : x \in Repeated, y \in {Lit("b"), Eol, InOrder(<<>>)}}
  \cup {InOrder(<<Bol, BOrNewline, x>>) : x \in OneGroup}
  \cup {InOrder(<<Lit("a"), x, y>>) : x \in Items, y \in Items}
  \cup {OneOf(<<x, InOrder(<<y, Lit("a")>>)>>) : x \in Items, y \in Items}
MCTexts ==
  UNION {[1 .. n -> {"a", "b"}] : n \in 0 .. 3} \cup {<<"b", Newline, "a">>}
MCGaps == {1}
MCProgram ==
  [x \in MCPatterns |-> [code |-> Compiled(x), fast |-> Fastmap(Compiled(x))]]
=============================================================================
