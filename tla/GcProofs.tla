------------------------------ MODULE GcProofs ------------------------------
(***************************************************************************)
(* Proofs about the garbage collector, for any conses, slots, strings and  *)
(* sizes: what the program can reach is where it is looked for, and a      *)
(* collection takes what it cannot reach and nothing else.                 *)
(*                                                                         *)
(* The invariant (GcInv) has a part for every phase.  While objects are    *)
(* marked, the slots of each string are a chain, in the order in which     *)
(* they were marked; while strings are moved, those that the scan has      *)
(* passed are packed before it, and those before it are as they were.      *)
(***************************************************************************)
EXTENDS Gc, Induction

Links == {Size(n) : n \in Nat} \cup {Slot(s) : s \in Slots}
Chars == [id : Nat, size : Links]
Block == [pos : Nat, chars : UNION {[starts -> Chars] : starts \in SUBSET Nat}]
Values == {Number} \cup {ConsAt(c) : c \in Conses}
            \cup {Str(b, p) : b \in Nat, p \in Nat} \cup {LargeStr(i) : i \in Nat}
Words == Values \cup {Threaded(l) : l \in Links}
Larges == [id : Nat, mark : BOOLEAN]

\* Is there a string at position p of block b of bs?
Has(bs, b, p) == b \in 1 .. Len(bs) /\ p \in DOMAIN bs[b].chars
Id(bs, b, p) == bs[b].chars[p].id
Link(bs, b, p) == bs[b].chars[p].size

(***************************************************************************)
(* What there is while the program runs.                                   *)
(***************************************************************************)
IsHeap(v, bs) ==
  /\ v \in [Slots -> Values] /\ bs \in Seq(Block) /\ Len(bs) >= 1
  /\ \A b \in 1 .. Len(bs) : Packed(bs[b]) /\ bs[b].pos <= STRING_BLOCK_SIZE
  /\ \A b, p, c, q :
       Has(bs, b, p) /\ Has(bs, c, q) /\ Id(bs, b, p) = Id(bs, c, q) => b = c /\ p = q
  /\ \A s \in Slots : \A b, p : v[s] = Str(b, p) => Has(bs, b, p)
LargesThere(v) == \A s \in Slots : \A i : v[s] = LargeStr(i) => \E l \in large : l.id = i

(***************************************************************************)
(* The chain of the string at p of b: the slots in the order in which they *)
(* were marked, the last first.  link leads to the rest S of it, and from  *)
(* there to the size.                                                      *)
(***************************************************************************)
HeadOf(link, S, rank, size) ==
  \/ S = {} /\ link = size
  \/ \E s \in S : link = Slot(s) /\ \A u \in S : rank[u] <= rank[s]
Before(D, rank, s) == {u \in D : before.val[u] = before.val[s] /\ rank[u] < rank[s]}
SizeOf(s) == Link(before.blocks, before.val[s].at[1], before.val[s].at[2])
InChain(D, rank, s) ==
  \E l \in Links : val[s] = Threaded(l) /\ HeadOf(l, Before(D, rank, s), rank, SizeOf(s))
Refs(D, b, p) == {u \in D : before.val[u] = Str(b, p)}
Chained(D, rank, b, p) ==
  HeadOf(Link(blocks, b, p), Refs(D, b, p), rank, Link(before.blocks, b, p))

(***************************************************************************)
(* While objects are marked: D are the slots for which mark_object has been*)
(* called, in the order of rank.                                           *)
(***************************************************************************)
Tasks == [do : {"mark", "xmark"}, slot : Slots]
Pending == {s \in Slots : \E i \in 1 .. Len(calls) : calls[i] = Task("mark", s)}
BitPending(s) == \E i \in 1 .. Len(calls) : calls[i] = Task("xmark", s)
InNeed == ReachableIn(before.val)
Both(c) == {<<c, "car">>, <<c, "cdr">>}
BitSlot(s) == s \in StackSlots /\ <<2, s>> \notin visits

TasksOK(D) ==
  /\ calls \in Seq(Tasks)
  /\ \A i, j \in 1 .. Len(calls) : calls[i] = calls[j] /\ calls[i].do = "mark" => i = j
  /\ Pending \cap D = {}
  /\ \A i \in 1 .. Len(calls) : calls[i].do = "xmark" => BitSlot(calls[i].slot)
MarksOK(D) ==
  /\ D \cup Pending \subseteq InNeed
  /\ \A c \in Conses : IF <<c, "car">> \in marks THEN Both(c) \subseteq D \cup Pending
                       ELSE Both(c) \cap (D \cup Pending) = {}
  /\ \A s \in D : \A c : before.val[s] = ConsAt(c) => <<c, "car">> \in marks
VisitsOK(D) ==
  /\ visits \subseteq ({1} \X StaticSlots) \cup ({2, 3} \X StackSlots)
  /\ \A s \in StaticSlots : s \in D \cup Pending <=> <<1, s>> \notin visits
  /\ \A s \in StackSlots :
       /\ s \in D \cup Pending <=> <<2, s>> \notin visits
       /\ <<2, s>> \in visits => s \notin marks
       /\ <<2, s>> \notin visits => s \in marks \/ BitPending(s)
ChainsOK(D, rank, clock) ==
  /\ \A s \in D : rank[s] < clock
  /\ \A s, u \in D : rank[s] = rank[u] => s = u
  /\ \A s \in Slots : s \notin D \/ before.val[s].t # "string" => val[s] = before.val[s]
  /\ \A s \in D : before.val[s].t = "string" => InChain(D, rank, s)
  /\ Len(blocks) = Len(before.blocks)
  /\ \A b, p : Has(blocks, b, p) <=> Has(before.blocks, b, p)
  /\ \A b \in 1 .. Len(blocks) : blocks[b].pos = before.blocks[b].pos
  /\ \A b, p : Has(blocks, b, p) => /\ Id(blocks, b, p) = Id(before.blocks, b, p)
                                    /\ Chained(D, rank, b, p)
LargesOK(D) == \A l \in large : l.mark = TRUE <=> \E s \in D : before.val[s] = LargeStr(l.id)

Marked(D, rank, clock) ==
  /\ TasksOK(D) /\ MarksOK(D) /\ VisitsOK(D) /\ ChainsOK(D, rank, clock) /\ LargesOK(D)

(***************************************************************************)
(* While strings are moved.                                                *)
(***************************************************************************)
Passed(b, p) == b < scan.from \/ (b = scan.from /\ p < scan.pos)
Current(b, p) == phase = "relocate" /\ b = scan.from /\ p = scan.pos
Top(b) == IF b # scan.to THEN blocks[b].pos
          ELSE IF phase = "relocate" THEN scan.newaddr[2] ELSE scan.to_pos
Target(b, p) == b \in 1 .. scan.to /\ p \in DOMAIN blocks[b].chars /\ p < Top(b)
Trim(block, end) ==
  [pos |-> end, chars |-> [p \in {x \in DOMAIN block.chars : x < end} |-> block.chars[p]]]
IsString(s) == s \in InNeed /\ before.val[s].t = "string"
PassedSlot(s) == Passed(before.val[s].at[1], before.val[s].at[2])
CurrentSlot(s) == Current(before.val[s].at[1], before.val[s].at[2])

ScanOK ==
  /\ scan \in [from : 1 .. Len(blocks), pos : Nat, to : 1 .. Len(blocks), to_pos : Nat,
               newaddr : Nat \X Nat, size : Links]
  /\ Len(blocks) = Len(before.blocks)
  /\ scan.pos \in DOMAIN before.blocks[scan.from].chars \cup {before.blocks[scan.from].pos}
  /\ scan.to <= scan.from
AheadOK(rank) ==
  /\ \A b \in scan.from .. Len(blocks) : blocks[b].pos = before.blocks[b].pos
  /\ \A b, p : Has(before.blocks, b, p) /\ ~Passed(b, p) /\ ~Current(b, p) =>
       /\ Has(blocks, b, p) /\ Id(blocks, b, p) = Id(before.blocks, b, p)
       /\ Chained(InNeed, rank, b, p)
  /\ \A s \in Slots : IsString(s) /\ ~PassedSlot(s) /\ ~CurrentSlot(s) =>
       InChain(InNeed, rank, s)
MovedOK ==
  /\ \A b \in 1 .. scan.to :
       Packed(Trim(blocks[b], Top(b))) /\ Top(b) <= STRING_BLOCK_SIZE
  /\ \A b, p, c, q :
       Target(b, p) /\ Target(c, q) /\ Id(blocks, b, p) = Id(blocks, c, q)
         => b = c /\ p = q
  /\ \A b, p : Target(b, p) =>
       \E s \in Slots : /\ IsString(s) /\ PassedSlot(s)
                        /\ Id(blocks, b, p) = StringIn(before.blocks, before.val[s].at)
  /\ \A s \in Slots : IsString(s) /\ PassedSlot(s) =>
       \E b, p : /\ val[s] = Str(b, p) /\ Target(b, p)
                 /\ Id(blocks, b, p) = StringIn(before.blocks, before.val[s].at)
RestOK ==
  /\ calls = <<>> /\ visits = {}
  /\ \A s \in Slots : before.val[s].t # "string" => val[s] = before.val[s]
  /\ \A c \in Conses : /\ <<c, "car">> \in marks <=> <<c, "car">> \in InNeed
                       /\ <<c, "cdr">> \in InNeed <=> <<c, "car">> \in InNeed
  /\ LargesOK(InNeed)
  /\ phase # "relocate" /\ scan.to = scan.from => scan.to_pos <= scan.pos
  /\ phase = "sweep" => /\ scan.from = Len(blocks)
                        /\ scan.pos = before.blocks[scan.from].pos
\* Of the string at the cursor the chain is followed, and then taken apart.
Measuring(rank) ==
  LET b == scan.from
      p == scan.pos
  IN /\ Has(before.blocks, b, p) /\ \E s \in InNeed : before.val[s] = Str(b, p)
     /\ \E cut \in Nat :
          HeadOf(scan.size, {u \in Refs(InNeed, b, p) : rank[u] < cut}, rank,
                 Link(before.blocks, b, p))
Relocating(rank) ==
  LET b == scan.from
      p == scan.pos
      to == scan.newaddr[1]
      start == scan.newaddr[2]
  IN /\ Has(before.blocks, b, p) /\ \E s \in InNeed : before.val[s] = Str(b, p)
     /\ to = scan.to /\ Has(blocks, to, start)
     /\ Id(blocks, to, start) = Id(before.blocks, b, p)
     /\ scan.to_pos = start + FullSize(Link(before.blocks, b, p).n)
     /\ scan.to_pos <= STRING_BLOCK_SIZE
     /\ \A q \in DOMAIN blocks[to].chars : ~(start < q /\ q < scan.to_pos)
     /\ to = b => start <= p
     /\ \E cut \in Nat :
          /\ HeadOf(scan.size, {u \in Refs(InNeed, b, p) : rank[u] < cut}, rank,
                    Link(before.blocks, b, p))
          /\ \A s \in Refs(InNeed, b, p) :
               IF rank[s] < cut THEN InChain(InNeed, rank, s)
               ELSE val[s] = Str(to, start)

Types ==
  /\ val \in [Slots -> Words] /\ blocks \in Seq(Block) /\ Len(blocks) >= 1
  /\ large \in SUBSET Larges /\ free \in SUBSET Conses
  /\ phase \in {"run", "mark", "scan", "measure", "relocate", "sweep"}
Idle ==
  /\ IsHeap(val, blocks) /\ LargesThere(val)
  /\ visits = {} /\ calls = <<>> /\ marks = {} /\ scan = NotScanning
  /\ \A l \in large : l.mark = FALSE
  /\ \A s \in Slots : \A c \in free : val[s] # ConsAt(c)
Marking1 ==
  /\ scan = NotScanning
  /\ \E D \in SUBSET Slots, rank \in [Slots -> Nat], clock \in Nat :
       Marked(D, rank, clock)
Compacting ==
  \E rank \in [Slots -> Nat] :
    /\ \A s, u \in InNeed : rank[s] = rank[u] => s = u
    /\ ScanOK /\ AheadOK(rank) /\ MovedOK /\ RestOK
    /\ phase = "measure" => Measuring(rank)
    /\ phase = "relocate" => Relocating(rank)

GcInv ==
  /\ Types
  /\ phase = "run" => Idle
  /\ phase # "run" => IsHeap(before.val, before.blocks) /\ LargesThere(before.val)
  /\ phase = "mark" => Marking1
  /\ phase \notin {"run", "mark"} => Compacting
-----------------------------------------------------------------------------
(***************************************************************************)
(* What is changed in the blocks.                                          *)
(***************************************************************************)
LEMMA BlockFacts ==
  ASSUME NEW bs \in Seq(Block), NEW b \in 1 .. Len(bs)
  PROVE  /\ bs[b] \in Block /\ bs[b].pos \in Nat /\ DOMAIN bs[b].chars \in SUBSET Nat
         /\ bs[b].chars \in [DOMAIN bs[b].chars -> Chars]
<1>1. bs[b] \in Block
  OBVIOUS
<1>2. PICK starts \in SUBSET Nat : bs[b].chars \in [starts -> Chars]
  BY <1>1 DEF Block
<1>3. bs[b].pos \in Nat
  BY <1>1 DEF Block
<1> QED BY <1>1, <1>2, <1>3

LEMMA StringFacts ==
  ASSUME NEW bs \in Seq(Block), NEW b, NEW p, Has(bs, b, p)
  PROVE  /\ bs[b].chars[p] \in Chars /\ Id(bs, b, p) \in Nat /\ Link(bs, b, p) \in Links
         /\ b \in Nat /\ p \in Nat
<1>1. b \in 1 .. Len(bs) /\ p \in DOMAIN bs[b].chars
  BY DEF Has
<1>2. bs[b].chars[p] \in Chars /\ p \in Nat
  BY <1>1, BlockFacts
<1> QED BY <1>1, <1>2 DEF Chars, Id, Link

LEMMA IsBlock ==
  ASSUME NEW pos \in Nat, NEW chars, DOMAIN chars \in SUBSET Nat,
         chars \in [DOMAIN chars -> Chars]
  PROVE  [pos |-> pos, chars |-> chars] \in Block
BY DEF Block

WithChars(bs, b, chars) == [bs EXCEPT ![b].chars = chars]
WithPos(bs, b, pos) == [bs EXCEPT ![b].pos = pos]
WithLink(bs, b, p, link) == [bs EXCEPT ![b].chars[p].size = link]
Copy(chars, p, string, over) ==
  [q \in (DOMAIN chars \ over) \cup {p} |-> IF q = p THEN string ELSE chars[q]]

LEMMA SetChars ==
  ASSUME NEW bs \in Seq(Block), NEW b \in 1 .. Len(bs),
         NEW chars, DOMAIN chars \in SUBSET Nat, chars \in [DOMAIN chars -> Chars]
  PROVE  LET new == WithChars(bs, b, chars)
         IN /\ new \in Seq(Block) /\ Len(new) = Len(bs)
            /\ \A c \in 1 .. Len(bs) : new[c].pos = bs[c].pos
            /\ new[b].chars = chars
            /\ \A c \in 1 .. Len(bs) : c # b => new[c] = bs[c]
<1>0. PICK new : new = WithChars(bs, b, chars)
  OBVIOUS
<1>1. bs[b] \in Block /\ bs[b].pos \in Nat
  BY BlockFacts
<1>2. PICK block : block = [pos |-> bs[b].pos, chars |-> chars]
  OBVIOUS
<1>3. [bs[b] EXCEPT !.chars = chars] = block
  BY <1>1, <1>2 DEF Block
<1>4. block \in Block
  BY <1>1, <1>2, IsBlock
<1>5. new = [bs EXCEPT ![b] = block]
  BY <1>0, <1>3 DEF WithChars
<1>6. new \in Seq(Block) /\ Len(new) = Len(bs)
  BY <1>4, <1>5
<1>7. new[b] = block /\ \A c \in 1 .. Len(bs) : c # b => new[c] = bs[c]
  BY <1>5
<1>8. \A c \in 1 .. Len(bs) : new[c].pos = bs[c].pos
  <2> TAKE c \in 1 .. Len(bs)
  <2>1. CASE c = b
    BY <2>1, <1>2, <1>7
  <2>2. CASE c # b
    BY <2>2, <1>7
  <2> QED BY <2>1, <2>2
<1>9. new[b].chars = chars
  BY <1>2, <1>7
<1> QED BY <1>0, <1>6, <1>7, <1>8, <1>9

LEMMA SetPos ==
  ASSUME NEW bs \in Seq(Block), NEW b \in 1 .. Len(bs), NEW pos \in Nat
  PROVE  LET new == WithPos(bs, b, pos)
         IN /\ new \in Seq(Block) /\ Len(new) = Len(bs)
            /\ new[b].pos = pos /\ new[b].chars = bs[b].chars
            /\ \A c \in 1 .. Len(bs) : c # b => new[c] = bs[c]
<1>0. PICK new : new = WithPos(bs, b, pos)
  OBVIOUS
<1>1. bs[b] \in Block
  OBVIOUS
<1>2. PICK block : block = [pos |-> pos, chars |-> bs[b].chars]
  OBVIOUS
<1>3. [bs[b] EXCEPT !.pos = pos] = block
  BY <1>1, <1>2 DEF Block
<1>4. block \in Block
  BY <1>2, BlockFacts, IsBlock
<1>5. new = [bs EXCEPT ![b] = block]
  BY <1>0, <1>3 DEF WithPos
<1>6. new \in Seq(Block) /\ Len(new) = Len(bs)
  BY <1>4, <1>5
<1>7. new[b] = block /\ \A c \in 1 .. Len(bs) : c # b => new[c] = bs[c]
  BY <1>5
<1> QED BY <1>0, <1>2, <1>6, <1>7

\* The size field of one string is changed.
IsLinked(new, bs, b, p, link) ==
  /\ new \in Seq(Block) /\ Len(new) = Len(bs)
  /\ \A c \in 1 .. Len(bs) : new[c].pos = bs[c].pos
  /\ \A c, q : Has(new, c, q) <=> Has(bs, c, q)
  /\ \A c, q : Has(bs, c, q) =>
       /\ Id(new, c, q) = Id(bs, c, q)
       /\ Link(new, c, q) = IF c = b /\ q = p THEN link ELSE Link(bs, c, q)
  /\ \A c \in 1 .. Len(bs) : c # b => new[c] = bs[c]
  /\ DOMAIN new[b].chars = DOMAIN bs[b].chars
  /\ \A q \in DOMAIN bs[b].chars : q # p => new[b].chars[q] = bs[b].chars[q]

LEMMA SetLink ==
  ASSUME NEW bs \in Seq(Block), NEW b, NEW p, Has(bs, b, p), NEW link \in Links
  PROVE  IsLinked(WithLink(bs, b, p, link), bs, b, p, link)
<1>0. PICK new : new = WithLink(bs, b, p, link)
  OBVIOUS
<1>1. b \in 1 .. Len(bs) /\ p \in DOMAIN bs[b].chars
  BY DEF Has
<1>2. PICK chars : chars = [bs[b].chars EXCEPT ![p] = [bs[b].chars[p] EXCEPT !.size = link]]
  OBVIOUS
<1>3. bs[b].chars \in [DOMAIN bs[b].chars -> Chars] /\ DOMAIN bs[b].chars \in SUBSET Nat
  BY <1>1, BlockFacts
<1>4. bs[b].chars[p] \in Chars
  BY <1>1, <1>3
<1>5. /\ [bs[b].chars[p] EXCEPT !.size = link] \in Chars
      /\ [bs[b].chars[p] EXCEPT !.size = link].size = link
      /\ [bs[b].chars[p] EXCEPT !.size = link].id = bs[b].chars[p].id
  BY <1>4 DEF Chars
<1>6. /\ chars \in [DOMAIN chars -> Chars] /\ DOMAIN chars = DOMAIN bs[b].chars
      /\ chars[p].size = link /\ chars[p].id = bs[b].chars[p].id
      /\ \A q \in DOMAIN chars : q # p => chars[q] = bs[b].chars[q]
  BY <1>1, <1>2, <1>3, <1>5
<1>7. new = WithChars(bs, b, chars)
  BY <1>0, <1>2 DEF WithChars, WithLink
<1>8. /\ new \in Seq(Block) /\ Len(new) = Len(bs)
      /\ \A c \in 1 .. Len(bs) : new[c].pos = bs[c].pos
      /\ new[b].chars = chars
      /\ \A c \in 1 .. Len(bs) : c # b => new[c] = bs[c]
  BY <1>1, <1>3, <1>6, <1>7, SetChars
<1>9. /\ \A c, q : Has(new, c, q) <=> Has(bs, c, q)
      /\ \A c, q : Has(bs, c, q) =>
           /\ Id(new, c, q) = Id(bs, c, q)
           /\ Link(new, c, q) = IF c = b /\ q = p THEN link ELSE Link(bs, c, q)
  BY <1>1, <1>6, <1>8 DEF Has, Id, Link
<1>10. IsLinked(new, bs, b, p, link)
  BY <1>1, <1>6, <1>8, <1>9 DEF IsLinked
<1> QED BY <1>0, <1>10

\* A string is copied to p, over what there may be.
IsCopy(new, bs, b, p, string, over) ==
  /\ new \in Seq(Block) /\ Len(new) = Len(bs)
  /\ \A c \in 1 .. Len(bs) : new[c].pos = bs[c].pos
  /\ DOMAIN new[b].chars = (DOMAIN bs[b].chars \ over) \cup {p}
  /\ new[b].chars[p] = string
  /\ \A q \in DOMAIN new[b].chars : q # p => new[b].chars[q] = bs[b].chars[q]
  /\ \A c \in 1 .. Len(bs) : c # b => new[c] = bs[c]

LEMMA Copied ==
  ASSUME NEW bs \in Seq(Block), NEW b \in 1 .. Len(bs), NEW p \in Nat,
         NEW string \in Chars, NEW over
  PROVE  IsCopy(WithChars(bs, b, Copy(bs[b].chars, p, string, over)), bs, b, p, string, over)
<1>1. PICK chars : chars = Copy(bs[b].chars, p, string, over)
  OBVIOUS
<1>2. bs[b].chars \in [DOMAIN bs[b].chars -> Chars] /\ DOMAIN bs[b].chars \in SUBSET Nat
  BY BlockFacts
<1>3. /\ DOMAIN chars = (DOMAIN bs[b].chars \ over) \cup {p} /\ chars[p] = string
      /\ \A q \in DOMAIN chars : q # p => chars[q] = bs[b].chars[q]
  BY <1>1 DEF Copy
<1>4. DOMAIN chars \in SUBSET Nat /\ chars \in [DOMAIN chars -> Chars]
  BY <1>1, <1>2, <1>3 DEF Copy
<1>5. PICK new : new = WithChars(bs, b, chars)
  OBVIOUS
<1>6. /\ new \in Seq(Block) /\ Len(new) = Len(bs)
      /\ \A c \in 1 .. Len(bs) : new[c].pos = bs[c].pos
      /\ new[b].chars = chars
      /\ \A c \in 1 .. Len(bs) : c # b => new[c] = bs[c]
  BY <1>4, <1>5, SetChars, SMTT(30)
<1>7. IsCopy(new, bs, b, p, string, over)
  BY <1>3, <1>6 DEF IsCopy
<1> QED BY <1>1, <1>5, <1>7
-----------------------------------------------------------------------------
(***************************************************************************)
(* Blocks of strings that lie one behind the other.                        *)
(***************************************************************************)
LEMMA SizeFacts ==
  ASSUME NEW link \in Links
  PROVE  /\ link.k = "size" => link.n \in Nat /\ link = Size(link.n)
         /\ link.k # "size" => link.k = "slot" /\ link.slot \in Slots /\ link = Slot(link.slot)
         /\ \A n \in Nat : Size(n) \in Links
         /\ \A n : Size(n).k = "size" /\ Size(n).n = n
         /\ \A s : Slot(s).k = "slot" /\ Slot(s).slot = s
BY DEF Links, Size, Slot

LEMMA PackedFacts ==
  ASSUME NEW block \in Block, Packed(block), NEW p \in DOMAIN block.chars
  PROVE  \E n \in Nat :
           /\ block.chars[p].size = Size(n) /\ p \in Nat
           /\ p + FullSize(n) \in DOMAIN block.chars \cup {block.pos}
           /\ p + FullSize(n) <= block.pos /\ p < block.pos
           /\ \A q \in DOMAIN block.chars : p < q => p + FullSize(n) <= q
<1>1. block.chars[p] \in Chars /\ p \in Nat /\ block.pos \in Nat
  BY DEF Block
<1>2. block.chars[p].size \in Links /\ block.chars[p].size.k = "size"
  BY <1>1 DEF Chars, Packed
<1>3. PICK n \in Nat : block.chars[p].size = Size(n) /\ n = block.chars[p].size.n
  BY <1>2, SizeFacts
<1>4. /\ EndOf(block, p) \in DOMAIN block.chars \cup {block.pos}
      /\ EndOf(block, p) <= block.pos
      /\ \A q \in DOMAIN block.chars : p < q => EndOf(block, p) <= q
  BY DEF Packed
<1>5. EndOf(block, p) = p + FullSize(n) /\ FullSize(n) = n + 1
  BY <1>3 DEF EndOf, FullSize
<1> QED BY <1>1, <1>3, <1>4, <1>5

LEMMA PackedAppended ==
  ASSUME NEW old \in Block, Packed(old), NEW new, NEW n \in Nat,
         DOMAIN new.chars = DOMAIN old.chars \cup {old.pos},
         new.chars[old.pos].size = Size(n),
         \A q \in DOMAIN old.chars : new.chars[q] = old.chars[q],
         new.pos = old.pos + FullSize(n)
  PROVE  Packed(new)
<1>1. old.pos \in Nat /\ DOMAIN old.chars \subseteq Nat /\ FullSize(n) = n + 1
  BY DEF Block, FullSize
<1>2. 0 \in DOMAIN new.chars \cup {new.pos}
  BY DEF Packed
<1>3. ASSUME NEW p \in DOMAIN old.chars
      PROVE  /\ new.chars[p].size.k = "size" /\ EndOf(new, p) \in DOMAIN new.chars
             /\ EndOf(new, p) <= new.pos
             /\ \A q \in DOMAIN new.chars : p < q => EndOf(new, p) <= q
  <2>1. PICK m \in Nat :
          /\ old.chars[p].size = Size(m) /\ p \in Nat
          /\ p + FullSize(m) \in DOMAIN old.chars \cup {old.pos}
          /\ p + FullSize(m) <= old.pos
          /\ \A q \in DOMAIN old.chars : p < q => p + FullSize(m) <= q
    BY PackedFacts
  <2>2. new.chars[p].size = Size(m) /\ FullSize(m) = m + 1
    BY <2>1 DEF FullSize
  <2>3. EndOf(new, p) = p + (m + 1) /\ new.chars[p].size.k = "size"
    BY <2>2 DEF EndOf, Size
  <2> QED BY <1>1, <2>1, <2>2, <2>3
<1>4. /\ new.chars[old.pos].size.k = "size" /\ EndOf(new, old.pos) = new.pos
      /\ \A q \in DOMAIN old.chars : q < old.pos
  <2>1. new.chars[old.pos].size.k = "size" /\ EndOf(new, old.pos) = new.pos
    BY DEF EndOf, Size
  <2>2. \A q \in DOMAIN old.chars : q < old.pos
    BY PackedFacts
  <2> QED BY <2>1, <2>2
<1> QED BY <1>1, <1>2, <1>3, <1>4 DEF Packed

LEMMA PackedEmpty ==
  ASSUME NEW block, block.pos = 0, DOMAIN block.chars = {}
  PROVE  Packed(block)
BY DEF Packed

LEMMA TrimFacts ==
  ASSUME NEW block \in Block, NEW end \in Nat
  PROVE  LET new == Trim(block, end)
         IN /\ new \in Block /\ new.pos = end
            /\ DOMAIN new.chars = {p \in DOMAIN block.chars : p < end}
            /\ \A p \in DOMAIN new.chars : new.chars[p] = block.chars[p]
<1>1. block.chars \in [DOMAIN block.chars -> Chars] /\ DOMAIN block.chars \in SUBSET Nat
  BY DEF Block
<1>2. PICK chars :
        chars = [p \in {x \in DOMAIN block.chars : x < end} |-> block.chars[p]]
  OBVIOUS
<1>3. /\ DOMAIN chars = {p \in DOMAIN block.chars : p < end}
      /\ \A p \in DOMAIN chars : chars[p] = block.chars[p]
      /\ chars \in [DOMAIN chars -> Chars] /\ DOMAIN chars \in SUBSET Nat
  BY <1>1, <1>2
<1>4. Trim(block, end) = [pos |-> end, chars |-> chars]
  BY <1>2 DEF Trim
<1>5. [pos |-> end, chars |-> chars] \in Block
  BY <1>3, IsBlock
<1> QED BY <1>3, <1>4, <1>5

LEMMA TrimNothing ==
  ASSUME NEW block \in Block
  PROVE  Packed(Trim(block, 0))
<1>1. PICK new : new = Trim(block, 0)
  OBVIOUS
<1>2. /\ new.pos = 0
      /\ DOMAIN new.chars = {p \in DOMAIN block.chars : p < 0}
  BY <1>1, TrimFacts
<1>3. DOMAIN new.chars = {}
  <2>1. DOMAIN block.chars \in SUBSET Nat
    BY DEF Block
  <2> QED BY <1>2, <2>1
<1> QED BY <1>1, <1>2, <1>3, PackedEmpty

LEMMA TrimSame ==
  ASSUME NEW old, NEW new, NEW end \in Nat,
         \A q : q < end => (q \in DOMAIN old.chars <=> q \in DOMAIN new.chars),
         \A q \in DOMAIN old.chars : q < end => new.chars[q] = old.chars[q]
  PROVE  Trim(new, end) = Trim(old, end)
<1>1. {x \in DOMAIN new.chars : x < end} = {x \in DOMAIN old.chars : x < end}
  OBVIOUS
<1>2. [p \in {x \in DOMAIN new.chars : x < end} |-> new.chars[p]]
        = [p \in {x \in DOMAIN old.chars : x < end} |-> old.chars[p]]
  BY <1>1
<1> QED BY <1>2 DEF Trim

\* One more string of a block counts.
LEMMA TrimMore ==
  ASSUME NEW block \in Block, NEW end \in DOMAIN block.chars, NEW n \in Nat,
         Packed(Trim(block, end)), block.chars[end].size = Size(n),
         \A q \in DOMAIN block.chars : ~(end < q /\ q < end + FullSize(n))
  PROVE  Packed(Trim(block, end + FullSize(n)))
<1>1. DOMAIN block.chars \subseteq Nat /\ end \in Nat /\ FullSize(n) = n + 1
  BY DEF Block, FullSize
<1>2. PICK more : more = end + FullSize(n)
  OBVIOUS
<1>3. more \in Nat /\ more > end
  BY <1>1, <1>2
<1>4. PICK old, new : old = Trim(block, end) /\ new = Trim(block, more)
  OBVIOUS
<1>5. /\ old \in Block /\ old.pos = end
      /\ DOMAIN old.chars = {p \in DOMAIN block.chars : p < end}
      /\ \A p \in DOMAIN old.chars : old.chars[p] = block.chars[p]
  <2>1. end \in Nat
    BY <1>1
  <2>2. old = Trim(block, end)
    BY <1>4
  <2> QED BY <2>1, <2>2, TrimFacts, SMTT(30)
<1>6. /\ new \in Block /\ new.pos = more
      /\ DOMAIN new.chars = {p \in DOMAIN block.chars : p < more}
      /\ \A p \in DOMAIN new.chars : new.chars[p] = block.chars[p]
  BY <1>3, <1>4, TrimFacts
<1>7. DOMAIN new.chars = DOMAIN old.chars \cup {end}
  BY <1>1, <1>2, <1>3, <1>5, <1>6
<1>8. \A q \in DOMAIN old.chars : new.chars[q] = old.chars[q]
  BY <1>5, <1>6, <1>7
<1>9. new.chars[old.pos].size = Size(n)
  BY <1>5, <1>6, <1>7
<1>10. Packed(new)
  BY <1>2, <1>4, <1>5, <1>6, <1>7, <1>8, <1>9, PackedAppended
<1> QED BY <1>2, <1>4, <1>10

\* make_uninit_string puts a string behind the others.
LEMMA StringAppended ==
  ASSUME NEW block \in Block, Packed(block), NEW string \in Chars, NEW n \in Nat,
         string.size = Size(n)
  PROVE  LET new == WithString(block, string)
         IN /\ new \in Block /\ Packed(new) /\ new.pos = block.pos + FullSize(n)
            /\ DOMAIN new.chars = DOMAIN block.chars \cup {block.pos}
            /\ new.chars[block.pos] = string
            /\ \A q \in DOMAIN block.chars : new.chars[q] = block.chars[q] /\ q < block.pos
<1>1. /\ block.chars \in [DOMAIN block.chars -> Chars] /\ DOMAIN block.chars \in SUBSET Nat
      /\ block.pos \in Nat
  BY DEF Block
<1>2. PICK chars :
        chars = [p \in DOMAIN block.chars \cup {block.pos} |->
                   IF p = block.pos THEN string ELSE block.chars[p]]
  OBVIOUS
<1>3. \A q \in DOMAIN block.chars : q < block.pos
  BY PackedFacts
<1>4. /\ DOMAIN chars = DOMAIN block.chars \cup {block.pos} /\ chars[block.pos] = string
      /\ \A q \in DOMAIN block.chars : chars[q] = block.chars[q]
      /\ chars \in [DOMAIN chars -> Chars] /\ DOMAIN chars \in SUBSET Nat
  <2>1. DOMAIN chars = DOMAIN block.chars \cup {block.pos} /\ chars[block.pos] = string
    BY <1>2
  <2>2. \A q \in DOMAIN block.chars : q # block.pos
    BY <1>1, <1>3
  <2> QED BY <1>1, <1>2, <2>1, <2>2
<1>5. PICK new : new = [pos |-> block.pos + FullSize(n), chars |-> chars]
  OBVIOUS
<1>6. WithString(block, string) = new
  BY <1>2, <1>5 DEF WithString, Size
<1>7. new \in Block
  BY <1>1, <1>4, <1>5, IsBlock DEF FullSize
<1>8. Packed(new)
  BY <1>4, <1>5, PackedAppended
<1> QED BY <1>3, <1>4, <1>5, <1>6, <1>7, <1>8
-----------------------------------------------------------------------------
(***************************************************************************)
(* Words, chains and what can be reached.                                  *)
(***************************************************************************)
LEMMA WordKinds ==
  /\ Number.t = "int"
  /\ \A c : ConsAt(c).t = "cons" /\ ConsAt(c).at[1] = c
  /\ \A b, p : Str(b, p).t = "string" /\ Str(b, p).at = <<b, p>>
               /\ Str(b, p).at[1] = b /\ Str(b, p).at[2] = p
  /\ \A i : LargeStr(i).t = "large" /\ LargeStr(i).at[1] = i
  /\ \A l : Threaded(l).t = "thread" /\ Threaded(l).link = l
BY DEF Number, ConsAt, Str, LargeStr, Threaded

LEMMA WordFacts ==
  ASSUME NEW w \in Words
  PROVE  /\ w.t \in {"int", "cons", "string", "large", "thread"}
         /\ w.t = "int" => w = Number
         /\ w.t = "cons" => \E c \in Conses : w = ConsAt(c)
         /\ w.t = "string" => \E b, p \in Nat : w = Str(b, p)
         /\ w.t = "large" => \E i \in Nat : w = LargeStr(i)
         /\ w.t = "thread" => \E l \in Links : w = Threaded(l)
         /\ w.t # "thread" => w \in Values
<1>1. \/ w = Number \/ (\E c \in Conses : w = ConsAt(c))
      \/ (\E b, p \in Nat : w = Str(b, p)) \/ (\E i \in Nat : w = LargeStr(i))
      \/ (\E l \in Links : w = Threaded(l))
  BY DEF Words, Values
<1> QED BY <1>1, WordKinds DEF Words, Values

LEMMA ValueWords ==
  /\ Values \subseteq Words /\ \A v \in Values : v.t # "thread"
  /\ Number \in Values /\ \A c \in Conses : ConsAt(c) \in Values
  /\ \A b, p \in Nat : Str(b, p) \in Values
  /\ \A i \in Nat : LargeStr(i) \in Values
  /\ \A l \in Links : Threaded(l) \in Words
BY WordKinds DEF Words, Values

LEMMA HeadSame ==
  ASSUME NEW link, NEW S, NEW T, S = T, NEW rank, NEW rank2, NEW size,
         \A s \in S : rank2[s] = rank[s], HeadOf(link, S, rank, size)
  PROVE  HeadOf(link, T, rank2, size)
BY DEF HeadOf

LEMMA HeadFacts ==
  ASSUME NEW link, NEW S, NEW rank, NEW size, size.k = "size", HeadOf(link, S, rank, size)
  PROVE  /\ link.k \in {"slot", "size"}
         /\ link.k = "size" => S = {} /\ link = size
         /\ link.k = "slot" => /\ link.slot \in S /\ link = Slot(link.slot)
                               /\ \A u \in S : rank[u] <= rank[link.slot]
         /\ link.k = "size" <=> S = {}
<1>1. \A s : Slot(s).k = "slot" /\ Slot(s).slot = s
  BY DEF Slot
<1> QED BY <1>1 DEF HeadOf

LEMMA ReachFacts ==
  ASSUME NEW v
  PROVE  /\ Roots \subseteq ReachableIn(v) /\ ReachableIn(v) \subseteq Slots
         /\ \A s \in ReachableIn(v) : \A c \in Conses :
              v[s] = ConsAt(c) => Both(c) \subseteq ReachableIn(v)
<1>1. Roots \subseteq ReachableIn(v) /\ ReachableIn(v) \subseteq Slots
  BY DEF ReachableIn, Slots
<1>2. ASSUME NEW s \in ReachableIn(v), NEW c \in Conses, v[s] = ConsAt(c), NEW u \in Both(c)
      PROVE  u \in ReachableIn(v)
  <2>1. u \in {c} \X {"car", "cdr"} /\ u \in Slots
    BY <1>2 DEF Both, Slots, Cells
  <2>2. ASSUME NEW ss \in SUBSET Slots, Roots \subseteq ss, Closed(ss, v)
        PROVE  u \in ss
    <3>1. s \in ss
      BY <2>2 DEF ReachableIn
    <3>2. v[s].t = "cons" /\ v[s].at[1] = c
      BY <1>2, WordKinds
    <3>3. {c} \X {"car", "cdr"} \subseteq ss
      BY <2>2, <3>1, <3>2 DEF Closed
    <3> QED BY <2>1, <3>3
  <2> QED BY <2>1, <2>2 DEF ReachableIn
<1> QED BY <1>1, <1>2

LEMMA ReachLeast ==
  ASSUME NEW v \in [Slots -> Words], NEW ss \in SUBSET Slots, Roots \subseteq ss,
         \A s \in ss : \A c \in Conses : v[s] = ConsAt(c) => Both(c) \subseteq ss
  PROVE  ReachableIn(v) \subseteq ss
<1>1. ASSUME NEW s \in ss, v[s].t = "cons"
      PROVE  {v[s].at[1]} \X {"car", "cdr"} \subseteq ss
  <2>1. PICK c \in Conses : v[s] = ConsAt(c)
    BY <1>1, WordFacts
  <2>2. v[s].at[1] = c /\ Both(c) \subseteq ss
    BY <2>1, WordKinds
  <2> QED BY <2>2 DEF Both
<1>2. Closed(ss, v)
  BY <1>1 DEF Closed
<1> QED BY <1>2 DEF ReachableIn
-----------------------------------------------------------------------------
(***************************************************************************)
(* The program runs.                                                       *)
(***************************************************************************)
\* Slots get what other slots have, or conses and numbers.
LEMMA HeapStored ==
  ASSUME NEW v, NEW bs, IsHeap(v, bs), LargesThere(v), NEW w \in [Slots -> Values],
         \A u \in Slots : \/ w[u].t \in {"int", "cons"}
                          \/ \E x \in Slots : w[u] = v[x]
  PROVE  IsHeap(w, bs) /\ LargesThere(w)
<1>1. \A u \in Slots : \A b, p : w[u] = Str(b, p) => Has(bs, b, p)
  BY WordKinds DEF IsHeap
<1>2. \A u \in Slots : \A i : w[u] = LargeStr(i) => \E l \in large : l.id = i
  BY WordKinds DEF LargesThere
<1> QED BY <1>1, <1>2 DEF IsHeap, LargesThere

\* A string is put where none was.
Grown(v, bs, w, new, s, b, p) ==
  /\ IsHeap(v, bs) /\ s \in Slots /\ w \in [Slots -> Values]
  /\ \A u \in Slots : w[u] = IF u = s THEN Str(b, p) ELSE v[u]
  /\ new \in Seq(Block) /\ Len(new) >= 1
  /\ \A c, q : Has(new, c, q) <=> Has(bs, c, q) \/ (c = b /\ q = p)
  /\ \A c, q : Has(bs, c, q) => /\ Id(new, c, q) = Id(bs, c, q)
                                /\ Id(new, c, q) # Id(new, b, p)
  /\ \A c \in 1 .. Len(new) : Packed(new[c]) /\ new[c].pos <= STRING_BLOCK_SIZE

LEMMA HeapGrown ==
  ASSUME NEW v, NEW bs, NEW w, NEW new, NEW s, NEW b, NEW p,
         Grown(v, bs, w, new, s, b, p)
  PROVE  IsHeap(w, new)
<1>3. \A u \in Slots : \A c, q : w[u] = Str(c, q) => Has(new, c, q)
  <2> TAKE u \in Slots
  <2> TAKE c, q
  <2> HAVE w[u] = Str(c, q)
  <2>1. CASE u = s
    <3>1. c = b /\ q = p
      BY <2>1, WordKinds DEF Grown
    <3> QED BY <3>1 DEF Grown
  <2>2. CASE u # s
    <3>1. Has(bs, c, q)
      BY <2>2 DEF Grown, IsHeap
    <3> QED BY <3>1 DEF Grown
  <2> QED BY <2>1, <2>2
<1>4. \A c, q, d, r :
        Has(new, c, q) /\ Has(new, d, r) /\ Id(new, c, q) = Id(new, d, r) => c = d /\ q = r
  <2> TAKE c, q, d, r
  <2> HAVE Has(new, c, q) /\ Has(new, d, r) /\ Id(new, c, q) = Id(new, d, r)
  <2>1. CASE Has(bs, c, q) /\ Has(bs, d, r)
    <3>1. Id(bs, c, q) = Id(bs, d, r)
      BY <2>1 DEF Grown
    <3> QED BY <3>1, <2>1 DEF Grown, IsHeap
  <2>2. CASE ~ Has(bs, c, q)
    BY <2>2 DEF Grown
  <2>3. CASE ~ Has(bs, d, r)
    BY <2>3 DEF Grown
  <2> QED BY <2>1, <2>2, <2>3
<1> QED BY <1>3, <1>4 DEF Grown, IsHeap

Fresh(id) == id \in Nat /\ \A b, p : Has(blocks, b, p) => Id(blocks, b, p) # id

LEMMA StringInBlock ==
  ASSUME Types, Idle, NEW s \in Slots, NEW n \in Nat, NEW id, Fresh(id),
         FullSize(n) <= STRING_BLOCK_SIZE - blocks[Len(blocks)].pos,
         val' = [val EXCEPT ![s] = Str(Len(blocks), blocks[Len(blocks)].pos)],
         blocks' = [blocks EXCEPT ![Len(blocks)] =
                      WithString(blocks[Len(blocks)], [id |-> id, size |-> Size(n)])]
  PROVE  IsHeap(val', blocks')
<1>1. PICK last, block, string, new :
        /\ last = Len(blocks) /\ block = blocks[last]
        /\ string = [id |-> id, size |-> Size(n)] /\ new = WithString(block, string)
  OBVIOUS
<1>2. last \in 1 .. Len(blocks) /\ last \in Nat /\ block \in Block /\ Packed(block)
  BY <1>1 DEF Types, Idle, IsHeap
<1>3. string \in Chars /\ string.size = Size(n) /\ string.id = id
  BY <1>1, SizeFacts DEF Chars, Fresh, Links
<1>4. /\ new \in Block /\ Packed(new) /\ new.pos = block.pos + FullSize(n)
      /\ DOMAIN new.chars = DOMAIN block.chars \cup {block.pos}
      /\ new.chars[block.pos] = string
      /\ \A q \in DOMAIN block.chars : new.chars[q] = block.chars[q] /\ q < block.pos
  BY <1>1, <1>2, <1>3, StringAppended
<1>5. block.pos \in Nat
  BY <1>2 DEF Block
<1>6. blocks \in Seq(Block) /\ blocks' = [blocks EXCEPT ![last] = new]
  BY <1>1 DEF Types
<1>7. /\ blocks' \in Seq(Block) /\ Len(blocks') = Len(blocks) /\ blocks'[last] = new
      /\ \A c \in 1 .. Len(blocks) : c # last => blocks'[c] = blocks[c]
  BY <1>2, <1>4, <1>6
<1>8. \A c, q : Has(blocks', c, q) <=> Has(blocks, c, q) \/ (c = last /\ q = block.pos)
  BY <1>1, <1>2, <1>4, <1>7 DEF Has
<1>9. Id(blocks', last, block.pos) = id
  BY <1>3, <1>4, <1>7 DEF Id
<1>10. \A c, q : Has(blocks, c, q) => /\ Id(blocks', c, q) = Id(blocks, c, q)
                                      /\ Id(blocks', c, q) # Id(blocks', last, block.pos)
  <2>1. \A c, q : Has(blocks, c, q) => Id(blocks', c, q) = Id(blocks, c, q)
    BY <1>1, <1>4, <1>7 DEF Has, Id
  <2> QED BY <2>1, <1>9, ZenonT(40) DEF Fresh
<1>11. \A c \in 1 .. Len(blocks') : Packed(blocks'[c]) /\ blocks'[c].pos <= STRING_BLOCK_SIZE
  <2>1. new.pos <= STRING_BLOCK_SIZE
    BY <1>1, <1>4, <1>5, GcAssumption DEF FullSize
  <2> QED BY <2>1, <1>4, <1>7 DEF Idle, IsHeap
<1>12. /\ val' \in [Slots -> Values]
       /\ \A u \in Slots : val'[u] = IF u = s THEN Str(last, block.pos) ELSE val[u]
  BY <1>1, <1>2, <1>5, ValueWords DEF Idle, IsHeap
<1>13. IsHeap(val, blocks) /\ Len(blocks') >= 1
  BY <1>7 DEF Idle, Types
<1>14. Grown(val, blocks, val', blocks', s, last, block.pos)
  BY <1>7, <1>8, <1>10, <1>11, <1>12, <1>13 DEF Grown
<1> QED BY <1>14, HeapGrown

LEMMA StringInNewBlock ==
  ASSUME Types, Idle, NEW s \in Slots, NEW n \in Nat, NEW id, Fresh(id),
         FullSize(n) <= STRING_BLOCK_OUTSIZE,
         val' = [val EXCEPT ![s] = Str(Len(blocks) + 1, 0)],
         blocks' = Append(blocks, WithString(NoBlock, [id |-> id, size |-> Size(n)]))
  PROVE  IsHeap(val', blocks')
<1>1. PICK last, string, new :
        /\ last = Len(blocks) + 1 /\ string = [id |-> id, size |-> Size(n)]
        /\ new = WithString(NoBlock, string)
  OBVIOUS
<1>2. last \in Nat /\ blocks \in Seq(Block) /\ Len(blocks) \in Nat
  BY <1>1 DEF Types
<1>3. string \in Chars /\ string.size = Size(n) /\ string.id = id
  BY <1>1, SizeFacts DEF Chars, Fresh, Links
<1>4. NoBlock \in Block /\ NoBlock.pos = 0 /\ DOMAIN NoBlock.chars = {} /\ Packed(NoBlock)
  <2>1. NoBlock.pos = 0 /\ NoBlock.chars = <<>> /\ DOMAIN NoBlock.chars = {}
    BY DEF NoBlock
  <2>2. <<>> \in [{} -> Chars]
    OBVIOUS
  <2>3. NoBlock \in Block
    BY <2>1, <2>2, IsBlock DEF NoBlock
  <2> QED BY <2>1, <2>3, PackedEmpty
<1>5. /\ new \in Block /\ Packed(new) /\ new.pos = FullSize(n)
      /\ DOMAIN new.chars = {0} /\ new.chars[0] = string
  <2>1. /\ new \in Block /\ Packed(new) /\ new.pos = 0 + FullSize(n)
        /\ DOMAIN new.chars = {} \cup {0} /\ new.chars[0] = string
    BY <1>1, <1>3, <1>4, StringAppended
  <2> QED BY <2>1 DEF FullSize
<1>6. /\ blocks' \in Seq(Block) /\ Len(blocks') = last /\ blocks'[last] = new
      /\ \A c \in 1 .. Len(blocks) : blocks'[c] = blocks[c]
  BY <1>1, <1>2, <1>5
<1>7. \A c, q : Has(blocks', c, q) <=> Has(blocks, c, q) \/ (c = last /\ q = 0)
  BY <1>1, <1>2, <1>5, <1>6 DEF Has
<1>8. Id(blocks', last, 0) = id
  BY <1>3, <1>5, <1>6 DEF Id
<1>9. \A c, q : Has(blocks, c, q) => /\ Id(blocks', c, q) = Id(blocks, c, q)
                                     /\ Id(blocks', c, q) # Id(blocks', last, 0)
  <2>1. \A c, q : Has(blocks, c, q) => Id(blocks', c, q) = Id(blocks, c, q)
    BY <1>6 DEF Has, Id
  <2> QED BY <2>1, <1>8 DEF Fresh
<1>10. \A c \in 1 .. Len(blocks') : Packed(blocks'[c]) /\ blocks'[c].pos <= STRING_BLOCK_SIZE
  <2>1. new.pos <= STRING_BLOCK_SIZE
    BY <1>5, GcAssumption DEF FullSize
  <2> QED BY <2>1, <1>1, <1>2, <1>5, <1>6 DEF Idle, IsHeap
<1>11. /\ val' \in [Slots -> Values]
       /\ \A u \in Slots : val'[u] = IF u = s THEN Str(last, 0) ELSE val[u]
  BY <1>1, <1>2, ValueWords DEF Idle, IsHeap
<1>12. IsHeap(val, blocks) /\ Len(blocks') >= 1
  BY <1>1, <1>2, <1>6 DEF Idle
<1>13. Grown(val, blocks, val', blocks', s, last, 0)
  BY <1>6, <1>7, <1>9, <1>10, <1>11, <1>12 DEF Grown
<1> QED BY <1>13, HeapGrown

LEMMA RunString ==
  ASSUME Types, Idle, NEW s \in Roots, NEW n \in Lengths, MakeString(s, n),
         UNCHANGED <<phase, visits, calls, marks, scan, before>>
  PROVE  Types' /\ Idle'
<1>1. PICK id : id = CHOOSE i \in 1 .. MaxStrings : i \notin Ids
  OBVIOUS
<1>2. id \in 1 .. MaxStrings /\ id \notin Ids
  BY <1>1 DEF MakeString
<1>3. Fresh(id)
  <2>1. ASSUME NEW b, NEW p, Has(blocks, b, p) PROVE Id(blocks, b, p) \in Ids
    <3>1. b \in DOMAIN blocks /\ p \in DOMAIN blocks[b].chars
      BY <2>1 DEF Has, Types
    <3> QED BY <3>1 DEF Ids, IdsIn, Id
  <2> QED BY <1>2, <2>1, GcAssumption DEF Fresh
<1>4. s \in Slots /\ n \in Nat /\ FullSize(n) \in Nat
  BY GcAssumption DEF Slots, FullSize
<1>5. \A c : c \in free' <=> c \in free
  BY DEF MakeString
<1>6. /\ IsHeap(val', blocks') /\ LargesThere(val)'
      /\ large' \in SUBSET Larges /\ \A l \in large' : l.mark = FALSE
      /\ \A u \in Slots : val'[u] = val[u] \/ val'[u].t # "cons"
  <2>0. val \in [Slots -> Values] /\ large \in SUBSET Larges /\ \A l \in large : l.mark = FALSE
    BY DEF Idle, IsHeap, Types
  <2>1. CASE FullSize(n) <= STRING_BLOCK_SIZE - blocks[Len(blocks)].pos
    <3>1. /\ val' = [val EXCEPT ![s] = Str(Len(blocks), blocks[Len(blocks)].pos)]
          /\ blocks' = [blocks EXCEPT ![Len(blocks)] =
                          WithString(blocks[Len(blocks)], [id |-> id, size |-> Size(n)])]
          /\ large' = large
      BY <1>1, <2>1 DEF MakeString
    <3>2. IsHeap(val', blocks')
      BY <1>3, <1>4, <2>1, <3>1, StringInBlock
    <3>3. \A u \in Slots : val'[u] = val[u] \/ val'[u].t = "string"
      BY <2>0, <3>1, WordKinds
    <3>4. LargesThere(val)'
      BY <3>1, <3>3, WordKinds DEF LargesThere, Idle
    <3> QED BY <2>0, <3>1, <3>2, <3>3, <3>4
  <2>2. CASE /\ ~ FullSize(n) <= STRING_BLOCK_SIZE - blocks[Len(blocks)].pos
             /\ FullSize(n) > STRING_BLOCK_OUTSIZE
    <3>1. /\ val' = [val EXCEPT ![s] = LargeStr(id)] /\ blocks' = blocks
          /\ large' = large \cup {[id |-> id, mark |-> FALSE]}
      BY <1>1, <2>2 DEF MakeString
    <3>2. [id |-> id, mark |-> FALSE] \in Larges
      BY <1>3 DEF Fresh, Larges
    <3>3. large' \in SUBSET Larges /\ \A l \in large' : l.mark = FALSE
      <4>1. [id |-> id, mark |-> FALSE].mark = FALSE
        OBVIOUS
      <4> QED BY <2>0, <3>1, <3>2, <4>1
    <3>4. \A u \in Slots : val'[u] = IF u = s THEN LargeStr(id) ELSE val[u]
      BY <2>0, <3>1
    <3>5. val' \in [Slots -> Values]
      BY <1>3, <2>0, <3>1, ValueWords DEF Fresh
    <3>6. IsHeap(val', blocks')
      BY <3>1, <3>4, <3>5, WordKinds DEF IsHeap, Idle
    <3>7. LargesThere(val)'
      <4> SUFFICES ASSUME NEW u \in Slots, NEW i, val'[u] = LargeStr(i)
                   PROVE  \E l \in large' : l.id = i
        BY DEF LargesThere
      <4>1. CASE u = s
        <5>1. i = id
          BY <4>1, <3>4, WordKinds
        <5>2. [id |-> id, mark |-> FALSE].id = id
          OBVIOUS
        <5> QED BY <5>1, <5>2, <3>1
      <4>2. CASE u # s
        BY <4>2, <3>1, <3>4 DEF LargesThere, Idle
      <4> QED BY <4>1, <4>2
    <3>8. \A u \in Slots : val'[u] = val[u] \/ val'[u].t # "cons"
      BY <3>4, WordKinds
    <3> QED BY <3>3, <3>6, <3>7, <3>8
  <2>3. CASE /\ ~ FullSize(n) <= STRING_BLOCK_SIZE - blocks[Len(blocks)].pos
             /\ ~ FullSize(n) > STRING_BLOCK_OUTSIZE
    <3>1. /\ val' = [val EXCEPT ![s] = Str(Len(blocks) + 1, 0)]
          /\ blocks' = Append(blocks, WithString(NoBlock, [id |-> id, size |-> Size(n)]))
          /\ large' = large
      BY <1>1, <2>3 DEF MakeString
    <3>2. FullSize(n) <= STRING_BLOCK_OUTSIZE
      BY <1>4, <2>3, GcAssumption
    <3>3. IsHeap(val', blocks')
      BY <1>3, <1>4, <3>1, <3>2, StringInNewBlock
    <3>4. \A u \in Slots : val'[u] = val[u] \/ val'[u].t = "string"
      BY <2>0, <3>1, WordKinds
    <3>5. LargesThere(val)'
      BY <3>1, <3>4, WordKinds DEF LargesThere, Idle
    <3> QED BY <2>0, <3>1, <3>3, <3>4, <3>5
  <2> QED BY <2>1, <2>2, <2>3
<1>7. \A u \in Slots : \A c \in free' : val'[u] # ConsAt(c)
  BY <1>5, <1>6, WordKinds DEF Idle
<1>8. Types'
  <2>1. free' \in SUBSET Conses /\ phase' = phase
    BY <1>5 DEF Types
  <2> QED BY <1>6, <2>1, ValueWords DEF Types, IsHeap
<1> QED BY <1>6, <1>7, <1>8 DEF Idle

LEMMA RunOther ==
  ASSUME Types, Idle, blocks' = blocks, large' = large, free' \subseteq free,
         val' \in [Slots -> Values],
         \A u \in Slots : \/ val'[u] = Number
                          \/ \E c \in Conses : c \notin free' /\ val'[u] = ConsAt(c)
                          \/ \E x \in Slots : val'[u] = val[x],
         UNCHANGED <<phase, visits, calls, marks, scan, before>>
  PROVE  Types' /\ Idle'
<1>1. IsHeap(val, blocks) /\ LargesThere(val)
  BY DEF Idle
<1>2. \A u \in Slots : val'[u].t \in {"int", "cons"} \/ \E x \in Slots : val'[u] = val[x]
  BY WordKinds
<1>3. IsHeap(val', blocks) /\ LargesThere(val')
  BY <1>1, <1>2, HeapStored
<1>4. LargesThere(val)'
  BY <1>3 DEF LargesThere
<1>5. \A u \in Slots : \A c \in free' : val'[u] # ConsAt(c)
  BY WordKinds DEF Idle
<1>6. Types'
  BY ValueWords DEF Types
<1> QED BY <1>3, <1>4, <1>5, <1>6 DEF Idle

LEMMA RunKeeps ==
  ASSUME Types, Idle, Run
  PROVE  Types' /\ Idle' /\ phase' = "run"
<1>1. /\ phase = "run" /\ phase' = "run" /\ UNCHANGED <<phase, visits, calls, marks, scan, before>>
  BY DEF Run
<1>2. val \in [Slots -> Values] /\ Roots \subseteq Slots /\ Reachable \subseteq Slots
  BY ReachFacts DEF Idle, IsHeap, Slots, Reachable
<1>3. ASSUME NEW s \in Roots, NEW n \in Lengths, MakeString(s, n)
      PROVE  Types' /\ Idle'
  BY <1>1, <1>3, RunString
<1>4. ASSUME NEW s \in Roots, NEW car \in Roots, NEW cdr \in Roots, MakeCons(s, car, cdr)
      PROVE  Types' /\ Idle'
  <2>1. PICK c \in free :
          /\ free' = free \ {c} /\ blocks' = blocks /\ large' = large
          /\ val' = [val EXCEPT ![<<c, "car">>] = val[car], ![<<c, "cdr">>] = val[cdr],
                                ![s] = ConsAt(c)]
    BY <1>4 DEF MakeCons
  <2>2. c \in Conses /\ ConsAt(c) \in Values /\ val[car] \in Values /\ val[cdr] \in Values
    BY <1>2, ValueWords DEF Types
  <2>3. val' \in [Slots -> Values]
    BY <1>2, <2>1, <2>2
  <2>4. \A u \in Slots : val'[u] \in {ConsAt(c), val[car], val[cdr], val[u]}
    BY <1>2, <2>1
  <2>5. \A u \in Slots : \/ val'[u] = Number
                         \/ \E d \in Conses : d \notin free' /\ val'[u] = ConsAt(d)
                         \/ \E x \in Slots : val'[u] = val[x]
    BY <1>2, <2>1, <2>2, <2>4
  <2> QED BY <1>1, <2>1, <2>3, <2>5, RunOther
<1>5. ASSUME NEW s \in Slots, NEW v \in Values, Store(s, v),
             v = Number \/ \E x \in Slots : v = val[x]
      PROVE  Types' /\ Idle'
  <2>1. val' = [val EXCEPT ![s] = v] /\ UNCHANGED <<free, blocks, large>>
    BY <1>5 DEF Store
  <2>2. val' \in [Slots -> Values] /\ \A u \in Slots : val'[u] = v \/ val'[u] = val[u]
    BY <1>2, <2>1
  <2>3. \A u \in Slots : val'[u] = Number \/ \E x \in Slots : val'[u] = val[x]
    BY <1>5, <2>2
  <2> QED BY <1>1, <2>1, <2>2, <2>3, RunOther
<1>6. ASSUME NEW s \in Reachable, NEW from \in Reachable, Store(s, val[from])
      PROVE  Types' /\ Idle'
  <2>1. s \in Slots /\ from \in Slots /\ val[from] \in Values
    BY <1>2
  <2> QED BY <2>1, <1>5, <1>6
<1>7. ASSUME NEW s \in Roots, Store(s, Number)
      PROVE  Types' /\ Idle'
  <2>1. s \in Slots /\ Number \in Values
    BY <1>2, ValueWords
  <2> QED BY <2>1, <1>5, <1>7
<1> QED BY <1>1, <1>3, <1>4, <1>6, <1>7 DEF Run
-----------------------------------------------------------------------------
(***************************************************************************)
(* Objects are marked.                                                     *)
(***************************************************************************)
LEMMA TaskFacts ==
  /\ \A do, s : Task(do, s).do = do /\ Task(do, s).slot = s
  /\ \A do, s, eo, u : Task(do, s) = Task(eo, u) <=> do = eo /\ s = u
  /\ \A x \in Tasks : x = Task(x.do, x.slot) /\ x.slot \in Slots
                      /\ x.do \in {"mark", "xmark"}
  /\ \A s \in Slots : Task("mark", s) \in Tasks /\ Task("xmark", s) \in Tasks
<1>1. \A do, s : Task(do, s).do = do /\ Task(do, s).slot = s
  BY DEF Task
<1>2. \A do, s, eo, u : Task(do, s) = Task(eo, u) <=> do = eo /\ s = u
  BY DEF Task
<1>3. ASSUME NEW x \in Tasks
      PROVE  x = Task(x.do, x.slot) /\ x.slot \in Slots /\ x.do \in {"mark", "xmark"}
  BY DEF Task, Tasks
<1>4. \A s \in Slots : Task("mark", s) \in Tasks /\ Task("xmark", s) \in Tasks
  BY DEF Task, Tasks
<1> QED BY <1>1, <1>2, <1>3, <1>4

LEMMA InitKeeps ==
  ASSUME GcInit
  PROVE  GcInv
<1>1. NoBlock \in Block /\ NoBlock.pos = 0 /\ DOMAIN NoBlock.chars = {} /\ Packed(NoBlock)
  <2>1. NoBlock.pos = 0 /\ NoBlock.chars = <<>> /\ DOMAIN NoBlock.chars = {}
    BY DEF NoBlock
  <2>2. <<>> \in [{} -> Chars]
    OBVIOUS
  <2>3. NoBlock \in Block
    BY <2>1, <2>2, IsBlock DEF NoBlock
  <2> QED BY <2>1, <2>3, PackedEmpty
<1>2. blocks = <<NoBlock>> /\ blocks \in Seq(Block) /\ Len(blocks) = 1 /\ blocks[1] = NoBlock
  BY <1>1 DEF GcInit
<1>3. val = [s \in Slots |-> Number] /\ val \in [Slots -> Values] /\ large = {}
      /\ free = Conses
  BY ValueWords DEF GcInit
<1>4. Types
  BY <1>2, <1>3, ValueWords DEF Types, GcInit
<1>5. \A b, p : ~ Has(blocks, b, p)
  BY <1>1, <1>2 DEF Has
<1>6. IsHeap(val, blocks) /\ LargesThere(val)
  <2>1. \A b \in 1 .. Len(blocks) :
          Packed(blocks[b]) /\ blocks[b].pos <= STRING_BLOCK_SIZE
    BY <1>1, <1>2, GcAssumption
  <2>2. \A s \in Slots : val[s] = Number /\ \A b, p : val[s] # Str(b, p)
    BY <1>3, WordKinds
  <2>3. \A s \in Slots : \A i : val[s] # LargeStr(i)
    BY <1>3, WordKinds
  <2> QED BY <1>2, <1>3, <1>5, <2>1, <2>2, <2>3 DEF IsHeap, LargesThere
<1>7. Idle
  BY <1>3, <1>6, WordKinds DEF Idle, GcInit
<1> QED BY <1>4, <1>7 DEF GcInv, GcInit

LEMMA CollectKeeps ==
  ASSUME Types, Idle, Collect
  PROVE  GcInv'
<1>1. /\ phase' = "mark" /\ before' = [val |-> val, blocks |-> blocks]
      /\ visits' = ({1} \X StaticSlots) \cup ({2, 3} \X StackSlots)
      /\ val' = val /\ free' = free /\ blocks' = blocks /\ large' = large
      /\ calls' = <<>> /\ marks' = {} /\ scan' = NotScanning
  BY DEF Collect, Idle
<1>2. before'.val = val /\ before'.blocks = blocks
  BY <1>1
<1>3. Types'
  BY <1>1 DEF Types
<1>4. IsHeap(before.val, before.blocks)' /\ LargesThere(before.val)'
  BY <1>1, <1>2 DEF Idle, LargesThere
<1>5. PICK rank : rank = [s \in Slots |-> 0]
  OBVIOUS
<1>6. Pending' = {}
  BY <1>1 DEF Pending
<1>7. TasksOK({})' /\ MarksOK({})' /\ LargesOK({})'
  BY <1>1, <1>6 DEF TasksOK, MarksOK, LargesOK, Idle
<1>8. VisitsOK({})'
  <2>1. \A s \in StaticSlots : <<1, s>> \in visits'
    BY <1>1
  <2>2. \A s \in StackSlots : <<2, s>> \in visits'
    BY <1>1
  <2> QED BY <1>1, <1>6, <2>1, <2>2 DEF VisitsOK
<1>9. ChainsOK({}, rank, 0)'
  <2>1. \A b, p : Chained({}, rank, b, p)'
    BY <1>1, <1>2 DEF Chained, HeadOf, Refs
  <2> QED BY <1>1, <1>2, <2>1 DEF ChainsOK
<1>10. Marking1'
  <2>1. {} \in SUBSET Slots /\ rank \in [Slots -> Nat] /\ 0 \in Nat
    BY <1>5
  <2>2. Marked({}, rank, 0)'
    BY <1>7, <1>8, <1>9 DEF Marked
  <2> QED BY <1>1, <2>1, <2>2 DEF Marking1
<1> QED BY <1>1, <1>3, <1>4, <1>10 DEF GcInv

LEMMA PopTask ==
  ASSUME NEW D, TasksOK(D), NEW it, it = It, calls # <<>>, calls' = Tail(calls), visits' = visits
  PROVE  /\ it \in Slots /\ TasksOK(D)'
         /\ Head(calls).do = "mark" =>
              /\ it \in Pending /\ it \notin D /\ TasksOK(D \cup {it})'
              /\ Pending = Pending' \cup {it} /\ it \notin Pending'
              /\ \A s : BitPending(s) => BitPending(s)'
         /\ Head(calls).do = "xmark" =>
              /\ Pending' = Pending /\ BitSlot(it)
              /\ \A s : BitPending(s) => s = it \/ BitPending(s)'
<1>1. /\ Len(calls) \in Nat /\ Len(calls) >= 1 /\ calls \in Seq(Tasks) /\ calls' \in Seq(Tasks)
      /\ Len(calls') = Len(calls) - 1 /\ Head(calls) = calls[1]
      /\ \A i \in 1 .. Len(calls') : calls'[i] = calls[i + 1]
  <2>1. calls \in Seq(Tasks)
    BY DEF TasksOK
  <2> QED BY <2>1
<1>2. /\ calls[1] = Task(Head(calls).do, it) /\ it \in Slots /\ 1 \in 1 .. Len(calls)
      /\ calls[1].do = Head(calls).do /\ calls[1].slot = it
  <2>1. calls[1] \in Tasks /\ 1 \in 1 .. Len(calls)
    BY <1>1
  <2>2. calls[1] = Task(calls[1].do, calls[1].slot) /\ calls[1].slot \in Slots
    BY <2>1, TaskFacts
  <2>3. it = calls[1].slot
    BY <1>1 DEF It
  <2> QED BY <1>1, <2>1, <2>2, <2>3
<1>3. \A i \in 1 .. Len(calls') : i + 1 \in 1 .. Len(calls)
  BY <1>1
<1>4. \A i \in 1 .. Len(calls) : i = 1 \/ (i - 1 \in 1 .. Len(calls') /\ calls'[i - 1] = calls[i])
  BY <1>1
<1>5. \A i, j \in 1 .. Len(calls') :
        calls'[i] = calls'[j] /\ calls'[i].do = "mark" => i = j
  <2> TAKE i, j \in 1 .. Len(calls')
  <2> HAVE calls'[i] = calls'[j] /\ calls'[i].do = "mark"
  <2>1. i + 1 = j + 1
    BY <1>1, <1>3 DEF TasksOK
  <2> QED BY <2>1, <1>1
<1>6. \A i \in 1 .. Len(calls') :
        calls'[i].do = "xmark" =>
          calls'[i].slot \in StackSlots /\ <<2, calls'[i].slot>> \notin visits'
  <2>1. \A i \in 1 .. Len(calls) : calls[i].do = "xmark" => BitSlot(calls[i].slot)
    BY DEF TasksOK
  <2> QED BY <2>1, <1>1, <1>3 DEF BitSlot
<1>7. Pending' \subseteq Pending
  BY <1>1, <1>3 DEF Pending
<1>8. TasksOK(D)'
  BY <1>1, <1>5, <1>6, <1>7 DEF TasksOK, BitSlot
<1>9. ASSUME Head(calls).do = "mark"
      PROVE  /\ it \in Pending /\ it \notin D /\ TasksOK(D \cup {it})'
             /\ Pending = Pending' \cup {it} /\ it \notin Pending'
             /\ \A s : BitPending(s) => BitPending(s)'
  <2>1. it \in Pending /\ it \notin D
    BY <1>1, <1>2, <1>9 DEF Pending, TasksOK
  <2>2. it \notin Pending'
    <3> SUFFICES ASSUME NEW i \in 1 .. Len(calls'), calls'[i] = Task("mark", it)
                 PROVE  FALSE
      BY DEF Pending
    <3>1. calls[i + 1] = calls[1] /\ calls[1].do = "mark" /\ i + 1 \in 1 .. Len(calls)
      BY <1>1, <1>2, <1>3, <1>9
    <3>2. \A j, k \in 1 .. Len(calls) : calls[j] = calls[k] /\ calls[j].do = "mark" => j = k
      BY DEF TasksOK
    <3>3. i + 1 = 1
      BY <1>2, <3>1, <3>2
    <3> QED BY <1>1, <3>3
  <2>3. Pending \subseteq Pending' \cup {it}
    <3> SUFFICES ASSUME NEW s \in Slots, NEW i \in 1 .. Len(calls), calls[i] = Task("mark", s)
                 PROVE  s = it \/ s \in Pending'
      BY DEF Pending
    <3>1. CASE i = 1
      BY <3>1, <1>2 DEF Task
    <3>2. CASE i # 1
      BY <3>2, <1>4 DEF Pending
    <3> QED BY <3>1, <3>2
  <2>4. \A s : BitPending(s) => BitPending(s)'
    <3> SUFFICES ASSUME NEW s, NEW i \in 1 .. Len(calls), calls[i] = Task("xmark", s)
                 PROVE  BitPending(s)'
      BY DEF BitPending
    <3>0. calls[i].do = "xmark"
      BY DEF Task
    <3>1. i # 1
      BY <3>0, <1>2, <1>9
    <3> QED BY <3>1, <1>4 DEF BitPending
  <2>5. TasksOK(D \cup {it})'
    <3>1. Pending' \cap (D \cup {it}) = {}
      BY <1>8, <2>2 DEF TasksOK
    <3> QED BY <1>8, <3>1 DEF TasksOK
  <2> QED BY <1>7, <2>1, <2>2, <2>3, <2>4, <2>5
<1>10. ASSUME Head(calls).do = "xmark"
       PROVE  /\ Pending' = Pending /\ BitSlot(it)
              /\ \A s : BitPending(s) => s = it \/ BitPending(s)'
  <2>1. BitSlot(it)
    BY <1>2, <1>10 DEF TasksOK
  <2>2. Pending \subseteq Pending'
    <3> SUFFICES ASSUME NEW s \in Slots, NEW i \in 1 .. Len(calls), calls[i] = Task("mark", s)
                 PROVE  s \in Pending'
      BY DEF Pending
    <3>0. calls[i].do = "mark"
      BY DEF Task
    <3>1. i # 1
      BY <3>0, <1>2, <1>10
    <3> QED BY <3>1, <1>4 DEF Pending
  <2>3. \A s : BitPending(s) => s = it \/ BitPending(s)'
    <3> SUFFICES ASSUME NEW s, NEW i \in 1 .. Len(calls), calls[i] = Task("xmark", s)
                 PROVE  s = it \/ BitPending(s)'
      BY DEF BitPending
    <3>0. calls[i].slot = s
      BY DEF Task
    <3>1. CASE i = 1
      BY <3>0, <3>1, <1>2
    <3>2. CASE i # 1
      BY <3>2, <1>4 DEF BitPending
    <3> QED BY <3>1, <3>2
  <2> QED BY <1>7, <2>1, <2>2, <2>3
<1> QED BY <1>2, <1>8, <1>9, <1>10
\* mark_object has been called for it, which does not refer to a string.
LEMMA ChainsStay ==
  ASSUME NEW D \in SUBSET Slots, NEW rank \in [Slots -> Nat], NEW clock \in Nat,
         ChainsOK(D, rank, clock), NEW it \in Slots, it \notin D,
         before.val[it].t # "string", UNCHANGED <<val, blocks, before>>
  PROVE  ChainsOK(D \cup {it}, [rank EXCEPT ![it] = clock], clock + 1)'
<1>1. PICK E, next : E = D \cup {it} /\ next = [rank EXCEPT ![it] = clock]
  OBVIOUS
<1>2. /\ \A s \in D : next[s] = rank[s] /\ rank[s] < clock /\ rank[s] \in Nat
      /\ next[it] = clock
  BY <1>1 DEF ChainsOK
<1>3. \A s \in E : next[s] < clock + 1
  BY <1>1, <1>2
<1>4. \A s, u \in E : next[s] = next[u] => s = u
  BY <1>1, <1>2 DEF ChainsOK
<1>5. ASSUME NEW s \in E, before.val[s].t = "string"
      PROVE  InChain(E, next, s)'
  <2>1. s \in D
    BY <1>1, <1>5
  <2>2. PICK l \in Links :
          val[s] = Threaded(l) /\ HeadOf(l, Before(D, rank, s), rank, SizeOf(s))
    BY <2>1, <1>5 DEF ChainsOK, InChain
  <2>3. Before(D, rank, s) = Before(E, next, s)
    BY <1>1, <1>2, <1>5, <2>1 DEF Before
  <2>4. \A u \in Before(D, rank, s) : next[u] = rank[u]
    BY <1>2 DEF Before
  <2>5. HeadOf(l, Before(E, next, s), next, SizeOf(s))
    BY <2>2, <2>3, <2>4, HeadSame
  <2> QED BY <2>2, <2>5 DEF InChain, Before, SizeOf
<1>6. ASSUME NEW b, NEW p, Has(blocks, b, p)
      PROVE  Chained(E, next, b, p)'
  <2>1. Refs(D, b, p) = Refs(E, b, p)
    BY <1>1, WordKinds DEF Refs
  <2>2. \A u \in Refs(D, b, p) : next[u] = rank[u]
    BY <1>2 DEF Refs
  <2>3. HeadOf(Link(blocks, b, p), Refs(D, b, p), rank, Link(before.blocks, b, p))
    BY <1>6 DEF ChainsOK, Chained
  <2>4. HeadOf(Link(blocks, b, p), Refs(E, b, p), next, Link(before.blocks, b, p))
    BY <2>1, <2>2, <2>3, HeadSame
  <2> QED BY <2>4 DEF Chained, Refs
<1>7. ChainsOK(E, next, clock + 1)'
  BY <1>1, <1>3, <1>4, <1>5, <1>6 DEF ChainsOK
<1> QED BY <1>1, <1>7

\* It is put in front of the chain of its string.
LEMMA ChainsGrow ==
  ASSUME NEW D \in SUBSET Slots, NEW rank \in [Slots -> Nat], NEW clock \in Nat,
         ChainsOK(D, rank, clock), Types, NEW it \in Slots, it \notin D,
         NEW b, NEW p, before.val[it] = Str(b, p), Has(blocks, b, p),
         val' = [val EXCEPT ![it] = Threaded(Link(blocks, b, p))],
         blocks' = WithLink(blocks, b, p, Slot(it)), before' = before
  PROVE  /\ ChainsOK(D \cup {it}, [rank EXCEPT ![it] = clock], clock + 1)'
         /\ val' \in [Slots -> Words] /\ blocks' \in Seq(Block)
         /\ Len(blocks') = Len(blocks)
<1>1. PICK E, next : E = D \cup {it} /\ next = [rank EXCEPT ![it] = clock]
  OBVIOUS
<1>2. /\ \A s \in D : next[s] = rank[s] /\ rank[s] < clock /\ rank[s] \in Nat
      /\ next[it] = clock
  BY <1>1 DEF ChainsOK
<1>3. \A s \in E : next[s] < clock + 1
  BY <1>1, <1>2
<1>4. \A s, u \in E : next[s] = next[u] => s = u
  BY <1>1, <1>2 DEF ChainsOK
<1>5. Link(blocks, b, p) \in Links /\ Slot(it) \in Links
  BY StringFacts, SizeFacts DEF Types, Links
<1>6. /\ blocks' \in Seq(Block) /\ Len(blocks') = Len(blocks)
      /\ \A c \in 1 .. Len(blocks) : blocks'[c].pos = blocks[c].pos
      /\ \A c, q : Has(blocks', c, q) <=> Has(blocks, c, q)
      /\ \A c, q : Has(blocks, c, q) =>
           /\ Id(blocks', c, q) = Id(blocks, c, q)
           /\ Link(blocks', c, q) = IF c = b /\ q = p THEN Slot(it) ELSE Link(blocks, c, q)
  <2>1. IsLinked(blocks', blocks, b, p, Slot(it))
    BY <1>5, SetLink DEF Types
  <2> QED BY <2>1 DEF IsLinked
<1>7. /\ val' \in [Slots -> Words] /\ val'[it] = Threaded(Link(blocks, b, p))
      /\ \A s \in Slots : s # it => val'[s] = val[s]
  BY <1>5, ValueWords DEF Types
<1>8. \A s \in Slots : s \notin E \/ before.val[s].t # "string" => val'[s] = before.val[s]
  BY <1>1, <1>7, WordKinds DEF ChainsOK
<1>9. HeadOf(Link(blocks, b, p), Refs(D, b, p), rank, Link(before.blocks, b, p))
  BY DEF ChainsOK, Chained
<1>10. ASSUME NEW s \in E, before.val[s].t = "string"
       PROVE  InChain(E, next, s)'
  <2>1. CASE s = it
    <3>1. Before(E, next, it) = Refs(D, b, p)
      BY <1>1, <1>2 DEF Before, Refs
    <3>2. \A u \in Refs(D, b, p) : next[u] = rank[u]
      BY <1>2 DEF Refs
    <3>3. SizeOf(it) = Link(before.blocks, b, p)
      BY WordKinds DEF SizeOf
    <3>4. HeadOf(Link(blocks, b, p), Before(E, next, it), next, SizeOf(it))
      BY <1>9, <3>1, <3>2, <3>3, HeadSame
    <3> QED BY <2>1, <1>5, <1>7, <3>4 DEF InChain, Before, SizeOf
  <2>2. CASE s # it
    <3>1. s \in D
      BY <2>2, <1>1
    <3>2. PICK l \in Links :
            val[s] = Threaded(l) /\ HeadOf(l, Before(D, rank, s), rank, SizeOf(s))
      BY <3>1, <1>10 DEF ChainsOK, InChain
    <3>3. Before(D, rank, s) = Before(E, next, s)
      BY <1>1, <1>2, <3>1 DEF Before
    <3>4. \A u \in Before(D, rank, s) : next[u] = rank[u]
      BY <1>2 DEF Before
    <3>5. HeadOf(l, Before(E, next, s), next, SizeOf(s))
      BY <3>2, <3>3, <3>4, HeadSame
    <3>6. val'[s] = Threaded(l)
      BY <2>2, <3>1, <3>2, <1>7
    <3> QED BY <3>5, <3>6 DEF InChain, Before, SizeOf
  <2> QED BY <2>1, <2>2
<1>11. ASSUME NEW c, NEW q, Has(blocks, c, q)
       PROVE  Chained(E, next, c, q)'
  <2>1. HeadOf(Link(blocks, c, q), Refs(D, c, q), rank, Link(before.blocks, c, q))
    BY <1>11 DEF ChainsOK, Chained
  <2>2. CASE c = b /\ q = p
    <3>1. Link(blocks', c, q) = Slot(it)
      BY <2>2, <1>6, <1>11
    <3>2. it \in Refs(E, c, q) /\ \A u \in Refs(E, c, q) : next[u] <= next[it]
      BY <2>2, <1>1, <1>2 DEF Refs
    <3>3. HeadOf(Slot(it), Refs(E, c, q), next, Link(before.blocks, c, q))
      BY <3>2 DEF HeadOf
    <3> QED BY <3>1, <3>3 DEF Chained, Refs
  <2>3. CASE ~ (c = b /\ q = p)
    <3>1. Link(blocks', c, q) = Link(blocks, c, q)
      BY <2>3, <1>6, <1>11
    <3>2. Refs(D, c, q) = Refs(E, c, q)
      BY <2>3, <1>1, WordKinds DEF Refs
    <3>3. \A u \in Refs(D, c, q) : next[u] = rank[u]
      BY <1>2 DEF Refs
    <3>4. HeadOf(Link(blocks, c, q), Refs(E, c, q), next, Link(before.blocks, c, q))
      BY <2>1, <3>2, <3>3, HeadSame
    <3> QED BY <3>1, <3>4 DEF Chained, Refs
  <2> QED BY <2>2, <2>3
<1>12. /\ Len(blocks') = Len(before.blocks)
       /\ \A c, q : Has(blocks', c, q) <=> Has(before.blocks, c, q)
       /\ \A c \in 1 .. Len(blocks') : blocks'[c].pos = before.blocks[c].pos
       /\ \A c, q : Has(blocks', c, q) => Id(blocks', c, q) = Id(before.blocks, c, q)
  BY <1>6 DEF ChainsOK
<1>13. ChainsOK(E, next, clock + 1)'
  BY <1>3, <1>4, <1>6, <1>8, <1>10, <1>11, <1>12 DEF ChainsOK
<1> QED BY <1>1, <1>6, <1>7, <1>13
\* mark_object returns without having marked another cons.
LEMMA Visited ==
  ASSUME NEW D \in SUBSET Slots, TasksOK(D), MarksOK(D), VisitsOK(D),
         NEW it, it = It, calls # <<>>, Head(calls).do = "mark", calls' = Tail(calls),
         UNCHANGED <<visits, marks, before>>,
         \A c : before.val[it] = ConsAt(c) => <<c, "car">> \in marks
  PROVE  /\ it \in Slots /\ it \notin D /\ it \in InNeed
         /\ TasksOK(D \cup {it})' /\ MarksOK(D \cup {it})' /\ VisitsOK(D \cup {it})'
<1>1. /\ it \in Slots /\ it \in Pending /\ it \notin D /\ TasksOK(D \cup {it})'
      /\ Pending = Pending' \cup {it} /\ \A s : BitPending(s) => BitPending(s)'
  BY PopTask
<1>2. PICK E, P : E = D \cup {it} /\ P = Pending'
  OBVIOUS
<1>3. D \cup Pending = E \cup P /\ InNeed' = InNeed
  BY <1>1, <1>2 DEF InNeed
<1>4. MarksOK(E)'
  <2>1. E \cup P \subseteq InNeed'
    BY <1>3 DEF MarksOK
  <2>2. \A c \in Conses : IF <<c, "car">> \in marks' THEN Both(c) \subseteq E \cup P
                          ELSE Both(c) \cap (E \cup P) = {}
    BY <1>3 DEF MarksOK
  <2>3. \A s \in E : \A c : before'.val[s] = ConsAt(c) => <<c, "car">> \in marks'
    BY <1>2 DEF MarksOK
  <2> QED BY <1>2, <2>1, <2>2, <2>3 DEF MarksOK
<1>5. VisitsOK(E)'
  BY <1>1, <1>2, <1>3 DEF VisitsOK
<1>6. it \in InNeed
  BY <1>1 DEF MarksOK
<1> QED BY <1>1, <1>2, <1>4, <1>5, <1>6

\* What there is to be marked, and what mark_object is called for.
LEMMA MarkingFacts ==
  ASSUME GcInv, phase = "mark", calls # <<>>, Head(calls).do = "mark", NEW it, it = It,
         NEW D \in SUBSET Slots, NEW rank, NEW clock, Marked(D, rank, clock)
  PROVE  /\ it \in Slots /\ it \notin D /\ it \in InNeed
         /\ val[it] = before.val[it] /\ val[it] \in Values
<1>1. it \in Slots /\ it \in Pending /\ it \notin D
  <2>1. /\ calls \in Seq(Tasks) /\ Len(calls) >= 1 /\ Head(calls) = calls[1]
        /\ calls[1] \in Tasks /\ Len(calls) \in Nat
    BY DEF Marked, TasksOK
  <2>2. calls[1] = Task("mark", it) /\ it \in Slots
    BY <2>1, TaskFacts DEF It
  <2>3. it \in Pending
    BY <2>1, <2>2 DEF Pending
  <2> QED BY <2>2, <2>3 DEF Marked, TasksOK
<1>2. it \in InNeed
  BY <1>1 DEF Marked, MarksOK
<1>3. val[it] = before.val[it]
  BY <1>1 DEF Marked, ChainsOK
<1>4. before.val \in [Slots -> Values]
  BY DEF GcInv, IsHeap
<1> QED BY <1>1, <1>2, <1>3, <1>4

LEMMA MarkOtherKeeps ==
  ASSUME GcInv, MarkOther
  PROVE  GcInv'
<1>1. /\ phase = "mark" /\ phase' = "mark" /\ calls # <<>> /\ Head(calls).do = "mark"
      /\ calls' = Tail(calls)
      /\ UNCHANGED <<val, free, blocks, large, phase, visits, marks, scan, before>>
  BY DEF MarkOther, Marking, GcInv
<1>2. PICK D \in SUBSET Slots, rank \in [Slots -> Nat], clock \in Nat :
        Marked(D, rank, clock)
  BY <1>1 DEF GcInv, Marking1
<1>3. PICK it : it = It
  OBVIOUS
<1>4. /\ it \in Slots /\ it \notin D /\ it \in InNeed
      /\ val[it] = before.val[it] /\ val[it] \in Values
  BY <1>1, <1>2, <1>3, MarkingFacts
<1>5. val[it].t \notin {"cons", "string", "large"}
  BY <1>3 DEF MarkOther
<1>6. \A c : before.val[it] = ConsAt(c) => <<c, "car">> \in marks
  BY <1>4, <1>5, WordKinds
<1>7. TasksOK(D \cup {it})' /\ MarksOK(D \cup {it})' /\ VisitsOK(D \cup {it})'
  BY <1>1, <1>2, <1>3, <1>6, Visited DEF Marked
<1>8. ChainsOK(D \cup {it}, [rank EXCEPT ![it] = clock], clock + 1)'
  BY <1>1, <1>2, <1>4, <1>5, ChainsStay DEF Marked
<1>9. LargesOK(D \cup {it})'
  BY <1>1, <1>2, <1>4, <1>5, WordKinds DEF Marked, LargesOK
<1>10. Marked(D \cup {it}, [rank EXCEPT ![it] = clock], clock + 1)'
  BY <1>7, <1>8, <1>9 DEF Marked
<1>11. Marking1'
  <2>1. /\ D \cup {it} \in SUBSET Slots /\ [rank EXCEPT ![it] = clock] \in [Slots -> Nat]
        /\ clock + 1 \in Nat
    BY <1>4
  <2> QED BY <1>1, <1>10, <2>1 DEF Marking1, GcInv
<1> QED BY <1>1, <1>11 DEF GcInv, Types, LargesThere

LEMMA MarkedAgain ==
  ASSUME GcInv, phase = "mark", phase' = "mark", before' = before, scan' = scan, Types',
         LargesThere(before.val)', NEW D \in SUBSET Slots, NEW rank \in [Slots -> Nat],
         NEW clock \in Nat, Marked(D, rank, clock)'
  PROVE  GcInv'
<1>1. Marking1'
  BY DEF Marking1, GcInv
<1>2. IsHeap(before.val, before.blocks)'
  BY DEF GcInv
<1> QED BY <1>1, <1>2 DEF GcInv

LEMMA NextRank ==
  ASSUME NEW D \in SUBSET Slots, NEW it \in Slots, NEW rank \in [Slots -> Nat],
         NEW clock \in Nat
  PROVE  /\ D \cup {it} \in SUBSET Slots /\ clock + 1 \in Nat
         /\ [rank EXCEPT ![it] = clock] \in [Slots -> Nat]
OBVIOUS

LEMMA MarkLargeKeeps ==
  ASSUME GcInv, MarkLarge
  PROVE  GcInv'
<1>1. /\ phase = "mark" /\ phase' = "mark" /\ calls # <<>> /\ Head(calls).do = "mark"
      /\ calls' = Tail(calls)
      /\ UNCHANGED <<val, free, blocks, phase, visits, marks, scan, before>>
  BY DEF MarkLarge, Marking, GcInv
<1>2. PICK D \in SUBSET Slots, rank \in [Slots -> Nat], clock \in Nat :
        Marked(D, rank, clock)
  BY <1>1 DEF GcInv, Marking1
<1>3. PICK it : it = It
  OBVIOUS
<1>4. /\ it \in Slots /\ it \notin D /\ it \in InNeed
      /\ val[it] = before.val[it] /\ val[it] \in Values
  BY <1>1, <1>2, <1>3, MarkingFacts
<1>5. val[it].t = "large" /\ val[it] \in Words
  BY <1>3, <1>4, ValueWords DEF MarkLarge
<1>6. PICK i \in Nat : val[it] = LargeStr(i)
  BY <1>5, WordFacts
<1>7. val[it].at[1] = i
  BY <1>6, WordKinds
<1>8. large' = {IF l.id = i THEN [l EXCEPT !.mark = TRUE] ELSE l : l \in large}
  BY <1>3, <1>7 DEF MarkLarge
<1>9. ASSUME NEW l \in large
      PROVE  LET m == IF l.id = i THEN [l EXCEPT !.mark = TRUE] ELSE l
             IN m \in Larges /\ m.id = l.id /\ m.mark = IF l.id = i THEN TRUE ELSE l.mark
  <2>1. l \in Larges
    BY DEF GcInv, Types
  <2> QED BY <2>1 DEF Larges
<1>10. \A m \in large' : \E l \in large :
         m \in Larges /\ m.id = l.id /\ m.mark = IF l.id = i THEN TRUE ELSE l.mark
  BY <1>8, <1>9
<1>11. \A l \in large : \E m \in large' : m.id = l.id
  BY <1>8, <1>9
<1>12. LargesThere(before.val)'
  <2>1. LargesThere(before.val)
    BY <1>1 DEF GcInv
  <2> QED BY <1>1, <1>11, <2>1 DEF LargesThere
<1>13. \A c : before.val[it] # ConsAt(c)
  BY <1>4, <1>5, WordKinds
<1>14. TasksOK(D \cup {it})' /\ MarksOK(D \cup {it})' /\ VisitsOK(D \cup {it})'
  BY <1>1, <1>2, <1>3, <1>13, Visited DEF Marked
<1>15. ChainsOK(D \cup {it}, [rank EXCEPT ![it] = clock], clock + 1)'
  BY <1>1, <1>2, <1>4, <1>5, ChainsStay DEF Marked
<1>16. LargesOK(D \cup {it})'
  <2> SUFFICES ASSUME NEW m \in large'
               PROVE  m.mark = TRUE <=> \E s \in D \cup {it} : before.val[s] = LargeStr(m.id)
    BY <1>1 DEF LargesOK
  <2>1. PICK l \in large : m.id = l.id /\ m.mark = IF l.id = i THEN TRUE ELSE l.mark
    BY <1>10
  <2>2. l.mark = TRUE <=> \E s \in D : before.val[s] = LargeStr(l.id)
    BY <1>2 DEF Marked, LargesOK
  <2>3. before.val[it] = LargeStr(i) /\ (before.val[it] = LargeStr(l.id) <=> l.id = i)
    BY <1>4, <1>6, WordKinds
  <2> QED BY <2>1, <2>2, <2>3
<1>17. Marked(D \cup {it}, [rank EXCEPT ![it] = clock], clock + 1)'
  BY <1>14, <1>15, <1>16 DEF Marked
<1>18. Types'
  <2>1. large' \in SUBSET Larges
    BY <1>10
  <2> QED BY <1>1, <2>1 DEF Types, GcInv
<1> QED BY <1>1, <1>2, <1>4, <1>12, <1>17, <1>18, NextRank, MarkedAgain

LEMMA MarkStringKeeps ==
  ASSUME GcInv, MarkString
  PROVE  GcInv'
<1>1. /\ phase = "mark" /\ phase' = "mark" /\ calls # <<>> /\ Head(calls).do = "mark"
      /\ calls' = Tail(calls)
      /\ UNCHANGED <<free, large, phase, visits, marks, scan, before>>
  BY DEF MarkString, Marking, GcInv
<1>2. PICK D \in SUBSET Slots, rank \in [Slots -> Nat], clock \in Nat :
        Marked(D, rank, clock)
  BY <1>1 DEF GcInv, Marking1
<1>3. PICK it : it = It
  OBVIOUS
<1>4. /\ it \in Slots /\ it \notin D /\ it \in InNeed
      /\ val[it] = before.val[it] /\ val[it] \in Values
  BY <1>1, <1>2, <1>3, MarkingFacts
<1>5. val[it].t = "string" /\ val[it] \in Words
  BY <1>3, <1>4, ValueWords DEF MarkString
<1>6. PICK b, p \in Nat : val[it] = Str(b, p)
  BY <1>5, WordFacts
<1>7. val[it].at[1] = b /\ val[it].at[2] = p
  BY <1>6, WordKinds
<1>8. Has(blocks, b, p)
  <2>1. IsHeap(before.val, before.blocks) /\ before.val[it] = Str(b, p)
    BY <1>1, <1>4, <1>6 DEF GcInv
  <2>2. Has(before.blocks, b, p)
    BY <1>4, <2>1 DEF IsHeap
  <2> QED BY <1>2, <2>2 DEF Marked, ChainsOK
<1>9. /\ val' = [val EXCEPT ![it] = Threaded(Link(blocks, b, p))]
      /\ blocks' = WithLink(blocks, b, p, Slot(it))
  BY <1>3, <1>7 DEF MarkString, Link, WithLink
<1>10. /\ ChainsOK(D \cup {it}, [rank EXCEPT ![it] = clock], clock + 1)'
       /\ val' \in [Slots -> Words] /\ blocks' \in Seq(Block)
       /\ Len(blocks') = Len(blocks)
  BY <1>1, <1>2, <1>4, <1>6, <1>8, <1>9, ChainsGrow DEF Marked, GcInv
<1>11. \A c : before.val[it] # ConsAt(c)
  BY <1>4, <1>5, WordKinds
<1>12. TasksOK(D \cup {it})' /\ MarksOK(D \cup {it})' /\ VisitsOK(D \cup {it})'
  BY <1>1, <1>2, <1>3, <1>11, Visited DEF Marked
<1>13. LargesOK(D \cup {it})'
  <2>1. \A i : before.val[it] # LargeStr(i)
    BY <1>4, <1>5, WordKinds
  <2> QED BY <1>1, <1>2, <2>1 DEF Marked, LargesOK
<1>14. Marked(D \cup {it}, [rank EXCEPT ![it] = clock], clock + 1)'
  BY <1>10, <1>12, <1>13 DEF Marked
<1>15. Types'
  BY <1>1, <1>10 DEF Types, GcInv
<1>16. LargesThere(before.val)'
  BY <1>1 DEF LargesThere, GcInv
<1> QED BY <1>1, <1>2, <1>4, <1>14, <1>15, <1>16, NextRank, MarkedAgain

LEMMA ConcatFacts ==
  ASSUME NEW S, NEW s \in Seq(S), NEW t \in Seq(S)
  PROVE  /\ s \o t \in Seq(S) /\ Len(s \o t) = Len(s) + Len(t)
         /\ \A i \in 1 .. Len(s) + Len(t) :
              (s \o t)[i] = IF i <= Len(s) THEN s[i] ELSE t[i - Len(s)]
OBVIOUS

Pushed(x, y) == <<Task("mark", x), Task("mark", y)>> \o Tail(calls)
Pushing(D, it, x, y) ==
  /\ TasksOK(D) /\ it = It /\ calls # <<>> /\ Head(calls).do = "mark"
  /\ x \in Slots /\ y \in Slots /\ x # y /\ {x, y} \cap (D \cup Pending) = {}

LEMMA PushTasks ==
  ASSUME NEW D, NEW it, NEW x, NEW y, Pushing(D, it, x, y), calls' = Pushed(x, y),
         visits' = visits
  PROVE  /\ it \in Slots /\ it \in Pending /\ it \notin D /\ TasksOK(D \cup {it})'
         /\ Pending' = (Pending \ {it}) \cup {x, y}
         /\ \A s : BitPending(s) => BitPending(s)'
<1> USE DEF Pushing
<1>1. /\ Len(calls) \in Nat /\ Len(calls) >= 1 /\ calls \in Seq(Tasks) /\ Head(calls) = calls[1]
      /\ Tail(calls) \in Seq(Tasks) /\ Len(Tail(calls)) = Len(calls) - 1
      /\ \A i \in 1 .. Len(calls) - 1 : Tail(calls)[i] = calls[i + 1]
  <2>1. calls \in Seq(Tasks)
    BY DEF TasksOK
  <2> QED BY <2>1
<1>2. PICK two : two = <<Task("mark", x), Task("mark", y)>>
  OBVIOUS
<1>3. /\ two \in Seq(Tasks) /\ Len(two) = 2
      /\ two[1] = Task("mark", x) /\ two[2] = Task("mark", y)
  BY <1>2, TaskFacts
<1>4. /\ calls' \in Seq(Tasks) /\ Len(calls') = Len(calls) + 1
      /\ calls'[1] = Task("mark", x) /\ calls'[2] = Task("mark", y)
      /\ \A i \in 3 .. Len(calls) + 1 : calls'[i] = calls[i - 1] /\ i - 1 \in 2 .. Len(calls)
  <2>1. PICK rest : rest = Tail(calls)
    OBVIOUS
  <2>2. rest \in Seq(Tasks) /\ Len(rest) = Len(calls) - 1
        /\ \A i \in 1 .. Len(calls) - 1 : rest[i] = calls[i + 1]
    BY <1>1, <2>1
  <2>3. calls' = two \o rest
    BY <1>2, <2>1 DEF Pushed
  <2>4. PICK new : new = two \o rest
    OBVIOUS
  <2>5. /\ new \in Seq(Tasks) /\ Len(new) = 2 + Len(rest)
        /\ \A i \in 1 .. Len(new) : new[i] = IF i <= 2 THEN two[i] ELSE rest[i - 2]
    <3>0. two \in Seq(Tasks) /\ rest \in Seq(Tasks) /\ Len(two) = 2
      BY ONLY <1>3, <2>2
    <3>1. /\ new \in Seq(Tasks) /\ Len(new) = Len(two) + Len(rest)
          /\ \A i \in 1 .. Len(two) + Len(rest) :
               new[i] = IF i <= Len(two) THEN two[i] ELSE rest[i - Len(two)]
      BY ONLY <2>4, <3>0, ConcatFacts
    <3> QED BY ONLY <3>0, <3>1
  <2>6. new \in Seq(Tasks) /\ Len(new) = Len(calls) + 1 /\ new[1] = two[1] /\ new[2] = two[2]
    BY ONLY <1>1, <2>2, <2>5
  <2>7. ASSUME NEW i \in 3 .. Len(calls) + 1
        PROVE  new[i] = calls[i - 1] /\ i - 1 \in 2 .. Len(calls)
    <3>1. i \in 1 .. Len(new) /\ ~ i <= 2 /\ i - 2 \in 1 .. Len(calls) - 1
      BY ONLY <1>1, <2>6, <2>7
    <3>2. new[i] = rest[i - 2]
      BY ONLY <2>5, <3>1
    <3>3. rest[i - 2] = calls[(i - 2) + 1]
      BY ONLY <2>2, <3>1
    <3> QED BY ONLY <1>1, <2>7, <3>2, <3>3
  <2> QED BY <1>3, <2>3, <2>4, <2>6, <2>7
<1>5. \A i \in 2 .. Len(calls) : i + 1 \in 3 .. Len(calls) + 1 /\ calls'[i + 1] = calls[i]
  BY <1>1, <1>4
<1>6. /\ calls[1] = Task("mark", it) /\ it \in Slots /\ it \in Pending /\ it \notin D
  <2>1. calls[1] \in Tasks /\ 1 \in 1 .. Len(calls)
    BY <1>1
  <2>2. calls[1] = Task("mark", it) /\ it \in Slots
    BY <1>1, <2>1, TaskFacts DEF It
  <2>3. it \in Pending
    BY <2>1, <2>2 DEF Pending
  <2> QED BY <2>2, <2>3 DEF TasksOK
<1>7. \A i, j \in 1 .. Len(calls) : calls[i] = calls[j] /\ calls[i].do = "mark" => i = j
  BY DEF TasksOK
<1>8. \A i \in 1 .. Len(calls) : calls[i] # Task("mark", x) /\ calls[i] # Task("mark", y)
  BY DEF Pending
<1>9. Task("mark", x) # Task("mark", y)
  BY TaskFacts
<1>10. \A i, j \in 1 .. Len(calls') : calls'[i] = calls'[j] /\ calls'[i].do = "mark" => i = j
  <2> TAKE i, j \in 1 .. Len(calls')
  <2> HAVE calls'[i] = calls'[j] /\ calls'[i].do = "mark"
  <2>1. \A k \in 1 .. Len(calls') : k = 1 \/ k = 2 \/ k \in 3 .. Len(calls) + 1
    BY <1>1, <1>4
  <2>2. CASE i \in 3 .. Len(calls) + 1 /\ j \in 3 .. Len(calls) + 1
    <3>1. i - 1 = j - 1
      BY <1>4, <1>7, <2>2, SMTT(30)
    <3> QED BY <3>1
  <2>3. \A k \in 3 .. Len(calls) + 1 :
          calls'[k] # Task("mark", x) /\ calls'[k] # Task("mark", y)
    BY <1>4, <1>8
  <2> QED BY <1>4, <1>9, <2>1, <2>2, <2>3
<1>11. \A i \in 1 .. Len(calls') :
         calls'[i].do = "xmark" =>
          calls'[i].slot \in StackSlots /\ <<2, calls'[i].slot>> \notin visits'
  <2> TAKE i \in 1 .. Len(calls')
  <2> HAVE calls'[i].do = "xmark"
  <2>1. \A j \in 1 .. Len(calls) : calls[j].do = "xmark" => BitSlot(calls[j].slot)
    BY DEF TasksOK
  <2>2. i # 1 /\ i # 2
    BY <1>4, TaskFacts
  <2>3. i \in 3 .. Len(calls) + 1
    BY <1>1, <1>4, <2>2
  <2> QED BY <1>4, <2>1, <2>3 DEF BitSlot
<1>12. Pending' = (Pending \ {it}) \cup {x, y}
  <2>1. ASSUME NEW s \in Pending'
        PROVE  s \in (Pending \ {it}) \cup {x, y}
    <3>1. PICK i \in 1 .. Len(calls') : calls'[i] = Task("mark", s)
      BY <2>1 DEF Pending
    <3>2. CASE i = 1 \/ i = 2
      BY <3>1, <3>2, <1>4, TaskFacts
    <3>3. CASE i \in 3 .. Len(calls) + 1
      <4>1. calls[i - 1] = Task("mark", s) /\ i - 1 \in 1 .. Len(calls) /\ i - 1 # 1
        BY <3>1, <3>3, <1>4
      <4>2. s # it
        BY <4>1, <1>1, <1>6, <1>7, TaskFacts
      <4> QED BY <2>1, <4>1, <4>2 DEF Pending
    <3> QED BY <3>2, <3>3, <1>1, <1>4
  <2>2. x \in Pending' /\ y \in Pending'
    BY <1>1, <1>4 DEF Pending
  <2>3. ASSUME NEW s \in Pending, s # it
        PROVE  s \in Pending'
    <3>1. PICK i \in 1 .. Len(calls) : calls[i] = Task("mark", s)
      BY <2>3 DEF Pending
    <3>2. i # 1
      BY <3>1, <1>6, <2>3, TaskFacts
    <3>3. i + 1 \in 1 .. Len(calls') /\ calls'[i + 1] = Task("mark", s)
      BY <3>1, <3>2, <1>1, <1>4, <1>5
    <3> QED BY <2>3, <3>3 DEF Pending
  <2> QED BY <2>1, <2>2, <2>3
<1>13. \A s : BitPending(s) => BitPending(s)'
  <2> SUFFICES ASSUME NEW s, NEW i \in 1 .. Len(calls), calls[i] = Task("xmark", s)
               PROVE  BitPending(s)'
    BY DEF BitPending
  <2>1. i # 1
    BY <1>6, TaskFacts
  <2>2. i + 1 \in 1 .. Len(calls') /\ calls'[i + 1] = Task("xmark", s)
    BY <2>1, <1>1, <1>4, <1>5
  <2> QED BY <2>2 DEF BitPending
<1>14. Pending' \cap (D \cup {it}) = {}
  BY <1>6, <1>12 DEF TasksOK
<1>15. TasksOK(D \cup {it})'
  BY <1>4, <1>10, <1>11, <1>14 DEF TasksOK, BitSlot
<1> QED BY <1>6, <1>12, <1>13, <1>15

\* mark_object marks a cons and goes on to its car and cdr.
LEMMA ConsVisited ==
  ASSUME NEW D \in SUBSET Slots, TasksOK(D), MarksOK(D), VisitsOK(D),
         NEW it, it = It, calls # <<>>, Head(calls).do = "mark",
         NEW c \in Conses, before.val[it] = ConsAt(c), <<c, "car">> \notin marks,
         marks' = marks \cup {<<c, "car">>},
         NEW first \in {"car", "cdr"}, NEW then \in {"car", "cdr"}, first # then,
         calls' = <<Task("mark", <<c, first>>), Task("mark", <<c, then>>)>> \o Tail(calls),
         UNCHANGED <<visits, before>>
  PROVE  TasksOK(D \cup {it})' /\ MarksOK(D \cup {it})' /\ VisitsOK(D \cup {it})'
<1>1. PICK x, y : x = <<c, first>> /\ y = <<c, then>>
  OBVIOUS
<1>2. /\ <<c, "car">> \in {x, y} /\ x \in Slots /\ y \in Slots /\ x # y /\ Both(c) = {x, y}
      /\ x \in Cells /\ y \in Cells
  BY <1>1 DEF Slots, Cells, Both
<1>3. {x, y} \cap (D \cup Pending) = {}
  BY <1>1, <1>2 DEF MarksOK
<1>4. /\ it \in Slots /\ it \in Pending /\ it \notin D /\ TasksOK(D \cup {it})'
      /\ Pending' = (Pending \ {it}) \cup {x, y}
      /\ \A s : BitPending(s) => BitPending(s)'
  <2>1. calls' = Pushed(x, y)
    BY <1>1 DEF Pushed
  <2>2. visits' = visits /\ x \in Slots /\ y \in Slots /\ x # y
    BY <1>2
  <2>3. Pushing(D, it, x, y)
    BY <1>3, <2>2 DEF Pushing
  <2> QED BY ONLY <2>1, <2>2, <2>3, PushTasks
<1>5. PICK E, P : E = D \cup {it} /\ P = Pending'
  OBVIOUS
<1>6. E \cup P = D \cup Pending \cup {x, y} /\ InNeed' = InNeed
  BY <1>4, <1>5 DEF InNeed
<1>7. MarksOK(E)'
  <2>1. E \cup P \subseteq InNeed'
    <3>1. D \cup Pending \subseteq InNeed
      BY DEF MarksOK
    <3>2. {x, y} \subseteq InNeed
      BY <1>2, <1>4, <3>1, ReachFacts DEF InNeed
    <3> QED BY <1>6, <3>1, <3>2
  <2>2. ASSUME NEW d \in Conses
        PROVE  IF <<d, "car">> \in marks' THEN Both(d) \subseteq E \cup P
               ELSE Both(d) \cap (E \cup P) = {}
    <3>1. IF <<d, "car">> \in marks THEN Both(d) \subseteq D \cup Pending
          ELSE Both(d) \cap (D \cup Pending) = {}
      BY DEF MarksOK
    <3>2. CASE d = c
      <4>1. <<d, "car">> \in marks' /\ Both(d) = {x, y}
        BY <1>2, <3>2
      <4> QED BY <1>6, <4>1
    <3>3. CASE d # c
      <4>1. (<<d, "car">> \in marks' <=> <<d, "car">> \in marks) /\ Both(d) \cap {x, y} = {}
        BY <1>2, <3>3 DEF Both
      <4> QED BY <1>6, <3>1, <4>1
    <3> QED BY <3>2, <3>3
  <2>3. \A s \in E : \A d : before'.val[s] = ConsAt(d) => <<d, "car">> \in marks'
    <3>0. \A d : ConsAt(c) = ConsAt(d) => d = c
      BY WordKinds
    <3>1. \A d : before.val[it] = ConsAt(d) => d = c
      BY <3>0
    <3> QED BY <3>1, <1>1, <1>5 DEF MarksOK
  <2> QED BY <1>5, <2>1, <2>2, <2>3 DEF MarksOK
<1>8. VisitsOK(E)'
  <2>1. \A s \in Roots : s # x /\ s # y
    BY <1>2, GcAssumption DEF Roots, Cells
  <2>2. \A s \in Roots : s \in E \cup P <=> s \in D \cup Pending
    BY <1>6, <2>1
  <2>3. \A s \in Roots : s \in marks' <=> s \in marks
    BY <1>2, <2>1
  <2> QED BY <1>4, <1>5, <2>2, <2>3 DEF VisitsOK, Roots
<1> QED BY <1>4, <1>5, <1>7, <1>8

LEMMA MarkConsKeeps ==
  ASSUME GcInv, MarkCons
  PROVE  GcInv'
<1>1. /\ phase = "mark" /\ phase' = "mark" /\ calls # <<>> /\ Head(calls).do = "mark"
      /\ UNCHANGED <<val, free, blocks, large, phase, visits, scan, before>>
  BY DEF MarkCons, Marking, GcInv
<1>2. PICK D \in SUBSET Slots, rank \in [Slots -> Nat], clock \in Nat :
        Marked(D, rank, clock)
  BY <1>1 DEF GcInv, Marking1
<1>3. PICK it : it = It
  OBVIOUS
<1>4. /\ it \in Slots /\ it \notin D /\ it \in InNeed
      /\ val[it] = before.val[it] /\ val[it] \in Values
  BY <1>1, <1>2, <1>3, MarkingFacts
<1>5. val[it].t = "cons" /\ val[it] \in Words
  BY <1>3, <1>4, ValueWords DEF MarkCons
<1>6. PICK c \in Conses : val[it] = ConsAt(c)
  BY <1>5, WordFacts
<1>7. val[it].at[1] = c /\ \A d : before.val[it] = ConsAt(d) => d = c
  BY <1>4, <1>6, WordKinds
<1>8. TasksOK(D \cup {it})' /\ MarksOK(D \cup {it})' /\ VisitsOK(D \cup {it})'
  <2>1. CASE <<c, "car">> \in marks
    <3>1. calls' = Tail(calls) /\ marks' = marks
      BY <1>3, <1>7, <2>1 DEF MarkCons
    <3> QED BY <1>1, <1>2, <1>3, <1>7, <2>1, <3>1, Visited DEF Marked
  <2>2. CASE <<c, "car">> \notin marks
    <3>1. PICK first, then \in {"car", "cdr"} :
            /\ first # then /\ marks' = marks \cup {<<c, "car">>}
            /\ calls' = <<Task("mark", <<c, first>>), Task("mark", <<c, then>>)>> \o Tail(calls)
      BY <1>3, <1>7, <2>2 DEF MarkCons
    <3> QED BY <1>1, <1>2, <1>3, <1>4, <1>6, <2>2, <3>1, ConsVisited DEF Marked
  <2> QED BY <2>1, <2>2
<1>9. ChainsOK(D \cup {it}, [rank EXCEPT ![it] = clock], clock + 1)'
  BY <1>1, <1>2, <1>4, <1>5, ChainsStay DEF Marked
<1>10. LargesOK(D \cup {it})'
  BY <1>1, <1>2, <1>4, <1>5, WordKinds DEF Marked, LargesOK
<1>11. Marked(D \cup {it}, [rank EXCEPT ![it] = clock], clock + 1)'
  BY <1>8, <1>9, <1>10 DEF Marked
<1>12. Types' /\ LargesThere(before.val)'
  BY <1>1 DEF Types, LargesThere, GcInv
<1> QED BY <1>1, <1>2, <1>4, <1>11, <1>12, NextRank, MarkedAgain

LEMMA SetMarkbitKeeps ==
  ASSUME GcInv, SetMarkbit
  PROVE  GcInv'
<1>1. /\ phase = "mark" /\ phase' = "mark" /\ calls # <<>> /\ Head(calls).do = "xmark"
      /\ calls' = Tail(calls) /\ visits' = visits
      /\ UNCHANGED <<val, free, blocks, large, phase, visits, scan, before>>
  BY DEF SetMarkbit, Marking, GcInv
<1>2. PICK D \in SUBSET Slots, rank \in [Slots -> Nat], clock \in Nat :
        Marked(D, rank, clock)
  BY <1>1 DEF GcInv, Marking1
<1>3. PICK it : it = It
  OBVIOUS
<1>4. marks' = marks \cup {it}
  BY <1>3 DEF SetMarkbit
<1>5. TasksOK(D)
  BY <1>2 DEF Marked
<1>6. /\ it \in Slots /\ TasksOK(D)' /\ Pending' = Pending /\ BitSlot(it)
      /\ \A s : BitPending(s) => s = it \/ BitPending(s)'
  BY <1>1, <1>3, <1>5, PopTask
<1>7. MarksOK(D)'
  <2>1. \A c \in Conses : <<c, "car">> # it
    BY <1>6, GcAssumption DEF BitSlot
  <2>2. InNeed' = InNeed
    BY <1>1 DEF InNeed
  <2>3. MarksOK(D)
    BY <1>2 DEF Marked
  <2> QED BY <1>1, <1>4, <1>6, <2>1, <2>2, <2>3 DEF MarksOK
<1>8. VisitsOK(D)'
  <2>1. VisitsOK(D)
    BY <1>2 DEF Marked
  <2>2. ASSUME NEW s \in StackSlots
        PROVE  /\ s \in D \cup Pending' <=> <<2, s>> \notin visits'
               /\ <<2, s>> \in visits' => s \notin marks'
               /\ <<2, s>> \notin visits' => s \in marks' \/ BitPending(s)'
    BY <1>1, <1>4, <1>6, <2>1 DEF VisitsOK, BitSlot
  <2>3. /\ visits' \subseteq ({1} \X StaticSlots) \cup ({2, 3} \X StackSlots)
        /\ \A s \in StaticSlots : s \in D \cup Pending' <=> <<1, s>> \notin visits'
    BY <1>1, <1>6, <2>1 DEF VisitsOK
  <2> QED BY <2>2, <2>3 DEF VisitsOK
<1>9. ChainsOK(D, rank, clock)' /\ LargesOK(D)'
  BY <1>1, <1>2
    DEF Marked, ChainsOK, LargesOK, InChain, Chained, Before, SizeOf, Refs
<1>10. Marked(D, rank, clock)'
  BY <1>6, <1>7, <1>8, <1>9 DEF Marked
<1>11. Types' /\ LargesThere(before.val)'
  BY <1>1 DEF Types, LargesThere, GcInv
<1> QED BY <1>1, <1>2, <1>10, <1>11, MarkedAgain

\* mark_object is called for a root, unless it has its MARKBIT.
LEMMA RootVisited ==
  ASSUME NEW D, TasksOK(D), MarksOK(D), VisitsOK(D),
         calls = <<>>, NEW v \in visits, \A u \in visits : v[1] <= u[1],
         visits' = visits \ {v},
         calls' = IF v[1] = 1 THEN <<Task("mark", v[2])>>
                 ELSE IF v[2] \in marks THEN <<>>
                 ELSE <<Task("mark", v[2]), Task("xmark", v[2])>>,
         marks' = marks, before' = before
  PROVE  TasksOK(D)' /\ MarksOK(D)' /\ VisitsOK(D)'
<1>1. PICK n, s : n = v[1] /\ s = v[2]
  OBVIOUS
<1>2. v = <<n, s>> /\ ((n = 1 /\ s \in StaticSlots) \/ (n \in {2, 3} /\ s \in StackSlots))
  BY <1>1 DEF VisitsOK
<1>3. s \in Roots /\ s \in Slots /\ s \notin Cells
  BY <1>2, GcAssumption DEF Roots, Slots, Cells
<1>4. Pending = {} /\ \A u : ~ BitPending(u)
  BY DEF Pending, BitPending
<1>5. InNeed' = InNeed /\ s \in InNeed
  BY <1>3, ReachFacts DEF InNeed
<1>6. StaticSlots \cap StackSlots = {}
  BY GcAssumption
<1>7. ASSUME Pending' \in {{}, {s}}, s \notin D, TasksOK(D)'
      PROVE  MarksOK(D)'
  <2>1. \A c \in Conses : s \notin Both(c)
    BY <1>3 DEF Both, Cells
  <2> QED BY <1>4, <1>5, <1>7, <2>1 DEF MarksOK
<1>8. CASE n = 1
  <2>1. calls' = <<Task("mark", s)>> /\ s \in StaticSlots /\ v = <<1, s>>
    BY <1>1, <1>2, <1>8
  <2>2. /\ calls' \in Seq(Tasks) /\ Len(calls') = 1 /\ calls'[1] = Task("mark", s)
        /\ calls'[1].do = "mark"
    BY <1>3, <2>1, TaskFacts
  <2>3. Pending' = {s}
    BY <1>3, <2>2, TaskFacts DEF Pending
  <2>4. s \notin D
    BY <1>4, <2>1 DEF VisitsOK
  <2>5. TasksOK(D)'
    BY <2>2, <2>3, <2>4 DEF TasksOK
  <2>6. VisitsOK(D)'
    <3>1. \A u \in StaticSlots : u \in D \cup Pending' <=> <<1, u>> \notin visits'
      BY <1>4, <2>1, <2>3 DEF VisitsOK
    <3>2. ASSUME NEW u \in StackSlots
          PROVE  /\ u \in D \cup Pending' <=> <<2, u>> \notin visits'
                 /\ <<2, u>> \in visits' => u \notin marks'
                 /\ <<2, u>> \notin visits' => u \in marks' \/ BitPending(u)'
      <4>1. u # s /\ (<<2, u>> \in visits' <=> <<2, u>> \in visits)
        BY <1>6, <2>1
      <4> QED BY <1>4, <2>3, <4>1 DEF VisitsOK
    <3>3. visits' \subseteq ({1} \X StaticSlots) \cup ({2, 3} \X StackSlots)
      BY DEF VisitsOK
    <3> QED BY <3>1, <3>2, <3>3 DEF VisitsOK
  <2> QED BY <1>7, <2>3, <2>4, <2>5, <2>6
<1>9. CASE n # 1 /\ s \in marks
  <2>1. calls' = <<>> /\ s \in StackSlots
    BY <1>1, <1>2, <1>9
  <2>2. n = 3 /\ v = <<3, s>>
    BY <1>2, <1>9, <2>1 DEF VisitsOK
  <2>3. Pending' = {} /\ \A u : ~ BitPending(u)'
    BY <2>1 DEF Pending, BitPending
  <2>4. TasksOK(D)'
    BY <2>1, <2>3 DEF TasksOK
  <2>5. MarksOK(D)'
    BY <1>4, <1>5, <2>3 DEF MarksOK
  <2>6. \A u : (<<1, u>> \in visits' <=> <<1, u>> \in visits)
               /\ (<<2, u>> \in visits' <=> <<2, u>> \in visits)
    BY <2>2
  <2>7. VisitsOK(D)'
    BY <1>4, <2>3, <2>6 DEF VisitsOK
  <2> QED BY <2>4, <2>5, <2>7
<1>10. CASE n # 1 /\ s \notin marks
  <2>1. calls' = <<Task("mark", s), Task("xmark", s)>> /\ s \in StackSlots
    BY <1>1, <1>2, <1>10
  <2>2. <<2, s>> \in visits
    BY <1>4, <1>10, <2>1 DEF VisitsOK
  <2>3. v = <<2, s>>
    <3>1. n <= <<2, s>>[1]
      BY <1>1, <2>2
    <3> QED BY <1>2, <1>10, <3>1
  <2>4. /\ calls' \in Seq(Tasks) /\ Len(calls') = 2
        /\ calls'[1] = Task("mark", s) /\ calls'[2] = Task("xmark", s)
        /\ calls'[1].do = "mark" /\ calls'[2].do = "xmark" /\ calls'[2].slot = s
        /\ calls'[1] # calls'[2]
    BY <1>3, <2>1, TaskFacts
  <2>5. Pending' = {s}
    BY <1>3, <2>4, TaskFacts DEF Pending
  <2>6. \A u : BitPending(u)' <=> u = s
    BY <2>4, TaskFacts DEF BitPending
  <2>7. s \notin D
    BY <1>4, <2>1, <2>2 DEF VisitsOK
  <2>8. TasksOK(D)'
    <3>1. \A i \in 1 .. Len(calls') : i = 1 \/ i = 2
      BY <2>4
    <3>2. BitSlot(s)'
      BY <2>1, <2>3 DEF BitSlot
    <3>3. \A i, j \in 1 .. Len(calls') : calls'[i] = calls'[j] /\ calls'[i].do = "mark" => i = j
      BY <2>4, <3>1
    <3>4. \A i \in 1 .. Len(calls') : calls'[i].do = "xmark" => calls'[i].slot = s
      BY <2>4, <3>1
    <3> QED BY <2>4, <2>5, <2>7, <3>2, <3>3, <3>4 DEF TasksOK, BitSlot
  <2>9. VisitsOK(D)'
    <3>1. ASSUME NEW u \in StaticSlots
          PROVE  u \in D \cup Pending' <=> <<1, u>> \notin visits'
      <4>1. u # s /\ (<<1, u>> \in visits' <=> <<1, u>> \in visits)
        BY <1>6, <2>1, <2>3
      <4> QED BY <1>4, <2>5, <4>1 DEF VisitsOK
    <3>2. ASSUME NEW u \in StackSlots
          PROVE  /\ u \in D \cup Pending' <=> <<2, u>> \notin visits'
                 /\ <<2, u>> \in visits' => u \notin marks'
                 /\ <<2, u>> \notin visits' => u \in marks' \/ BitPending(u)'
      <4>1. <<2, u>> \in visits' <=> <<2, u>> \in visits /\ u # s
        BY <2>3
      <4> QED BY <1>4, <2>5, <2>6, <4>1 DEF VisitsOK
    <3>3. visits' \subseteq ({1} \X StaticSlots) \cup ({2, 3} \X StackSlots)
      BY DEF VisitsOK
    <3> QED BY <3>1, <3>2, <3>3 DEF VisitsOK
  <2> QED BY <1>7, <2>5, <2>7, <2>8, <2>9
<1> QED BY <1>8, <1>9, <1>10

LEMMA MarkRootKeeps ==
  ASSUME GcInv, MarkRoot
  PROVE  GcInv'
<1>1. /\ phase = "mark" /\ phase' = "mark" /\ calls = <<>>
      /\ UNCHANGED <<val, free, blocks, large, phase, marks, scan, before>>
  BY DEF MarkRoot, GcInv
<1>2. PICK D \in SUBSET Slots, rank \in [Slots -> Nat], clock \in Nat :
        Marked(D, rank, clock)
  BY <1>1 DEF GcInv, Marking1
<1>3. TasksOK(D)' /\ MarksOK(D)' /\ VisitsOK(D)'
  BY <1>1, <1>2, RootVisited DEF MarkRoot, Marked
<1>4. ChainsOK(D, rank, clock)' /\ LargesOK(D)'
  BY <1>1, <1>2
    DEF Marked, ChainsOK, LargesOK, InChain, Chained, Before, SizeOf, Refs
<1>5. Marked(D, rank, clock)'
  BY <1>3, <1>4 DEF Marked
<1>6. Types' /\ LargesThere(before.val)'
  BY <1>1 DEF Types, LargesThere, GcInv
<1> QED BY <1>1, <1>2, <1>5, <1>6, MarkedAgain
-----------------------------------------------------------------------------
(***************************************************************************)
(* Strings are moved.                                                      *)
(***************************************************************************)
LEMMA StringSlots ==
  ASSUME IsHeap(before.val, before.blocks), NEW s \in Slots, before.val[s].t = "string"
  PROVE  \E b, p \in Nat : /\ before.val[s] = Str(b, p) /\ Has(before.blocks, b, p)
                           /\ before.val[s].at[1] = b /\ before.val[s].at[2] = p
<1>1. before.val[s] \in Words
  BY ValueWords DEF IsHeap
<1>2. PICK b, p \in Nat : before.val[s] = Str(b, p)
  BY <1>1, WordFacts
<1>3. Has(before.blocks, b, p)
  BY <1>2 DEF IsHeap
<1> QED BY <1>2, <1>3, WordKinds

LEMMA AllMarked ==
  ASSUME IsHeap(before.val, before.blocks), calls = <<>>, visits = {},
         NEW D \in SUBSET Slots, MarksOK(D), VisitsOK(D)
  PROVE  D = InNeed /\ Pending = {}
<1>1. Pending = {}
  BY DEF Pending
<1>2. D \subseteq InNeed
  BY DEF MarksOK
<1>3. Roots \subseteq D
  BY <1>1 DEF VisitsOK, Roots
<1>4. \A s \in D : \A c \in Conses : before.val[s] = ConsAt(c) => Both(c) \subseteq D
  BY <1>1 DEF MarksOK
<1>5. before.val \in [Slots -> Words]
  BY ValueWords DEF IsHeap
<1>6. InNeed \subseteq D
  BY <1>3, <1>4, <1>5, ReachLeast DEF InNeed
<1> QED BY <1>1, <1>2, <1>6

LEMMA BeginScanKeeps ==
  ASSUME GcInv, BeginScan
  PROVE  GcInv'
<1>1. /\ phase = "mark" /\ phase' = "scan" /\ calls = <<>> /\ visits = {}
      /\ UNCHANGED <<val, free, blocks, large, visits, calls, marks, scan, before>>
  BY DEF BeginScan
<1>2. IsHeap(before.val, before.blocks) /\ LargesThere(before.val) /\ Types
      /\ scan = NotScanning
  BY <1>1 DEF GcInv, Marking1
<1>3. PICK D \in SUBSET Slots, rank \in [Slots -> Nat], clock \in Nat :
        Marked(D, rank, clock)
  BY <1>1 DEF GcInv, Marking1
<1>4. D = InNeed /\ Pending = {}
  BY <1>1, <1>2, <1>3, AllMarked DEF Marked
<1>5. ChainsOK(InNeed, rank, clock) /\ MarksOK(InNeed) /\ LargesOK(InNeed)
  BY <1>3, <1>4 DEF Marked
<1>6. /\ scan' = scan /\ scan.from = 1 /\ scan.pos = 0 /\ scan.to = 1 /\ scan.to_pos = 0
      /\ scan.newaddr = <<1, 0>> /\ scan.size = Size(0)
      /\ scan = [from |-> 1, pos |-> 0, to |-> 1, to_pos |-> 0, newaddr |-> <<1, 0>>,
                 size |-> Size(0)]
  BY <1>1, <1>2 DEF NotScanning
<1>7. InNeed' = InNeed /\ InNeed \subseteq Slots
  BY <1>1, ReachFacts DEF InNeed
<1>8. /\ blocks \in Seq(Block) /\ before.blocks \in Seq(Block)
      /\ Len(blocks) >= 1 /\ Len(blocks) = Len(before.blocks) /\ Len(blocks) \in Nat
  BY <1>2, <1>5 DEF Types, ChainsOK, IsHeap
<1>9. ScanOK'
  <2>1. scan.pos \in DOMAIN before.blocks[1].chars \cup {before.blocks[1].pos}
    BY <1>2, <1>6, <1>8 DEF IsHeap, Packed
  <2>2. Size(0) \in Links
    BY DEF Links
  <2>3. scan \in [from : 1 .. Len(blocks), pos : Nat, to : 1 .. Len(blocks), to_pos : Nat,
                  newaddr : Nat \X Nat, size : Links]
    BY <1>6, <1>8, <2>2
  <2> QED BY <1>1, <1>6, <1>8, <2>1, <2>3 DEF ScanOK
<1>10. AheadOK(rank)'
  <2>1. \A b \in 1 .. Len(blocks) : blocks[b].pos = before.blocks[b].pos
    BY <1>5 DEF ChainsOK
  <2>2. \A b, p : Has(before.blocks, b, p) =>
          /\ Has(blocks, b, p) /\ Id(blocks, b, p) = Id(before.blocks, b, p)
          /\ Chained(InNeed, rank, b, p)
    BY <1>5 DEF ChainsOK
  <2>3. \A s \in Slots : IsString(s) => InChain(InNeed, rank, s)
    BY <1>5 DEF ChainsOK, IsString
  <2> QED BY <1>1, <1>6, <1>7, <2>1, <2>2, <2>3
        DEF AheadOK, Chained, InChain, Refs, Before, SizeOf, IsString
<1>11. \A s \in Slots : IsString(s) => ~ PassedSlot(s)'
  <2> SUFFICES ASSUME NEW s \in Slots, IsString(s) PROVE ~ PassedSlot(s)'
    OBVIOUS
  <2>1. PICK b, p \in Nat : /\ Has(before.blocks, b, p)
                            /\ before.val[s].at[1] = b /\ before.val[s].at[2] = p
    BY <1>2, StringSlots DEF IsString
  <2>2. b >= 1 /\ p >= 0
    BY <2>1 DEF Has
  <2> QED BY <1>1, <1>6, <2>1, <2>2 DEF PassedSlot, Passed
<1>12. MovedOK'
  <2>1. \A b \in 1 .. 1 : b = 1
    OBVIOUS
  <2>2. Top(1)' = 0
    BY <1>1, <1>6 DEF Top
  <2>3. blocks[1] \in Block /\ DOMAIN blocks[1].chars \in SUBSET Nat
    BY <1>8, BlockFacts
  <2>4. Packed(Trim(blocks[1], 0))
    BY <2>3, TrimNothing
  <2>5. 0 <= STRING_BLOCK_SIZE
    BY GcAssumption
  <2>6. \A b, p : ~ Target(b, p)'
    BY <1>1, <1>6, <2>2, <2>3 DEF Target
  <2>7. \A s \in Slots : ~ (IsString(s)' /\ PassedSlot(s)')
    BY <1>1, <1>7, <1>11 DEF IsString
  <2> QED BY <1>1, <1>6, <2>2, <2>4, <2>5, <2>6, <2>7 DEF MovedOK
<1>13. RestOK'
  <2>1. \A s \in Slots : before.val[s].t # "string" => val[s] = before.val[s]
    BY <1>5 DEF ChainsOK
  <2>2. \A c \in Conses : /\ <<c, "car">> \in marks <=> <<c, "car">> \in InNeed
                          /\ <<c, "cdr">> \in InNeed <=> <<c, "car">> \in InNeed
    BY <1>4, <1>5 DEF MarksOK, Both
  <2>3. LargesOK(InNeed)'
    BY <1>1, <1>5, <1>7 DEF LargesOK
  <2> QED BY <1>1, <1>6, <1>7, <2>1, <2>2, <2>3 DEF RestOK
<1>14. Compacting'
  <2>1. \A s, u \in InNeed : rank[s] = rank[u] => s = u
    BY <1>5 DEF ChainsOK
  <2> QED BY <1>1, <1>7, <1>9, <1>10, <1>12, <1>13, <2>1 DEF Compacting
<1> QED BY <1>1, <1>2, <1>14 DEF GcInv, Types, LargesThere
\* Only the cursor moves, over strings that no slot refers to.
LEMMA ScanMoves ==
  ASSUME NEW rank, AheadOK(rank), MovedOK,
         UNCHANGED <<val, blocks, before>>, phase # "relocate", phase' # "relocate",
         scan'.to = scan.to, scan'.to_pos = scan.to_pos,
         scan'.from \in Nat, scan.from \in Nat, scan.from <= scan'.from,
         \A b, p : Has(before.blocks, b, p) /\ Passed(b, p) => Passed(b, p)',
         \A s \in Slots : IsString(s) => (PassedSlot(s)' <=> PassedSlot(s))
  PROVE  AheadOK(rank)' /\ MovedOK'
<1>1. InNeed' = InNeed /\ (\A s : IsString(s)' <=> IsString(s))
  BY DEF InNeed, IsString
<1>2. \A b, p : ~ Current(b, p) /\ ~ Current(b, p)'
  BY DEF Current
<1>3. \A b : Top(b)' = Top(b)
  BY DEF Top
<1>4. \A b, p : Target(b, p)' <=> Target(b, p)
  BY <1>3 DEF Target
<1>5. AheadOK(rank)'
  <2>1. \A b \in scan'.from .. Len(blocks') : blocks'[b].pos = before'.blocks[b].pos
    BY DEF AheadOK
  <2>2. ASSUME NEW b, NEW p, Has(before.blocks, b, p), ~ Passed(b, p)'
        PROVE  /\ Has(blocks, b, p) /\ Id(blocks, b, p) = Id(before.blocks, b, p)
               /\ Chained(InNeed, rank, b, p)'
    <3>1. /\ Has(blocks, b, p) /\ Id(blocks, b, p) = Id(before.blocks, b, p)
          /\ Chained(InNeed, rank, b, p)
      BY <1>2, <2>2 DEF AheadOK
    <3> QED BY <1>1, <3>1 DEF Chained, Refs
  <2>3. ASSUME NEW s \in Slots, IsString(s), ~ PassedSlot(s)
        PROVE  InChain(InNeed, rank, s)'
    <3>1. InChain(InNeed, rank, s)
      BY <1>2, <2>3 DEF AheadOK, CurrentSlot
    <3> QED BY <1>1, <3>1 DEF InChain, Before, SizeOf
  <2> QED BY <1>1, <2>1, <2>2, <2>3 DEF AheadOK
<1>6. MovedOK'
  BY <1>1, <1>3, <1>4 DEF MovedOK
<1> QED BY <1>5, <1>6

\* Where the cursor is.
LEMMA CursorFacts ==
  ASSUME GcInv, phase \notin {"run", "mark"}, NEW rank, ScanOK, AheadOK(rank)
  PROVE  /\ before.blocks \in Seq(Block) /\ blocks \in Seq(Block)
         /\ Len(blocks) = Len(before.blocks) /\ Len(blocks) \in Nat
         /\ scan.from \in 1 .. Len(blocks) /\ scan.pos \in Nat
         /\ scan.to \in 1 .. scan.from /\ scan.to_pos \in Nat
         /\ before.blocks[scan.from] \in Block /\ Packed(before.blocks[scan.from])
         /\ blocks[scan.from].pos = before.blocks[scan.from].pos
         /\ AtEnd => scan.pos = before.blocks[scan.from].pos
         /\ ~ AtEnd => Has(before.blocks, scan.from, scan.pos)
<1>1. /\ IsHeap(before.val, before.blocks) /\ Types
  BY DEF GcInv
<1>2. PICK f, pos : f = scan.from /\ pos = scan.pos
  OBVIOUS
<1>3. /\ before.blocks \in Seq(Block) /\ blocks \in Seq(Block)
      /\ Len(blocks) = Len(before.blocks) /\ Len(blocks) \in Nat
      /\ f \in 1 .. Len(blocks) /\ pos \in Nat
      /\ scan.to \in 1 .. Len(blocks) /\ scan.to <= f /\ scan.to_pos \in Nat
      /\ pos \in DOMAIN before.blocks[f].chars \cup {before.blocks[f].pos}
  BY <1>1, <1>2 DEF IsHeap, Types, ScanOK
<1>4. PICK block : block = before.blocks[f]
  OBVIOUS
<1>5. block \in Block /\ Packed(block) /\ block.pos \in Nat
  BY <1>1, <1>3, <1>4, BlockFacts DEF IsHeap
<1>6. \A p \in DOMAIN block.chars : p \in Nat /\ p < block.pos
  BY <1>5, PackedFacts
<1>7. blocks[f].pos = block.pos
  BY <1>2, <1>3, <1>4 DEF AheadOK
<1>8. AtEnd <=> pos >= block.pos
  BY <1>2, <1>7 DEF AtEnd
<1>9. AtEnd => pos = block.pos
  BY <1>3, <1>4, <1>5, <1>6, <1>8
<1>10. ~ AtEnd => Has(before.blocks, f, pos)
  BY <1>3, <1>4, <1>5, <1>8 DEF Has
<1> QED BY <1>2, <1>3, <1>4, <1>5, <1>7, <1>9, <1>10

LEMMA CompactingAgain ==
  ASSUME GcInv, Types', phase \notin {"run", "mark"}, phase' \notin {"run", "mark"},
         UNCHANGED <<large, before>>, Compacting'
  PROVE  GcInv'
BY DEF GcInv, LargesThere

LEMMA ScanBlockKeeps ==
  ASSUME GcInv, ScanBlock
  PROVE  GcInv'
<1>1. /\ phase = "scan" /\ AtEnd /\ phase' \in {"scan", "sweep"}
      /\ UNCHANGED <<val, free, blocks, large, visits, calls, marks, before>>
  BY DEF ScanBlock
<1>2. Types /\ IsHeap(before.val, before.blocks)
  BY <1>1 DEF GcInv
<1>3. PICK rank \in [Slots -> Nat] :
        /\ \A s, u \in InNeed : rank[s] = rank[u] => s = u
        /\ ScanOK /\ AheadOK(rank) /\ MovedOK /\ RestOK
  BY <1>1 DEF GcInv, Compacting
<1>4. /\ before.blocks \in Seq(Block) /\ blocks \in Seq(Block)
      /\ Len(blocks) = Len(before.blocks) /\ Len(blocks) \in Nat
      /\ scan.from \in 1 .. Len(blocks) /\ scan.pos \in Nat
      /\ scan.to \in 1 .. scan.from /\ scan.to_pos \in Nat
      /\ scan.pos = before.blocks[scan.from].pos
  BY <1>1, <1>3, CursorFacts
<1>5. InNeed' = InNeed /\ Types'
  BY <1>1, <1>2 DEF InNeed, Types
<1>6. CASE scan.from = Len(blocks)
  <2>1. phase' = "sweep" /\ scan' = scan
    BY <1>6 DEF ScanBlock
  <2>2. ScanOK'
    BY <1>1, <1>3, <2>1 DEF ScanOK
  <2>3. AheadOK(rank)' /\ MovedOK'
    <3>1. \A b, p : Passed(b, p)' <=> Passed(b, p)
      BY <2>1 DEF Passed
    <3>2. \A s : PassedSlot(s)' <=> PassedSlot(s)
      BY <1>1, <2>1 DEF PassedSlot, Passed
    <3> QED BY <1>1, <1>3, <1>4, <2>1, <3>1, <3>2, ScanMoves
  <2>4. RestOK'
    BY <1>1, <1>3, <1>4, <1>5, <1>6, <2>1 DEF RestOK, LargesOK
  <2>5. Compacting'
    BY <1>3, <1>5, <2>1, <2>2, <2>3, <2>4 DEF Compacting
  <2> QED BY <1>1, <1>5, <2>1, <2>5, CompactingAgain
<1>7. CASE scan.from # Len(blocks)
  <2>1. phase' = "scan" /\ scan' = [scan EXCEPT !.from = @ + 1, !.pos = 0]
    BY <1>1, <1>7 DEF ScanBlock
  <2>2. /\ scan \in [from : 1 .. Len(blocks), pos : Nat, to : 1 .. Len(blocks),
                     to_pos : Nat, newaddr : Nat \X Nat, size : Links]
    BY <1>3 DEF ScanOK
  <2>3. /\ scan'.from = scan.from + 1 /\ scan'.pos = 0 /\ scan'.to = scan.to
        /\ scan'.to_pos = scan.to_pos /\ scan'.from \in 1 .. Len(blocks)
        /\ scan' \in [from : 1 .. Len(blocks), pos : Nat, to : 1 .. Len(blocks),
                      to_pos : Nat, newaddr : Nat \X Nat, size : Links]
    <3>1. PICK f : f = scan.from + 1 /\ f \in 1 .. Len(blocks)
      BY <1>4, <1>7
    <3>2. scan' = [scan EXCEPT !.from = f, !.pos = 0]
      BY <2>1, <3>1
    <3> QED BY <2>2, <3>1, <3>2
  <2>4. ScanOK'
    <3>1. 0 \in DOMAIN before.blocks[scan'.from].chars \cup {before.blocks[scan'.from].pos}
      BY <1>2, <1>4, <2>3 DEF IsHeap, Packed
    <3> QED BY <1>1, <1>4, <2>3, <3>1 DEF ScanOK
  <2>5. ASSUME NEW b, NEW p, Has(before.blocks, b, p)
        PROVE  Passed(b, p)' <=> Passed(b, p)
    <3>1. b \in Nat /\ p \in Nat /\ (b = scan.from => p < scan.pos)
      <4>1. b \in 1 .. Len(before.blocks) /\ p \in DOMAIN before.blocks[b].chars
        BY <2>5 DEF Has
      <4>2. before.blocks[b] \in Block /\ Packed(before.blocks[b])
        BY <1>2, <4>1 DEF IsHeap
      <4>3. p \in Nat /\ p < before.blocks[b].pos
        BY <4>1, <4>2, PackedFacts
      <4> QED BY <1>4, <4>1, <4>3
    <3> QED BY <1>4, <2>3, <3>1 DEF Passed
  <2>6. ASSUME NEW s \in Slots, IsString(s)
        PROVE  PassedSlot(s)' <=> PassedSlot(s)
    <3>1. PICK b, p \in Nat : /\ Has(before.blocks, b, p)
                              /\ before.val[s].at[1] = b /\ before.val[s].at[2] = p
      BY <1>2, <2>6, StringSlots DEF IsString
    <3>2. (PassedSlot(s) <=> Passed(b, p)) /\ (PassedSlot(s)' <=> Passed(b, p)')
      BY <1>1, <3>1 DEF PassedSlot
    <3> QED BY <2>5, <3>1, <3>2
  <2>7. AheadOK(rank)' /\ MovedOK'
    <3>1. scan'.from \in Nat /\ scan.from \in Nat /\ scan.from <= scan'.from
      BY <1>4, <2>3
    <3> QED BY <1>1, <1>3, <2>1, <2>3, <2>5, <2>6, <3>1, ScanMoves
  <2>8. RestOK'
    <3>1. ~ scan'.to = scan'.from
      BY <1>4, <2>3
    <3> QED BY <1>1, <1>3, <1>5, <2>1, <3>1 DEF RestOK, LargesOK
  <2>9. Compacting'
    BY <1>3, <1>5, <2>1, <2>4, <2>7, <2>8 DEF Compacting
  <2> QED BY <1>1, <1>5, <2>1, <2>9, CompactingAgain
<1> QED BY <1>6, <1>7
\* The string at the cursor, which has not been passed.
LEMMA NextFacts ==
  ASSUME GcInv, phase \notin {"run", "mark"}, NEW rank, ScanOK, AheadOK(rank),
         phase # "relocate", Has(before.blocks, scan.from, scan.pos)
  PROVE  LET f == scan.from
             p == scan.pos
         IN /\ Has(blocks, f, p) /\ Id(blocks, f, p) = Id(before.blocks, f, p)
            /\ Chained(InNeed, rank, f, p)
            /\ Link(blocks, f, p) \in Links
            /\ \E n \in Nat :
                 /\ Link(before.blocks, f, p) = Size(n)
                 /\ p + FullSize(n) \in DOMAIN before.blocks[f].chars
                                          \cup {before.blocks[f].pos}
                 /\ p + FullSize(n) <= before.blocks[f].pos
                 /\ \A q \in DOMAIN before.blocks[f].chars : p < q => p + FullSize(n) <= q
<1>1. PICK f, p : f = scan.from /\ p = scan.pos
  OBVIOUS
<1>2. /\ blocks \in Seq(Block) /\ before.blocks[f] \in Block /\ Packed(before.blocks[f])
      /\ f \in Nat /\ p \in Nat
  BY <1>1, CursorFacts
<1>3. p \in DOMAIN before.blocks[f].chars
  BY <1>1 DEF Has
<1>4. \E n \in Nat :
        /\ before.blocks[f].chars[p].size = Size(n) /\ p \in Nat
        /\ p + FullSize(n) \in DOMAIN before.blocks[f].chars \cup {before.blocks[f].pos}
        /\ p + FullSize(n) <= before.blocks[f].pos /\ p < before.blocks[f].pos
        /\ \A q \in DOMAIN before.blocks[f].chars : p < q => p + FullSize(n) <= q
  BY <1>2, <1>3, PackedFacts
<1>5. ~ Passed(f, p) /\ ~ Current(f, p)
  BY <1>1, <1>2 DEF Passed, Current
<1>6. /\ Has(blocks, f, p) /\ Id(blocks, f, p) = Id(before.blocks, f, p)
      /\ Chained(InNeed, rank, f, p)
  BY <1>1, <1>5 DEF AheadOK
<1>7. Link(blocks, f, p) \in Links
  BY <1>2, <1>6, StringFacts
<1> QED BY <1>1, <1>4, <1>6, <1>7 DEF Link

LEMMA ScanStringKeeps ==
  ASSUME GcInv, ScanString
  PROVE  GcInv'
<1>1. /\ phase = "scan" /\ ~ AtEnd /\ phase' \in {"scan", "measure"}
      /\ UNCHANGED <<val, free, blocks, large, visits, calls, marks, before>>
  BY DEF ScanString
<1>2. Types /\ IsHeap(before.val, before.blocks)
  BY <1>1 DEF GcInv
<1>3. PICK rank \in [Slots -> Nat] :
        /\ \A s, u \in InNeed : rank[s] = rank[u] => s = u
        /\ ScanOK /\ AheadOK(rank) /\ MovedOK /\ RestOK
  BY <1>1 DEF GcInv, Compacting
<1>4. PICK f, p : f = scan.from /\ p = scan.pos
  OBVIOUS
<1>5. /\ Len(blocks) = Len(before.blocks) /\ Len(blocks) \in Nat
      /\ f \in 1 .. Len(blocks) /\ p \in Nat
      /\ scan.to \in 1 .. f /\ scan.to_pos \in Nat
      /\ Has(before.blocks, f, p)
  BY <1>1, <1>3, <1>4, CursorFacts
<1>6. /\ HeadOf(Link(blocks, f, p), Refs(InNeed, f, p), rank, Link(before.blocks, f, p))
      /\ Link(blocks, f, p) \in Links
  BY <1>1, <1>3, <1>4, <1>5, NextFacts DEF Chained
<1>7. PICK n \in Nat :
        /\ Link(before.blocks, f, p) = Size(n)
        /\ p + FullSize(n) \in DOMAIN before.blocks[f].chars \cup {before.blocks[f].pos}
        /\ p + FullSize(n) <= before.blocks[f].pos
        /\ \A q \in DOMAIN before.blocks[f].chars : p < q => p + FullSize(n) <= q
  BY <1>1, <1>3, <1>4, <1>5, NextFacts
<1>8. PICK link : link = Link(blocks, f, p)
  OBVIOUS
<1>9. /\ link.k = "size" => Refs(InNeed, f, p) = {} /\ link = Size(n)
      /\ link.k # "size" => /\ link.slot \in Refs(InNeed, f, p)
                            /\ \A u \in Refs(InNeed, f, p) : rank[u] <= rank[link.slot]
  <2>1. Size(n).k = "size"
    BY DEF Size
  <2> QED BY <1>6, <1>7, <1>8, <2>1, HeadFacts
<1>10. InNeed' = InNeed /\ InNeed \subseteq Slots /\ Types'
  BY <1>1, <1>2, ReachFacts DEF InNeed, Types
<1>11. scan \in [from : 1 .. Len(blocks), pos : Nat, to : 1 .. Len(blocks), to_pos : Nat,
                 newaddr : Nat \X Nat, size : Links]
  BY <1>3 DEF ScanOK
<1>12. NextStr.size = link
  BY <1>4, <1>8 DEF NextStr, Link
<1>13. CASE link.k = "size"
  <2>1. phase' = "scan" /\ scan' = [scan EXCEPT !.pos = @ + FullSize(n)]
    <3>1. Size(n).n = n
      BY DEF Size
    <3> QED BY <1>1, <1>9, <1>12, <1>13, <3>1 DEF ScanString
  <2>2. FullSize(n) = n + 1 /\ p + FullSize(n) \in Nat
    BY <1>5 DEF FullSize
  <2>3. /\ scan'.from = f /\ scan'.pos = p + FullSize(n) /\ scan'.to = scan.to
        /\ scan'.to_pos = scan.to_pos
        /\ scan' \in [from : 1 .. Len(blocks), pos : Nat, to : 1 .. Len(blocks),
                      to_pos : Nat, newaddr : Nat \X Nat, size : Links]
    <3>1. PICK pos : pos = p + FullSize(n) /\ pos \in Nat
      BY <2>2
    <3>2. scan' = [scan EXCEPT !.pos = pos]
      BY <1>4, <2>1, <3>1
    <3> QED BY <1>4, <1>11, <3>1, <3>2
  <2>4. ScanOK'
    BY <1>1, <1>3, <1>4, <1>7, <2>3 DEF ScanOK
  <2>5. ASSUME NEW b, NEW q, Has(before.blocks, b, q)
        PROVE  /\ Passed(b, q) => Passed(b, q)'
               /\ Passed(b, q)' => Passed(b, q) \/ (b = f /\ q = p)
    <3>1. b \in Nat /\ q \in Nat
      BY <1>2, <2>5, StringFacts DEF IsHeap
    <3>2. b = f => q \in DOMAIN before.blocks[f].chars
      BY <2>5 DEF Has
    <3>3. b = f /\ q < p + FullSize(n) => q <= p
      BY <1>5, <1>7, <2>2, <3>1, <3>2
    <3> QED BY <1>4, <1>5, <2>2, <2>3, <3>1, <3>3, SMTT(30) DEF Passed
  <2>6. ASSUME NEW s \in Slots, IsString(s)
        PROVE  PassedSlot(s)' <=> PassedSlot(s)
    <3>1. PICK b, q \in Nat : /\ before.val[s] = Str(b, q) /\ Has(before.blocks, b, q)
                              /\ before.val[s].at[1] = b /\ before.val[s].at[2] = q
      BY <1>2, <2>6, StringSlots DEF IsString
    <3>2. (PassedSlot(s) <=> Passed(b, q)) /\ (PassedSlot(s)' <=> Passed(b, q)')
      BY <1>1, <3>1 DEF PassedSlot
    <3>3. ~ (b = f /\ q = p)
      BY <1>9, <1>13, <2>6, <3>1 DEF Refs, IsString
    <3> QED BY <2>5, <3>1, <3>2, <3>3
  <2>7. AheadOK(rank)' /\ MovedOK'
    <3>1. scan'.from \in Nat /\ scan.from \in Nat /\ scan.from <= scan'.from
      BY <1>4, <1>5, <2>3
    <3> QED BY <1>1, <1>3, <2>1, <2>3, <2>5, <2>6, <3>1, ScanMoves
  <2>8. RestOK'
    <3>1. scan'.to = scan'.from => scan'.to_pos <= scan'.pos
      BY <1>1, <1>3, <1>4, <1>5, <2>2, <2>3 DEF RestOK
    <3> QED BY <1>1, <1>3, <1>10, <2>1, <3>1 DEF RestOK, LargesOK
  <2>9. Compacting'
    BY <1>3, <1>10, <2>1, <2>4, <2>7, <2>8 DEF Compacting
  <2> QED BY <1>1, <1>10, <2>1, <2>9, CompactingAgain
<1>14. CASE link.k # "size"
  <2>1. phase' = "measure" /\ scan' = [scan EXCEPT !.size = link]
    BY <1>1, <1>12, <1>14 DEF ScanString
  <2>2. /\ scan'.from = f /\ scan'.pos = p /\ scan'.to = scan.to
        /\ scan'.to_pos = scan.to_pos /\ scan'.size = link
        /\ scan' \in [from : 1 .. Len(blocks), pos : Nat, to : 1 .. Len(blocks),
                      to_pos : Nat, newaddr : Nat \X Nat, size : Links]
    BY <1>4, <1>6, <1>8, <1>11, <2>1
  <2>3. ScanOK'
    BY <1>1, <1>3, <1>4, <2>2 DEF ScanOK
  <2>4. AheadOK(rank)' /\ MovedOK'
    <3>1. \A b, q : Passed(b, q)' <=> Passed(b, q)
      BY <1>4, <2>2 DEF Passed
    <3>2. \A s : PassedSlot(s)' <=> PassedSlot(s)
      BY <1>1, <1>4, <2>2 DEF PassedSlot, Passed
    <3>3. scan'.from \in Nat /\ scan.from \in Nat /\ scan.from <= scan'.from
      BY <1>4, <1>5, <2>2
    <3> QED BY <1>1, <1>3, <2>1, <2>2, <3>1, <3>2, <3>3, ScanMoves
  <2>5. RestOK'
    BY <1>1, <1>3, <1>4, <1>10, <2>1, <2>2 DEF RestOK, LargesOK
  <2>6. Measuring(rank)'
    <3>1. PICK h : h = link.slot
      OBVIOUS
    <3>2. h \in InNeed /\ before.val[h] = Str(f, p) /\ rank[h] \in Nat
      BY <1>3, <1>9, <1>10, <1>14, <3>1 DEF Refs
    <3>3. PICK cut \in Nat : cut = rank[h] + 1
      BY <3>2
    <3>4. \A u \in Refs(InNeed, f, p) : rank[u] < cut
      <4>1. \A u \in Refs(InNeed, f, p) : rank[u] \in Nat /\ rank[u] <= rank[h]
        BY <1>3, <1>9, <1>10, <1>14, <3>1 DEF Refs
      <4> QED BY <3>2, <3>3, <4>1
    <3>5. {u \in Refs(InNeed, f, p) : rank[u] < cut} = Refs(InNeed, f, p)
      BY <3>4
    <3>6. HeadOf(link, {u \in Refs(InNeed, f, p) : rank[u] < cut}, rank,
                 Link(before.blocks, f, p))
      BY <1>6, <1>8, <3>5
    <3>7. Refs(InNeed, f, p)' = Refs(InNeed, f, p)
      BY <1>1, <1>10 DEF Refs
    <3> QED BY <1>1, <1>5, <1>10, <2>2, <3>2, <3>6, <3>7 DEF Measuring, Refs
  <2>7. Compacting'
    BY <1>3, <1>10, <2>1, <2>3, <2>4, <2>5, <2>6 DEF Compacting
  <2> QED BY <1>1, <1>10, <2>1, <2>7, CompactingAgain
<1> QED BY <1>13, <1>14
\* A slot of a chain leads to those that were marked before it.
LEMMA ChainFollowed ==
  ASSUME NEW rank, NEW f, NEW p, NEW h \in Refs(InNeed, f, p), InChain(InNeed, rank, h)
  PROVE  \E l \in Links :
           /\ val[h] = Threaded(l) /\ val[h].link = l
           /\ HeadOf(l, {u \in Refs(InNeed, f, p) : rank[u] < rank[h]}, rank,
                     Link(before.blocks, f, p))
<1>1. PICK l \in Links :
        /\ val[h] = Threaded(l)
        /\ HeadOf(l, Before(InNeed, rank, h), rank, SizeOf(h))
  BY DEF InChain
<1>2. before.val[h] = Str(f, p)
  BY DEF Refs
<1>3. Before(InNeed, rank, h) = {u \in Refs(InNeed, f, p) : rank[u] < rank[h]}
  BY <1>2 DEF Before, Refs
<1>4. SizeOf(h) = Link(before.blocks, f, p)
  BY <1>2, WordKinds DEF SizeOf
<1>5. PICK S : S = {u \in Refs(InNeed, f, p) : rank[u] < rank[h]}
  OBVIOUS
<1>6. HeadOf(l, S, rank, Link(before.blocks, f, p))
  BY <1>1, <1>3, <1>4, <1>5
<1>7. val[h].link = l
  BY <1>1, WordKinds
<1> QED BY <1>1, <1>5, <1>6, <1>7

LEMMA FollowChainKeeps ==
  ASSUME GcInv, FollowChain
  PROVE  GcInv'
<1>1. /\ phase = "measure" /\ phase' = "measure" /\ scan.size.k = "slot"
      /\ UNCHANGED <<val, free, blocks, large, visits, calls, marks, before>>
  BY DEF FollowChain
<1>2. Types /\ IsHeap(before.val, before.blocks)
  BY <1>1 DEF GcInv
<1>3. PICK rank \in [Slots -> Nat] :
        /\ \A s, u \in InNeed : rank[s] = rank[u] => s = u
        /\ ScanOK /\ AheadOK(rank) /\ MovedOK /\ RestOK /\ Measuring(rank)
  BY <1>1 DEF GcInv, Compacting
<1>4. PICK f, p : f = scan.from /\ p = scan.pos
  OBVIOUS
<1>5. /\ f \in 1 .. Len(blocks) /\ p \in Nat /\ Len(blocks) \in Nat
      /\ Has(before.blocks, f, p)
  BY <1>1, <1>3, <1>4, CursorFacts DEF Measuring
<1>6. PICK s0 \in InNeed : before.val[s0] = Str(f, p)
  BY <1>3, <1>4 DEF Measuring
<1>7. PICK cut \in Nat :
        HeadOf(scan.size, {u \in Refs(InNeed, f, p) : rank[u] < cut}, rank,
               Link(before.blocks, f, p))
  BY <1>3, <1>4 DEF Measuring
<1>8. Link(before.blocks, f, p).k = "size"
  <2>1. PICK n \in Nat : Link(before.blocks, f, p) = Size(n)
    BY <1>1, <1>3, <1>4, <1>5, NextFacts
  <2> QED BY <2>1 DEF Size
<1>9. PICK h : h = scan.size.slot
  OBVIOUS
<1>10. h \in Refs(InNeed, f, p) /\ rank[h] < cut
  BY <1>1, <1>7, <1>8, <1>9, HeadFacts
<1>11. InNeed' = InNeed /\ InNeed \subseteq Slots /\ Types'
  BY <1>1, <1>2, ReachFacts DEF InNeed, Types
<1>12. /\ h \in InNeed /\ h \in Slots /\ before.val[h] = Str(f, p) /\ rank[h] \in Nat
       /\ before.val[h].t = "string" /\ before.val[h].at[1] = f /\ before.val[h].at[2] = p
  BY <1>3, <1>10, <1>11, WordKinds DEF Refs
<1>13. InChain(InNeed, rank, h)
  <2>1. IsString(h) /\ ~ PassedSlot(h) /\ ~ CurrentSlot(h)
    BY <1>1, <1>4, <1>5, <1>12 DEF IsString, PassedSlot, Passed, CurrentSlot, Current
  <2> QED BY <1>3, <1>12, <2>1 DEF AheadOK
<1>14. PICK l \in Links :
         /\ val[h] = Threaded(l) /\ val[h].link = l
         /\ HeadOf(l, {u \in Refs(InNeed, f, p) : rank[u] < rank[h]}, rank,
                   Link(before.blocks, f, p))
  BY <1>10, <1>13, ChainFollowed
<1>15. scan' = [scan EXCEPT !.size = l]
  BY <1>9, <1>14 DEF FollowChain
<1>16. scan \in [from : 1 .. Len(blocks), pos : Nat, to : 1 .. Len(blocks), to_pos : Nat,
                 newaddr : Nat \X Nat, size : Links]
  BY <1>3 DEF ScanOK
<1>17. /\ scan'.from = f /\ scan'.pos = p /\ scan'.to = scan.to
       /\ scan'.to_pos = scan.to_pos /\ scan'.size = l
       /\ scan' \in [from : 1 .. Len(blocks), pos : Nat, to : 1 .. Len(blocks),
                     to_pos : Nat, newaddr : Nat \X Nat, size : Links]
  BY <1>4, <1>15, <1>16
<1>18. ScanOK'
  BY <1>1, <1>3, <1>4, <1>17 DEF ScanOK
<1>19. AheadOK(rank)' /\ MovedOK'
  <2>1. \A b, q : Passed(b, q)' <=> Passed(b, q)
    BY <1>4, <1>17 DEF Passed
  <2>2. \A s : PassedSlot(s)' <=> PassedSlot(s)
    BY <1>1, <1>4, <1>17 DEF PassedSlot, Passed
  <2>3. scan'.from \in Nat /\ scan.from \in Nat /\ scan.from <= scan'.from
    BY <1>4, <1>5, <1>17
  <2> QED BY <1>1, <1>3, <1>17, <2>1, <2>2, <2>3, ScanMoves
<1>20. RestOK'
  BY <1>1, <1>3, <1>4, <1>11, <1>17 DEF RestOK, LargesOK
<1>21. Measuring(rank)'
  <2>1. Refs(InNeed, f, p)' = Refs(InNeed, f, p)
    BY <1>1, <1>11 DEF Refs
  <2> QED BY <1>1, <1>5, <1>6, <1>11, <1>12, <1>14, <1>17, <2>1, ZenonT(40) DEF Measuring, Refs
<1>22. Compacting'
  BY <1>1, <1>3, <1>11, <1>18, <1>19, <1>20, <1>21 DEF Compacting
<1> QED BY <1>1, <1>11, <1>22, CompactingAgain
\* The chain has been followed to its end.
LEMMA Measured ==
  ASSUME NEW S, NEW rank, NEW before_link, NEW n \in Nat, before_link = Size(n),
         HeadOf(scan.size, S, rank, before_link), scan.size.k = "size"
  PROVE  S = {} /\ scan.size = Size(n) /\ Full = FullSize(n)
<1>1. Size(n).k = "size" /\ Size(n).n = n
  BY DEF Size
<1>2. S = {} /\ scan.size = Size(n)
  BY <1>1, HeadFacts
<1> QED BY <1>1, <1>2 DEF Full

LEMMA CloseBlockKeeps ==
  ASSUME GcInv, CloseBlock
  PROVE  GcInv'
<1>1. /\ phase = "measure" /\ phase' = "measure" /\ scan.size.k = "size"
      /\ UNCHANGED <<val, free, large, phase, visits, calls, marks, before>>
  BY DEF CloseBlock
<1>2. Types /\ IsHeap(before.val, before.blocks)
  BY <1>1 DEF GcInv
<1>3. PICK rank \in [Slots -> Nat] :
        /\ \A s, u \in InNeed : rank[s] = rank[u] => s = u
        /\ ScanOK /\ AheadOK(rank) /\ MovedOK /\ RestOK /\ Measuring(rank)
  BY <1>1 DEF GcInv, Compacting
<1>4. PICK f, p, to, end : f = scan.from /\ p = scan.pos /\ to = scan.to /\ end = scan.to_pos
  OBVIOUS
<1>5. /\ f \in 1 .. Len(blocks) /\ p \in Nat /\ Len(blocks) \in Nat
      /\ blocks \in Seq(Block) /\ Len(blocks) = Len(before.blocks)
      /\ to \in 1 .. f /\ to \in 1 .. Len(blocks) /\ end \in Nat
      /\ Has(before.blocks, f, p)
  BY <1>1, <1>3, <1>4, CursorFacts DEF Measuring
<1>6. PICK n \in Nat : /\ Link(before.blocks, f, p) = Size(n)
                       /\ p + FullSize(n) <= before.blocks[f].pos
  BY <1>1, <1>3, <1>4, <1>5, NextFacts
<1>7. Full = FullSize(n) /\ FullSize(n) = n + 1
  <2>1. PICK cut \in Nat :
          HeadOf(scan.size, {u \in Refs(InNeed, f, p) : rank[u] < cut}, rank,
                 Link(before.blocks, f, p))
    BY <1>3, <1>4 DEF Measuring
  <2> QED BY <1>1, <1>6, <2>1, Measured DEF FullSize
<1>8. to < f
  <2> SUFFICES ASSUME to = f PROVE FALSE
    BY <1>5
  <2>1. end <= p
    BY <1>1, <1>3, <1>4 DEF RestOK
  <2>2. before.blocks[f].pos <= STRING_BLOCK_SIZE /\ before.blocks[f].pos \in Nat
    <3>1. before.blocks \in Seq(Block)
      BY <1>2 DEF IsHeap
    <3> QED BY <1>2, <1>5, <3>1, BlockFacts DEF IsHeap
  <2>3. end + FullSize(n) <= STRING_BLOCK_SIZE
    BY <1>5, <1>6, <1>7, <2>1, <2>2, GcAssumption
  <2> QED BY <1>4, <1>7, <2>3 DEF CloseBlock, Fits
<1>9. blocks' = WithPos(blocks, to, end) /\ scan' = [scan EXCEPT !.to = @ + 1, !.to_pos = 0]
  BY <1>4 DEF CloseBlock, WithPos
<1>10. /\ blocks' \in Seq(Block) /\ Len(blocks') = Len(blocks)
       /\ blocks'[to].pos = end /\ blocks'[to].chars = blocks[to].chars
       /\ \A c \in 1 .. Len(blocks) : c # to => blocks'[c] = blocks[c]
  <2>1. PICK new : new = WithPos(blocks, to, end)
    OBVIOUS
  <2>2. /\ new \in Seq(Block) /\ Len(new) = Len(blocks)
        /\ new[to].pos = end /\ new[to].chars = blocks[to].chars
        /\ \A c \in 1 .. Len(blocks) : c # to => new[c] = blocks[c]
    <3>1. blocks \in Seq(Block) /\ to \in 1 .. Len(blocks) /\ end \in Nat
      BY <1>5
    <3> QED BY ONLY <2>1, <3>1, SetPos
  <2> QED BY <1>9, <2>1, <2>2
<1>11. /\ \A b, q : Has(blocks', b, q) <=> Has(blocks, b, q)
       /\ \A b, q : Has(blocks, b, q) => /\ Id(blocks', b, q) = Id(blocks, b, q)
                                         /\ Link(blocks', b, q) = Link(blocks, b, q)
  <2>1. \A b \in 1 .. Len(blocks) : blocks'[b].chars = blocks[b].chars
    BY <1>10
  <2> QED BY <1>10, <2>1 DEF Has, Id, Link
<1>12. scan \in [from : 1 .. Len(blocks), pos : Nat, to : 1 .. Len(blocks), to_pos : Nat,
                 newaddr : Nat \X Nat, size : Links]
  BY <1>3 DEF ScanOK
<1>13. /\ scan'.from = f /\ scan'.pos = p /\ scan'.to = to + 1 /\ scan'.to_pos = 0
       /\ scan'.size = scan.size
       /\ scan' \in [from : 1 .. Len(blocks), pos : Nat, to : 1 .. Len(blocks),
                     to_pos : Nat, newaddr : Nat \X Nat, size : Links]
  <2>1. PICK next : next = to + 1 /\ next \in 1 .. Len(blocks)
    BY <1>5, <1>8
  <2>2. scan' = [scan EXCEPT !.to = next, !.to_pos = 0]
    BY <1>4, <1>9, <2>1
  <2> QED BY <1>4, <1>12, <2>1, <2>2
<1>14. ScanOK'
  BY <1>1, <1>3, <1>4, <1>5, <1>8, <1>10, <1>13, SMTT(30) DEF ScanOK
<1>15. InNeed' = InNeed /\ InNeed \subseteq Slots /\ Types'
  BY <1>1, <1>2, <1>10, ReachFacts DEF InNeed, Types
<1>16. /\ \A b, q : Passed(b, q)' <=> Passed(b, q)
       /\ \A b, q : ~ Current(b, q) /\ ~ Current(b, q)'
       /\ \A s : (IsString(s)' <=> IsString(s)) /\ (PassedSlot(s)' <=> PassedSlot(s))
  BY <1>1, <1>4, <1>13, <1>15 DEF Passed, Current, IsString, PassedSlot
<1>17. AheadOK(rank)'
  <2>1. \A b \in f .. Len(blocks) : blocks'[b].pos = before.blocks[b].pos
    BY <1>3, <1>4, <1>5, <1>8, <1>10 DEF AheadOK
  <2>2. ASSUME NEW b, NEW q, Has(before.blocks, b, q), ~ Passed(b, q)
        PROVE  /\ Has(blocks', b, q) /\ Id(blocks', b, q) = Id(before.blocks, b, q)
               /\ Chained(InNeed, rank, b, q)'
    <3>1. /\ Has(blocks, b, q) /\ Id(blocks, b, q) = Id(before.blocks, b, q)
          /\ Chained(InNeed, rank, b, q)
      BY <1>3, <1>16, <2>2 DEF AheadOK
    <3> QED BY <1>1, <1>11, <1>15, <3>1 DEF Chained, Refs
  <2>3. ASSUME NEW s \in Slots, IsString(s), ~ PassedSlot(s)
        PROVE  InChain(InNeed, rank, s)'
    <3>1. InChain(InNeed, rank, s)
      BY <1>3, <1>16, <2>3 DEF AheadOK, CurrentSlot
    <3> QED BY <1>1, <1>15, <3>1 DEF InChain, Before, SizeOf
  <2> QED BY <1>1, <1>4, <1>10, <1>13, <1>16, <2>1, <2>2, <2>3 DEF AheadOK
<1>18. /\ Top(to + 1)' = 0 /\ \A b \in 1 .. to : Top(b)' = Top(b)
  <2>1. Top(to + 1)' = 0
    BY <1>1, <1>13 DEF Top
  <2>2. ASSUME NEW b \in 1 .. to
        PROVE  Top(b)' = Top(b)
    <3>1. b # to + 1 /\ b \in 1 .. Len(blocks)
      BY <1>5
    <3>2. Top(b)' = blocks'[b].pos
      BY <1>13, <3>1 DEF Top
    <3>3. Top(b) = IF b # to THEN blocks[b].pos ELSE end
      BY <1>1, <1>4 DEF Top
    <3> QED BY <1>10, <3>1, <3>2, <3>3
  <2> QED BY <2>1, <2>2
<1>19. \A b, q : Target(b, q)' <=> Target(b, q)
  <2>1. ASSUME NEW q, Target(to + 1, q)' PROVE FALSE
    <3>1. to + 1 \in 1 .. Len(blocks') /\ blocks' \in Seq(Block)
      BY <1>5, <1>8, <1>10
    <3>2. q \in Nat
      BY <2>1, <3>1, BlockFacts DEF Target
    <3> QED BY <1>18, <2>1, <3>2 DEF Target
  <2>2. \A b : b \in 1 .. to + 1 <=> b \in 1 .. to \/ b = to + 1
    BY <1>5
  <2>3. \A b \in 1 .. to : blocks'[b].chars = blocks[b].chars
    BY <1>5, <1>10
  <2> QED BY <1>4, <1>13, <1>18, <2>1, <2>2, <2>3 DEF Target
<1>20. MovedOK'
  <2>1. ASSUME NEW b \in 1 .. to + 1
        PROVE  Packed(Trim(blocks'[b], Top(b)')) /\ Top(b)' <= STRING_BLOCK_SIZE
    <3>1. CASE b = to + 1
      <4>1. blocks'[b] \in Block
        BY <1>5, <1>8, <1>10, <3>1
      <4> QED BY <1>18, <3>1, <4>1, TrimNothing, GcAssumption
    <3>2. CASE b \in 1 .. to
      <4>1. blocks'[b].chars = blocks[b].chars
        BY <1>5, <1>10, <3>2
      <4>2. Trim(blocks'[b], Top(b)) = Trim(blocks[b], Top(b))
        BY <4>1 DEF Trim
      <4>3. Packed(Trim(blocks[b], Top(b))) /\ Top(b) <= STRING_BLOCK_SIZE
        BY <1>3, <1>4, <3>2 DEF MovedOK
      <4> QED BY <1>18, <3>2, <4>2, <4>3
    <3> QED BY <1>5, <3>1, <3>2
  <2>2. \A b, q : Target(b, q) => Has(blocks, b, q)
    BY <1>4, <1>5 DEF Target, Has
  <2>3. \A b, q : Target(b, q) => Id(blocks', b, q) = Id(blocks, b, q)
    BY <1>11, <2>2
  <2>4. \A b, q, c, r :
          Target(b, q) /\ Target(c, r) /\ Id(blocks', b, q) = Id(blocks', c, r)
            => b = c /\ q = r
    BY <1>3, <2>3 DEF MovedOK
  <2>5. \A b, q : Target(b, q) =>
          \E s \in Slots : /\ IsString(s) /\ PassedSlot(s)
                           /\ Id(blocks', b, q) = StringIn(before.blocks, before.val[s].at)
    BY <1>3, <2>3 DEF MovedOK
  <2>6. \A s \in Slots : IsString(s) /\ PassedSlot(s) =>
          \E b, q : /\ val[s] = Str(b, q) /\ Target(b, q)
                    /\ Id(blocks', b, q) = StringIn(before.blocks, before.val[s].at)
    BY <1>3, <2>3 DEF MovedOK
  <2> QED BY <1>1, <1>13, <1>16, <1>19, <2>1, <2>4, <2>5, <2>6 DEF MovedOK
<1>21. RestOK'
  BY <1>1, <1>3, <1>5, <1>13, <1>15 DEF RestOK, LargesOK
<1>22. Measuring(rank)'
  <2>1. Refs(InNeed, f, p)' = Refs(InNeed, f, p)
    BY <1>1, <1>15 DEF Refs
  <2> QED BY <1>1, <1>3, <1>4, <1>13, <1>15, <2>1 DEF Measuring
<1>23. Compacting'
  BY <1>1, <1>3, <1>14, <1>15, <1>17, <1>20, <1>21, <1>22 DEF Compacting
<1> QED BY <1>1, <1>15, <1>23, CompactingAgain

LEMMA MoveStringKeeps ==
  ASSUME GcInv, MoveString
  PROVE  GcInv'
<1>1. /\ phase = "measure" /\ phase' = "relocate" /\ scan.size.k = "size" /\ Fits
      /\ UNCHANGED <<val, free, large, visits, calls, marks, before>>
  BY DEF MoveString
<1>2. Types /\ IsHeap(before.val, before.blocks)
  BY <1>1 DEF GcInv
<1>3. PICK rank \in [Slots -> Nat] :
        /\ \A s, u \in InNeed : rank[s] = rank[u] => s = u
        /\ ScanOK /\ AheadOK(rank) /\ MovedOK /\ RestOK /\ Measuring(rank)
  BY <1>1 DEF GcInv, Compacting
<1>4. PICK f, p, to, start :
        f = scan.from /\ p = scan.pos /\ to = scan.to /\ start = scan.to_pos
  OBVIOUS
<1>5. /\ f \in 1 .. Len(blocks) /\ p \in Nat /\ Len(blocks) \in Nat
      /\ blocks \in Seq(Block) /\ Len(blocks) = Len(before.blocks)
      /\ to \in 1 .. f /\ to \in 1 .. Len(blocks) /\ start \in Nat
      /\ Has(before.blocks, f, p)
  BY <1>1, <1>3, <1>4, CursorFacts DEF Measuring
<1>6. PICK n \in Nat :
        /\ Link(before.blocks, f, p) = Size(n)
        /\ \A q \in DOMAIN before.blocks[f].chars : p < q => p + FullSize(n) <= q
  BY <1>1, <1>3, <1>4, <1>5, NextFacts
<1>7. Full = FullSize(n) /\ FullSize(n) = n + 1
  <2>1. PICK cut \in Nat :
          HeadOf(scan.size, {u \in Refs(InNeed, f, p) : rank[u] < cut}, rank,
                 Link(before.blocks, f, p))
    BY <1>3, <1>4 DEF Measuring
  <2> QED BY <1>1, <1>6, <2>1, Measured DEF FullSize
<1>8. PICK end : end = start + FullSize(n)
  OBVIOUS
<1>9. end \in Nat /\ end > start /\ end <= STRING_BLOCK_SIZE /\ end = scan.to_pos + Full
  BY <1>1, <1>4, <1>5, <1>7, <1>8 DEF Fits
<1>10. to = f => start <= p
  BY <1>1, <1>3, <1>4 DEF RestOK
<1>11. PICK string : string = NextStr
  OBVIOUS
<1>12. /\ Has(blocks, f, p) /\ string \in Chars /\ string.id = Id(before.blocks, f, p)
       /\ string.size \in Links
       /\ HeadOf(string.size, Refs(InNeed, f, p), rank, Link(before.blocks, f, p))
  <2>1. /\ Has(blocks, f, p) /\ Id(blocks, f, p) = Id(before.blocks, f, p)
        /\ Chained(InNeed, rank, f, p) /\ Link(blocks, f, p) \in Links
    BY <1>1, <1>3, <1>4, <1>5, NextFacts
  <2>2. string = blocks[f].chars[p]
    BY <1>4, <1>11 DEF NextStr
  <2>3. string \in Chars
    BY <1>5, <2>1, <2>2, StringFacts
  <2> QED BY <2>1, <2>2, <2>3 DEF Id, Link, Chained
<1>13. PICK over : over = {q \in DOMAIN blocks[to].chars : q > start /\ q < end}
  OBVIOUS
<1>14. /\ blocks' = WithChars(blocks, to, Copy(blocks[to].chars, start, string, over))
       /\ scan' = [scan EXCEPT !.newaddr = <<to, start>>, !.to_pos = end,
                               !.size = string.size]
  <2>1. scan' = [scan EXCEPT !.newaddr = <<to, start>>, !.to_pos = scan.to_pos + Full,
                             !.size = string.size]
    BY <1>4, <1>11 DEF MoveString
  <2>2. over = {q \in DOMAIN blocks[scan.to].chars :
                  q > scan.to_pos /\ q < scan.to_pos + Full}
    BY <1>4, <1>9, <1>13
  <2>3. blocks' = [blocks EXCEPT ![to].chars =
                     [q \in (DOMAIN blocks[to].chars \ over) \cup {start} |->
                        IF q = start THEN string ELSE blocks[to].chars[q]]]
    BY <1>4, <1>11, <2>2 DEF MoveString
  <2> QED BY <1>9, <2>1, <2>3 DEF WithChars, Copy
<1>15. /\ blocks' \in Seq(Block) /\ Len(blocks') = Len(blocks)
       /\ \A c \in 1 .. Len(blocks) : blocks'[c].pos = blocks[c].pos
       /\ DOMAIN blocks'[to].chars = (DOMAIN blocks[to].chars \ over) \cup {start}
       /\ blocks'[to].chars[start] = string
       /\ \A q \in DOMAIN blocks'[to].chars :
            q # start => blocks'[to].chars[q] = blocks[to].chars[q]
       /\ \A c \in 1 .. Len(blocks) : c # to => blocks'[c] = blocks[c]
  <2>1. PICK new : new = WithChars(blocks, to, Copy(blocks[to].chars, start, string, over))
    OBVIOUS
  <2>2. /\ new \in Seq(Block) /\ Len(new) = Len(blocks)
        /\ \A c \in 1 .. Len(blocks) : new[c].pos = blocks[c].pos
        /\ DOMAIN new[to].chars = (DOMAIN blocks[to].chars \ over) \cup {start}
        /\ new[to].chars[start] = string
        /\ \A q \in DOMAIN new[to].chars : q # start => new[to].chars[q] = blocks[to].chars[q]
        /\ \A c \in 1 .. Len(blocks) : c # to => new[c] = blocks[c]
    <3>1. to \in 1 .. Len(blocks) /\ start \in Nat /\ string \in Chars
          /\ blocks \in Seq(Block)
      BY <1>5, <1>12
    <3>2. IsCopy(new, blocks, to, start, string, over)
      BY ONLY <2>1, <3>1, Copied
    <3> QED BY <3>2 DEF IsCopy
  <2> QED BY <1>14, <2>1, <2>2
<1>16. DOMAIN blocks[to].chars \in SUBSET Nat
  BY <1>5, BlockFacts
<1>17. ASSUME NEW b, NEW q, Has(blocks, b, q), b = to => q < start \/ q >= end
       PROVE  /\ Has(blocks', b, q) /\ Id(blocks', b, q) = Id(blocks, b, q)
              /\ Link(blocks', b, q) = Link(blocks, b, q)
  <2>1. CASE b # to
    BY <1>15, <1>17, <2>1 DEF Has, Id, Link
  <2>2. CASE b = to
    <3>1. q \in DOMAIN blocks[to].chars /\ q \in Nat /\ q # start /\ q \notin over
      BY <1>5, <1>9, <1>13, <1>16, <1>17, <2>2 DEF Has
    <3> QED BY <1>5, <1>15, <2>2, <3>1 DEF Has, Id, Link
  <2> QED BY <2>1, <2>2
<1>18. scan \in [from : 1 .. Len(blocks), pos : Nat, to : 1 .. Len(blocks), to_pos : Nat,
                 newaddr : Nat \X Nat, size : Links]
  BY <1>3 DEF ScanOK
<1>19. /\ scan'.from = f /\ scan'.pos = p /\ scan'.to = to /\ scan'.to_pos = end
       /\ scan'.size = string.size /\ scan'.newaddr = <<to, start>>
       /\ scan'.newaddr[1] = to /\ scan'.newaddr[2] = start
       /\ scan' \in [from : 1 .. Len(blocks), pos : Nat, to : 1 .. Len(blocks),
                     to_pos : Nat, newaddr : Nat \X Nat, size : Links]
  <2>1. PICK addr, link : addr = <<to, start>> /\ link = string.size
    OBVIOUS
  <2>2. addr \in Nat \X Nat /\ addr[1] = to /\ addr[2] = start /\ link \in Links
    BY <1>5, <1>12, <2>1
  <2>3. scan' = [scan EXCEPT !.newaddr = addr, !.to_pos = end, !.size = link]
    BY <1>14, <2>1
  <2>4. /\ scan'.from = f /\ scan'.pos = p /\ scan'.to = to /\ scan'.to_pos = end
        /\ scan'.size = link /\ scan'.newaddr = addr
        /\ scan' \in [from : 1 .. Len(blocks), pos : Nat, to : 1 .. Len(blocks),
                      to_pos : Nat, newaddr : Nat \X Nat, size : Links]
    BY <1>4, <1>9, <1>18, <2>2, <2>3
  <2> QED BY <2>1, <2>2, <2>4
<1>20. ScanOK'
  BY <1>1, <1>3, <1>4, <1>5, <1>15, <1>19 DEF ScanOK
<1>21. InNeed' = InNeed /\ InNeed \subseteq Slots /\ Types'
  BY <1>1, <1>2, <1>15, ReachFacts DEF InNeed, Types
<1>22. /\ \A b, q : Passed(b, q)' <=> Passed(b, q)
       /\ \A b, q : ~ Current(b, q) /\ (Current(b, q)' <=> b = f /\ q = p)
       /\ \A s : (IsString(s)' <=> IsString(s)) /\ (PassedSlot(s)' <=> PassedSlot(s))
  BY <1>1, <1>4, <1>19, <1>21 DEF Passed, Current, IsString, PassedSlot
<1>23. AheadOK(rank)'
  <2>1. \A b \in f .. Len(blocks) : blocks'[b].pos = before.blocks[b].pos
    BY <1>3, <1>4, <1>5, <1>15 DEF AheadOK
  <2>2. ASSUME NEW b, NEW q, Has(before.blocks, b, q), ~ Passed(b, q), ~ (b = f /\ q = p)
        PROVE  /\ Has(blocks', b, q) /\ Id(blocks', b, q) = Id(before.blocks, b, q)
               /\ Chained(InNeed, rank, b, q)'
    <3>1. /\ Has(blocks, b, q) /\ Id(blocks, b, q) = Id(before.blocks, b, q)
          /\ Chained(InNeed, rank, b, q)
      BY <1>3, <1>22, <2>2 DEF AheadOK
    <3>2. b \in Nat /\ q \in Nat
      BY <1>5, <3>1, StringFacts
    <3>3. b = to => q >= end
      <4> SUFFICES ASSUME b = to PROVE q >= end
        OBVIOUS
      <4>1. b = f /\ to = f /\ p < q
        BY <1>4, <1>5, <2>2, <3>2 DEF Passed
      <4>2. p + FullSize(n) <= q
        BY <1>6, <2>2, <4>1 DEF Has
      <4> QED BY <1>5, <1>7, <1>8, <1>10, <3>2, <4>1, <4>2
    <3>4. /\ Has(blocks', b, q) /\ Id(blocks', b, q) = Id(blocks, b, q)
          /\ Link(blocks', b, q) = Link(blocks, b, q)
      BY <1>17, <3>1, <3>3
    <3> QED BY <1>1, <1>21, <3>1, <3>4 DEF Chained, Refs
  <2>3. ASSUME NEW s \in Slots, IsString(s), ~ PassedSlot(s)
        PROVE  InChain(InNeed, rank, s)'
    <3>1. InChain(InNeed, rank, s)
      BY <1>3, <1>22, <2>3 DEF AheadOK, CurrentSlot
    <3> QED BY <1>1, <1>21, <3>1 DEF InChain, Before, SizeOf
  <2> QED BY <1>1, <1>4, <1>15, <1>19, <1>22, <2>1, <2>2, <2>3 DEF AheadOK
<1>24. Top(to) = start /\ \A b \in 1 .. to : Top(b)' = Top(b)
  <2>1. Top(to) = start /\ Top(to)' = start
    BY <1>1, <1>4, <1>19 DEF Top
  <2>2. ASSUME NEW b \in 1 .. to, b # to
        PROVE  Top(b)' = Top(b)
    BY <1>4, <1>5, <1>15, <1>19, <2>2 DEF Top
  <2> QED BY <2>1, <2>2
<1>25. \A q : q < start => (q \in DOMAIN blocks[to].chars <=> q \in DOMAIN blocks'[to].chars)
  <2> SUFFICES ASSUME NEW q, q < start
               PROVE  q \in DOMAIN blocks[to].chars <=> q \in DOMAIN blocks'[to].chars
    OBVIOUS
  <2>1. q # start
    BY <1>5
  <2>2. q \in DOMAIN blocks[to].chars => q \notin over
    BY <1>5, <1>13, <1>16
  <2> QED BY <1>15, <2>1, <2>2
<1>26. \A b, q : Target(b, q)' <=> Target(b, q)
  <2>1. \A b \in 1 .. to : b # to => blocks'[b].chars = blocks[b].chars
    BY <1>5, <1>15
  <2> SUFFICES ASSUME NEW b, NEW q PROVE Target(b, q)' <=> Target(b, q)
    OBVIOUS
  <2>2. Target(b, q) <=> b \in 1 .. to /\ q \in DOMAIN blocks[b].chars /\ q < Top(b)
    BY <1>4 DEF Target
  <2>3. Target(b, q)' <=> b \in 1 .. to /\ q \in DOMAIN blocks'[b].chars /\ q < Top(b)
    BY <1>19, <1>24 DEF Target
  <2>4. CASE b = to
    BY <1>24, <1>25, <2>2, <2>3, <2>4
  <2>5. CASE b # to
    BY <2>1, <2>2, <2>3, <2>5
  <2> QED BY <2>4, <2>5
<1>27. MovedOK'
  <2>1. ASSUME NEW b \in 1 .. to
        PROVE  Packed(Trim(blocks'[b], Top(b)')) /\ Top(b)' <= STRING_BLOCK_SIZE
    <3>1. Packed(Trim(blocks[b], Top(b))) /\ Top(b) <= STRING_BLOCK_SIZE
      BY <1>3, <1>4 DEF MovedOK
    <3>2. Trim(blocks'[b], Top(b)) = Trim(blocks[b], Top(b))
      <4>1. CASE b # to
        BY <1>5, <1>15, <4>1
      <4>2. CASE b = to
        <5>1. \A q \in DOMAIN blocks[to].chars :
                q < start => blocks'[to].chars[q] = blocks[to].chars[q]
          <6> SUFFICES ASSUME NEW q \in DOMAIN blocks[to].chars, q < start
                       PROVE  blocks'[to].chars[q] = blocks[to].chars[q]
            OBVIOUS
          <6>1. q # start
            BY <1>5
          <6> QED BY <1>15, <1>25, <6>1
        <5>2. Trim(blocks'[to], start) = Trim(blocks[to], start)
          BY <1>5, <1>25, <5>1, TrimSame
        <5> QED BY <1>24, <4>2, <5>2
      <4> QED BY <4>1, <4>2
    <3> QED BY <1>24, <3>1, <3>2
  <2>2. ASSUME NEW b, NEW q, Target(b, q)
        PROVE  Id(blocks', b, q) = Id(blocks, b, q)
    <3>1. Has(blocks, b, q) /\ (b = to => q < start)
      BY <1>4, <1>5, <1>24, <2>2 DEF Target, Has
    <3> QED BY <1>17, <3>1
  <2>4. \A b, q, c, r :
          Target(b, q) /\ Target(c, r) /\ Id(blocks', b, q) = Id(blocks', c, r)
            => b = c /\ q = r
    BY <1>3, <2>2 DEF MovedOK
  <2>5. \A b, q : Target(b, q) =>
          \E s \in Slots : /\ IsString(s) /\ PassedSlot(s)
                           /\ Id(blocks', b, q) = StringIn(before.blocks, before.val[s].at)
    BY <1>3, <2>2 DEF MovedOK
  <2>6. \A s \in Slots : IsString(s) /\ PassedSlot(s) =>
          \E b, q : /\ val[s] = Str(b, q) /\ Target(b, q)
                    /\ Id(blocks', b, q) = StringIn(before.blocks, before.val[s].at)
    BY <1>3, <2>2 DEF MovedOK
  <2> QED BY <1>1, <1>19, <1>22, <1>26, <2>1, <2>4, <2>5, <2>6 DEF MovedOK
<1>28. RestOK'
  BY <1>1, <1>3, <1>21 DEF RestOK, LargesOK
<1>29. Relocating(rank)'
  <2>1. PICK s0 \in InNeed : before.val[s0] = Str(f, p)
    BY <1>3, <1>4 DEF Measuring
  <2>2. PICK refs : refs = Refs(InNeed, f, p)
    OBVIOUS
  <2>3. s0 \in refs /\ refs \subseteq InNeed
    BY <2>1, <2>2 DEF Refs
  <2>4. PICK h \in refs : \A u \in refs : rank[u] <= rank[h]
    BY <1>12, <2>2, <2>3 DEF HeadOf
  <2>5. \A u \in refs : rank[u] \in Nat
    BY <1>3, <1>21, <2>3
  <2>6. PICK cut \in Nat : cut = rank[h] + 1
    BY <2>5
  <2>7. \A u \in refs : rank[u] < cut
    BY <2>4, <2>5, <2>6
  <2>8. {u \in refs : rank[u] < cut} = refs
    BY <2>7
  <2>9. HeadOf(string.size, {u \in refs : rank[u] < cut}, rank, Link(before.blocks, f, p))
    BY <1>12, <2>2, <2>8
  <2>10. ASSUME NEW s \in refs
         PROVE  InChain(InNeed, rank, s)'
    <3>1. s \in Slots /\ s \in InNeed /\ before.val[s] = Str(f, p)
      BY <1>21, <2>2 DEF Refs
    <3>2. IsString(s) /\ ~ PassedSlot(s) /\ ~ CurrentSlot(s)
      BY <1>1, <1>4, <1>5, <3>1, WordKinds
        DEF IsString, PassedSlot, Passed, CurrentSlot, Current
    <3>3. InChain(InNeed, rank, s)
      BY <1>3, <3>1, <3>2 DEF AheadOK
    <3> QED BY <1>1, <1>21, <3>3 DEF InChain, Before, SizeOf
  <2>11. Refs(InNeed, f, p)' = refs
    BY <1>1, <1>21, <2>2 DEF Refs
  <2>12. Has(blocks', to, start) /\ Id(blocks', to, start) = Id(before.blocks, f, p)
    BY <1>5, <1>12, <1>15 DEF Has, Id
  <2>13. end = start + FullSize(Link(before.blocks, f, p).n)
    BY <1>6, <1>8 DEF Size
  <2>14. \A q \in DOMAIN blocks'[to].chars : ~ (start < q /\ q < end)
    BY <1>5, <1>9, <1>13, <1>15, <1>16
  <2>15. \E c \in Nat :
           /\ HeadOf(scan'.size, {u \in Refs(InNeed, f, p)' : rank[u] < c}, rank,
                     Link(before.blocks, f, p))
           /\ \A s \in Refs(InNeed, f, p)' :
                IF rank[s] < c THEN InChain(InNeed, rank, s)' ELSE val'[s] = Str(to, start)
    BY <1>19, <2>7, <2>9, <2>10, <2>11
  <2>16. before' = before /\ InNeed' = InNeed
    BY <1>1, <1>21
  <2>17. /\ scan'.from = f /\ scan'.pos = p /\ scan'.newaddr[1] = to
         /\ scan'.newaddr[2] = start /\ scan'.to = to /\ scan'.to_pos = end
    BY <1>19
  <2>18. /\ Has(before.blocks, f, p) /\ end <= STRING_BLOCK_SIZE /\ (to = f => start <= p)
    BY <1>5, <1>9, <1>10
  <2>19. \E s \in InNeed : before.val[s] = Str(f, p)
    BY <2>1
  <2> QED BY ONLY <2>12, <2>13, <2>14, <2>15, <2>16, <2>17, <2>18, <2>19 DEF Relocating, Refs
<1>30. Compacting'
  BY <1>1, <1>3, <1>20, <1>21, <1>23, <1>27, <1>28, <1>29 DEF Compacting
<1> QED BY <1>1, <1>21, <1>30, CompactingAgain

LEMMA RelocateKeeps ==
  ASSUME GcInv, Relocate
  PROVE  GcInv'
<1>1. /\ phase = "relocate" /\ phase' = "relocate" /\ scan.size.k = "slot"
      /\ UNCHANGED <<free, blocks, large, visits, calls, marks, before>>
  BY DEF Relocate
<1>2. Types /\ IsHeap(before.val, before.blocks)
  BY <1>1 DEF GcInv
<1>3. PICK rank \in [Slots -> Nat] :
        /\ \A s, u \in InNeed : rank[s] = rank[u] => s = u
        /\ ScanOK /\ AheadOK(rank) /\ MovedOK /\ RestOK /\ Relocating(rank)
  BY <1>1 DEF GcInv, Compacting
<1>4. PICK f, p, to, start :
        f = scan.from /\ p = scan.pos /\ to = scan.newaddr[1] /\ start = scan.newaddr[2]
  OBVIOUS
<1>5. /\ f \in 1 .. Len(blocks) /\ p \in Nat /\ Len(blocks) \in Nat
      /\ scan \in [from : 1 .. Len(blocks), pos : Nat, to : 1 .. Len(blocks), to_pos : Nat,
                   newaddr : Nat \X Nat, size : Links]
      /\ to \in Nat /\ start \in Nat
  BY <1>3, <1>4, <1>2 DEF ScanOK, Types
<1>6. PICK refs : refs = Refs(InNeed, f, p)
  OBVIOUS
<1>7. PICK cut \in Nat :
        /\ HeadOf(scan.size, {u \in refs : rank[u] < cut}, rank, Link(before.blocks, f, p))
        /\ \A s \in refs : IF rank[s] < cut THEN InChain(InNeed, rank, s)
                           ELSE val[s] = Str(to, start)
  BY <1>3, <1>4, <1>6 DEF Relocating
<1>8. PICK n \in Nat : Link(before.blocks, f, p) = Size(n)
  <2>1. before.blocks \in Seq(Block) /\ Has(before.blocks, f, p)
    BY <1>2, <1>3, <1>4 DEF Relocating, IsHeap
  <2>2. before.blocks[f] \in Block /\ Packed(before.blocks[f])
        /\ p \in DOMAIN before.blocks[f].chars
    BY <1>2, <2>1 DEF Has, IsHeap
  <2> QED BY <2>2, PackedFacts DEF Link
<1>9. PICK h : h = scan.size.slot
  OBVIOUS
<1>10. /\ h \in refs /\ rank[h] < cut
       /\ \A u \in refs : rank[u] < cut => rank[u] <= rank[h]
  <2>1. Size(n).k = "size"
    BY DEF Size
  <2> QED BY <1>1, <1>7, <1>8, <1>9, <2>1, HeadFacts
<1>11. InNeed' = InNeed /\ InNeed \subseteq Slots
  BY <1>1, ReachFacts DEF InNeed
<1>12. /\ h \in InNeed /\ h \in Slots /\ before.val[h] = Str(f, p) /\ rank[h] \in Nat
       /\ before.val[h].t = "string" /\ before.val[h].at[1] = f /\ before.val[h].at[2] = p
  BY <1>3, <1>6, <1>10, <1>11, WordKinds DEF Refs
<1>13. PICK l \in Links :
         /\ val[h] = Threaded(l) /\ val[h].link = l
         /\ HeadOf(l, {u \in refs : rank[u] < rank[h]}, rank, Link(before.blocks, f, p))
  BY <1>6, <1>7, <1>10, ChainFollowed
<1>14. /\ val' = [val EXCEPT ![h] = Str(to, start)] /\ scan' = [scan EXCEPT !.size = l]
  BY <1>4, <1>9, <1>13 DEF Relocate
<1>15. /\ val' \in [Slots -> Words] /\ val'[h] = Str(to, start)
       /\ \A s \in Slots : s # h => val'[s] = val[s]
  BY <1>2, <1>5, <1>12, <1>14, ValueWords DEF Types
<1>16. /\ scan'.from = f /\ scan'.pos = p /\ scan'.to = scan.to
       /\ scan'.to_pos = scan.to_pos /\ scan'.size = l /\ scan'.newaddr = scan.newaddr
       /\ scan' \in [from : 1 .. Len(blocks), pos : Nat, to : 1 .. Len(blocks),
                     to_pos : Nat, newaddr : Nat \X Nat, size : Links]
  BY <1>4, <1>5, <1>14
<1>17. ScanOK'
  BY <1>1, <1>3, <1>4, <1>16 DEF ScanOK
<1>18. Types'
  BY <1>1, <1>2, <1>15 DEF Types
<1>19. /\ \A b, q : (Passed(b, q)' <=> Passed(b, q)) /\ (Current(b, q)' <=> Current(b, q))
       /\ \A s : /\ (IsString(s)' <=> IsString(s)) /\ (PassedSlot(s)' <=> PassedSlot(s))
                 /\ (CurrentSlot(s)' <=> CurrentSlot(s))
       /\ \A b, q : (Top(b)' = Top(b)) /\ (Target(b, q)' <=> Target(b, q))
  BY <1>1, <1>4, <1>11, <1>16
    DEF Passed, Current, IsString, PassedSlot, CurrentSlot, Top, Target
<1>20. IsString(h) /\ ~ PassedSlot(h) /\ CurrentSlot(h)
  BY <1>1, <1>4, <1>5, <1>12 DEF IsString, PassedSlot, Passed, CurrentSlot, Current
<1>21. ASSUME NEW s \in Slots, s # h, InChain(InNeed, rank, s)
       PROVE  InChain(InNeed, rank, s)'
  BY <1>1, <1>11, <1>15, <1>21 DEF InChain, Before, SizeOf
<1>22. AheadOK(rank)'
  <2>1. \A b \in f .. Len(blocks) : blocks[b].pos = before.blocks[b].pos
    BY <1>3, <1>4 DEF AheadOK
  <2>2. ASSUME NEW b, NEW q, Has(before.blocks, b, q), ~ Passed(b, q), ~ Current(b, q)
        PROVE  /\ Has(blocks, b, q) /\ Id(blocks, b, q) = Id(before.blocks, b, q)
               /\ Chained(InNeed, rank, b, q)'
    <3>1. /\ Has(blocks, b, q) /\ Id(blocks, b, q) = Id(before.blocks, b, q)
          /\ Chained(InNeed, rank, b, q)
      BY <1>3, <2>2 DEF AheadOK
    <3> QED BY <1>1, <1>11, <3>1 DEF Chained, Refs
  <2>3. ASSUME NEW s \in Slots, IsString(s), ~ PassedSlot(s), ~ CurrentSlot(s)
        PROVE  InChain(InNeed, rank, s)'
    <3>1. InChain(InNeed, rank, s) /\ s # h
      BY <1>3, <1>20, <2>3 DEF AheadOK
    <3> QED BY <1>21, <3>1
  <2> QED BY <1>1, <1>16, <1>19, <2>1, <2>2, <2>3 DEF AheadOK
<1>23. MovedOK'
  <2>1. \A b \in 1 .. scan.to :
          Packed(Trim(blocks[b], Top(b))) /\ Top(b) <= STRING_BLOCK_SIZE
    BY <1>3 DEF MovedOK
  <2>2. \A b, q, c, r :
          Target(b, q) /\ Target(c, r) /\ Id(blocks, b, q) = Id(blocks, c, r)
            => b = c /\ q = r
    BY <1>3 DEF MovedOK
  <2>3. \A b, q : Target(b, q) =>
          \E s \in Slots : /\ IsString(s) /\ PassedSlot(s)
                           /\ Id(blocks, b, q) = StringIn(before.blocks, before.val[s].at)
    BY <1>3 DEF MovedOK
  <2>4. \A s \in Slots : IsString(s) /\ PassedSlot(s) =>
          \E b, q : /\ val'[s] = Str(b, q) /\ Target(b, q)
                    /\ Id(blocks, b, q) = StringIn(before.blocks, before.val[s].at)
    BY <1>3, <1>15, <1>20 DEF MovedOK
  <2> QED BY <1>1, <1>16, <1>19, <2>1, <2>2, <2>3, <2>4 DEF MovedOK
<1>24. RestOK'
  <2>1. \A s \in Slots : before.val[s].t # "string" => val'[s] = before.val[s]
    BY <1>3, <1>12, <1>15 DEF RestOK
  <2> QED BY <1>1, <1>3, <1>11, <2>1 DEF RestOK, LargesOK
<1>25. Relocating(rank)'
  <2>1. Refs(InNeed, f, p)' = refs
    BY <1>1, <1>6, <1>11 DEF Refs
  <2>2. ASSUME NEW s \in refs
        PROVE  IF rank[s] < rank[h] THEN InChain(InNeed, rank, s)'
               ELSE val'[s] = Str(to, start)
    <3>1. s \in Slots /\ s \in InNeed /\ rank[s] \in Nat
      BY <1>3, <1>6, <1>11 DEF Refs
    <3>2. CASE rank[s] < rank[h]
      <4>1. InChain(InNeed, rank, s) /\ s # h
        BY <1>7, <1>10, <1>12, <3>1, <3>2
      <4> QED BY <1>21, <3>1, <3>2, <4>1
    <3>3. CASE ~ rank[s] < rank[h] /\ s # h
      <4>1. rank[s] # rank[h]
        BY <1>3, <1>12, <3>1, <3>3
      <4>2. ~ rank[s] < cut
        BY <1>10, <1>12, <3>1, <3>3, <4>1
      <4> QED BY <1>7, <1>15, <3>1, <3>3, <4>2
    <3>4. CASE s = h
      BY <1>12, <1>15, <3>4
    <3> QED BY <3>2, <3>3, <3>4
  <2>3. \E c \in Nat :
          /\ HeadOf(scan'.size, {u \in Refs(InNeed, f, p)' : rank[u] < c}, rank,
                    Link(before.blocks, f, p))
          /\ \A s \in Refs(InNeed, f, p)' :
               IF rank[s] < c THEN InChain(InNeed, rank, s)' ELSE val'[s] = Str(to, start)
    BY <1>12, <1>13, <1>16, <2>1, <2>2
  <2>4. /\ before' = before /\ InNeed' = InNeed /\ blocks' = blocks
        /\ scan'.from = f /\ scan'.pos = p /\ scan'.newaddr[1] = to
        /\ scan'.newaddr[2] = start /\ scan'.to = scan.to /\ scan'.to_pos = scan.to_pos
    BY <1>1, <1>4, <1>11, <1>16
  <2>5. /\ Has(before.blocks, f, p) /\ \E s \in InNeed : before.val[s] = Str(f, p)
        /\ to = scan.to /\ Has(blocks, to, start)
        /\ Id(blocks, to, start) = Id(before.blocks, f, p)
        /\ scan.to_pos = start + FullSize(Link(before.blocks, f, p).n)
        /\ scan.to_pos <= STRING_BLOCK_SIZE
        /\ \A q \in DOMAIN blocks[to].chars : ~(start < q /\ q < scan.to_pos)
        /\ to = f => start <= p
    BY <1>3, <1>4 DEF Relocating
  <2> QED BY ONLY <2>3, <2>4, <2>5, ZenonT(40) DEF Relocating, Refs
<1>26. Compacting'
  BY <1>1, <1>3, <1>11, <1>17, <1>22, <1>23, <1>24, <1>25 DEF Compacting
<1> QED BY <1>1, <1>18, <1>26, CompactingAgain

LEMMA StoreSizeKeeps ==
  ASSUME GcInv, StoreSize
  PROVE  GcInv'
<1>1. /\ phase = "relocate" /\ phase' = "scan" /\ scan.size.k = "size"
      /\ UNCHANGED <<val, free, large, visits, calls, marks, before>>
  BY DEF StoreSize
<1>2. Types /\ IsHeap(before.val, before.blocks)
  BY <1>1 DEF GcInv
<1>3. PICK rank \in [Slots -> Nat] :
        /\ \A s, u \in InNeed : rank[s] = rank[u] => s = u
        /\ ScanOK /\ AheadOK(rank) /\ MovedOK /\ RestOK /\ Relocating(rank)
  BY <1>1 DEF GcInv, Compacting
<1>4. PICK f, p, to, start, end :
        /\ f = scan.from /\ p = scan.pos /\ to = scan.newaddr[1] /\ start = scan.newaddr[2]
        /\ end = scan.to_pos
  OBVIOUS
<1>5. PICK refs : refs = Refs(InNeed, f, p)
  OBVIOUS
<1>6. /\ f \in 1 .. Len(blocks) /\ p \in Nat /\ Len(blocks) \in Nat
      /\ blocks \in Seq(Block) /\ Len(blocks) = Len(before.blocks)
      /\ scan \in [from : 1 .. Len(blocks), pos : Nat, to : 1 .. Len(blocks), to_pos : Nat,
                   newaddr : Nat \X Nat, size : Links]
      /\ to \in Nat /\ start \in Nat /\ end \in Nat /\ scan.to <= f
      /\ scan.to \in 1 .. Len(blocks)
  BY <1>3, <1>4, <1>2 DEF ScanOK, Types
<1>7. /\ Has(before.blocks, f, p) /\ to = scan.to /\ Has(blocks, to, start)
      /\ Id(blocks, to, start) = Id(before.blocks, f, p)
      /\ end = start + FullSize(Link(before.blocks, f, p).n)
      /\ end <= STRING_BLOCK_SIZE
      /\ \A q \in DOMAIN blocks[to].chars : ~(start < q /\ q < end)
      /\ to = f => start <= p
  BY <1>3, <1>4 DEF Relocating
<1>8. PICK s0 \in InNeed : before.val[s0] = Str(f, p)
  BY <1>3, <1>4 DEF Relocating
<1>9. PICK n \in Nat :
        /\ Link(before.blocks, f, p) = Size(n)
        /\ p + FullSize(n) \in DOMAIN before.blocks[f].chars \cup {before.blocks[f].pos}
        /\ \A q \in DOMAIN before.blocks[f].chars : p < q => p + FullSize(n) <= q
  <2>1. before.blocks \in Seq(Block)
    BY <1>2 DEF IsHeap
  <2>2. before.blocks[f] \in Block /\ Packed(before.blocks[f])
        /\ p \in DOMAIN before.blocks[f].chars
    BY <1>2, <1>7, <2>1 DEF Has, IsHeap
  <2> QED BY <2>2, PackedFacts DEF Link
<1>10. PICK cut \in Nat :
         /\ HeadOf(scan.size, {u \in refs : rank[u] < cut}, rank, Link(before.blocks, f, p))
         /\ \A s \in refs : IF rank[s] < cut THEN InChain(InNeed, rank, s)
                            ELSE val[s] = Str(to, start)
  BY <1>3, <1>4, <1>5 DEF Relocating
<1>11. {u \in refs : rank[u] < cut} = {} /\ scan.size = Size(n) /\ Full = FullSize(n)
  BY <1>1, <1>9, <1>10, Measured
<1>12. FullSize(n) = n + 1 /\ end = start + FullSize(n) /\ Size(n) \in Links
  BY <1>7, <1>9 DEF FullSize, Size, Links
<1>13. \A s \in refs : val[s] = Str(to, start)
  BY <1>10, <1>11
<1>14. /\ blocks' = WithLink(blocks, to, start, Size(n))
       /\ scan' = [scan EXCEPT !.pos = @ + FullSize(n)]
  BY <1>4, <1>11 DEF StoreSize, WithLink
<1>15. /\ blocks' \in Seq(Block) /\ Len(blocks') = Len(blocks)
       /\ \A c \in 1 .. Len(blocks) : blocks'[c].pos = blocks[c].pos
       /\ \A c, q : Has(blocks', c, q) <=> Has(blocks, c, q)
       /\ \A c, q : Has(blocks, c, q) =>
            /\ Id(blocks', c, q) = Id(blocks, c, q)
            /\ Link(blocks', c, q) = IF c = to /\ q = start THEN Size(n)
                                     ELSE Link(blocks, c, q)
       /\ \A c \in 1 .. Len(blocks) : c # to => blocks'[c] = blocks[c]
       /\ DOMAIN blocks'[to].chars = DOMAIN blocks[to].chars
       /\ \A q \in DOMAIN blocks[to].chars :
            q # start => blocks'[to].chars[q] = blocks[to].chars[q]
  <2>1. IsLinked(blocks', blocks, to, start, Size(n))
    BY <1>6, <1>7, <1>12, <1>14, SetLink
  <2> QED BY <2>1 DEF IsLinked
<1>16. PICK next : next = p + FullSize(n)
  OBVIOUS
<1>17. next \in Nat /\ next > p
  BY <1>6, <1>12, <1>16
<1>18. /\ scan'.from = f /\ scan'.pos = next /\ scan'.to = to /\ scan'.to_pos = end
       /\ scan' \in [from : 1 .. Len(blocks), pos : Nat, to : 1 .. Len(blocks),
                     to_pos : Nat, newaddr : Nat \X Nat, size : Links]
  <2>1. scan' = [scan EXCEPT !.pos = next]
    BY <1>4, <1>14, <1>16
  <2> QED BY <1>4, <1>6, <1>7, <1>17, <2>1
<1>19. ScanOK'
  BY <1>1, <1>6, <1>7, <1>9, <1>15, <1>16, <1>18, SMTT(30) DEF ScanOK
<1>20. InNeed' = InNeed /\ InNeed \subseteq Slots /\ Types'
  BY <1>1, <1>2, <1>15, ReachFacts DEF InNeed, Types
<1>21. ASSUME NEW b, NEW q, Has(before.blocks, b, q)
       PROVE  Passed(b, q)' <=> Passed(b, q) \/ (b = f /\ q = p)
  <2>1. b \in Nat /\ q \in Nat
    BY <1>2, <1>21, StringFacts DEF IsHeap
  <2>2. b = f => q \in DOMAIN before.blocks[f].chars
    BY <1>21 DEF Has
  <2>3. b = f => (q < next <=> q <= p)
    <3>1. \A x \in DOMAIN before.blocks[f].chars : p < x => next <= x
      BY <1>9, <1>16
    <3>2. p \in Nat
      BY <1>6
    <3>3. b = f => (p < q => next <= q)
      BY ONLY <2>2, <3>1
    <3> QED BY ONLY <1>17, <2>1, <3>2, <3>3
  <2> QED BY <1>4, <1>6, <1>18, <2>1, <2>3, SMTT(30) DEF Passed
<1>22. /\ \A b, q : ~ Current(b, q)' /\ (Current(b, q) <=> b = f /\ q = p)
       /\ \A s : IsString(s)' <=> IsString(s)
  BY <1>1, <1>4, <1>20 DEF Current, IsString
<1>23. ASSUME NEW s \in Slots, IsString(s)
       PROVE  /\ PassedSlot(s)' <=> PassedSlot(s) \/ s \in refs
              /\ CurrentSlot(s) => s \in refs
  <2>1. PICK b, q \in Nat : /\ before.val[s] = Str(b, q) /\ Has(before.blocks, b, q)
                            /\ before.val[s].at[1] = b /\ before.val[s].at[2] = q
    BY <1>2, <1>23, StringSlots DEF IsString
  <2>2. /\ PassedSlot(s) <=> Passed(b, q)
        /\ PassedSlot(s)' <=> Passed(b, q)'
        /\ CurrentSlot(s) <=> Current(b, q)
    BY <1>1, <2>1 DEF PassedSlot, CurrentSlot
  <2>3. s \in refs <=> b = f /\ q = p
    BY <1>5, <1>23, <2>1, WordKinds DEF Refs, IsString
  <2> QED BY <1>21, <1>22, <2>1, <2>2, <2>3
<1>24. AheadOK(rank)'
  <2>1. \A b \in f .. Len(blocks) : blocks'[b].pos = before.blocks[b].pos
    BY <1>3, <1>4, <1>6, <1>15 DEF AheadOK
  <2>2. ASSUME NEW b, NEW q, Has(before.blocks, b, q), ~ Passed(b, q)'
        PROVE  /\ Has(blocks', b, q) /\ Id(blocks', b, q) = Id(before.blocks, b, q)
               /\ Chained(InNeed, rank, b, q)'
    <3>1. ~ Passed(b, q) /\ ~ Current(b, q) /\ ~ (b = f /\ q = p)
      BY <1>21, <1>22, <2>2
    <3>2. /\ Has(blocks, b, q) /\ Id(blocks, b, q) = Id(before.blocks, b, q)
          /\ Chained(InNeed, rank, b, q)
      BY <1>3, <2>2, <3>1 DEF AheadOK
    <3>3. ~ (b = to /\ q = start)
      <4> SUFFICES ASSUME b = to, q = start PROVE FALSE
        OBVIOUS
      <4>1. b \in Nat /\ q \in Nat
        BY <1>6, <3>2, StringFacts
      <4> QED BY <1>4, <1>6, <1>7, <3>1, <4>1 DEF Passed
    <3>4. /\ Has(blocks', b, q) /\ Id(blocks', b, q) = Id(blocks, b, q)
          /\ Link(blocks', b, q) = Link(blocks, b, q)
      BY <1>15, <3>2, <3>3
    <3> QED BY <1>1, <1>20, <3>2, <3>4 DEF Chained, Refs
  <2>3. ASSUME NEW s \in Slots, IsString(s), ~ PassedSlot(s)'
        PROVE  InChain(InNeed, rank, s)'
    <3>1. InChain(InNeed, rank, s)
      BY <1>3, <1>23, <2>3 DEF AheadOK
    <3> QED BY <1>1, <1>20, <3>1 DEF InChain, Before, SizeOf
  <2> QED BY <1>1, <1>15, <1>18, <1>22, <2>1, <2>2, <2>3 DEF AheadOK
<1>25. /\ Top(to) = start /\ Top(to)' = end
       /\ \A b \in 1 .. to : b # to => Top(b)' = Top(b)
  <2>1. Top(to) = start
    BY <1>1, <1>4, <1>7 DEF Top
  <2>2. Top(to)' = end
    BY <1>1, <1>18 DEF Top
  <2>3. ASSUME NEW b \in 1 .. to, b # to
        PROVE  Top(b)' = Top(b)
    <3>1. b \in 1 .. Len(blocks)
      BY <1>6, <1>7
    <3>2. blocks'[b].pos = blocks[b].pos
      BY <1>15, <3>1
    <3>3. Top(b) = blocks[b].pos /\ Top(b)' = blocks'[b].pos
      BY <1>7, <1>18, <2>3 DEF Top
    <3> QED BY <3>2, <3>3
  <2> QED BY <2>1, <2>2, <2>3
<1>26. \A b, q : Target(b, q)' <=> Target(b, q) \/ (b = to /\ q = start)
  <2> SUFFICES ASSUME NEW b, NEW q
               PROVE  Target(b, q)' <=> Target(b, q) \/ (b = to /\ q = start)
    OBVIOUS
  <2>1. Target(b, q) <=> b \in 1 .. to /\ q \in DOMAIN blocks[b].chars /\ q < Top(b)
    BY <1>7 DEF Target
  <2>2. Target(b, q)' <=> b \in 1 .. to /\ q \in DOMAIN blocks'[b].chars /\ q < Top(b)'
    BY <1>18 DEF Target
  <2>3. to \in 1 .. Len(blocks) /\ to \in 1 .. to
    BY <1>6, <1>7
  <2>4. DOMAIN blocks[to].chars \in SUBSET Nat /\ start \in DOMAIN blocks[to].chars
    BY <1>6, <1>7, <2>3, BlockFacts DEF Has
  <2>5. CASE b = to
    <3>1. q \in DOMAIN blocks[to].chars => (q < end <=> q < start \/ q = start)
      BY <1>6, <1>7, <1>12, <2>4, SMTT(30)
    <3> QED BY <1>15, <1>25, <2>1, <2>2, <2>3, <2>4, <2>5, <3>1
  <2>6. CASE b # to
    <3>1. b \in 1 .. to => blocks'[b] = blocks[b] /\ Top(b)' = Top(b)
      BY <1>6, <1>7, <1>15, <1>25, <2>6, SMTT(30)
    <3> QED BY <2>1, <2>2, <2>6, <3>1
  <2> QED BY <2>5, <2>6
<1>27. StringIn(before.blocks, before.val[s0].at) = Id(blocks, to, start)
       /\ s0 \in Slots /\ IsString(s0) /\ s0 \in refs
  BY <1>5, <1>7, <1>8, <1>20, WordKinds DEF StringIn, Id, IsString, Refs
<1>28. ASSUME NEW b, NEW q, Target(b, q), Id(blocks, b, q) = Id(blocks, to, start)
       PROVE  FALSE
  <2>1. PICK s \in Slots : /\ IsString(s) /\ PassedSlot(s)
                           /\ Id(blocks, b, q) = StringIn(before.blocks, before.val[s].at)
    BY <1>3, <1>28 DEF MovedOK
  <2>2. PICK c, r \in Nat : /\ Has(before.blocks, c, r)
                            /\ before.val[s].at[1] = c /\ before.val[s].at[2] = r
    BY <1>2, <2>1, StringSlots DEF IsString
  <2>3. Id(before.blocks, c, r) = Id(before.blocks, f, p)
    BY <1>7, <1>28, <2>1, <2>2 DEF StringIn, Id
  <2>4. c = f /\ r = p
    BY <1>2, <1>7, <2>2, <2>3 DEF IsHeap
  <2>5. Passed(c, r)
    BY <2>1, <2>2 DEF PassedSlot
  <2> QED BY <1>4, <1>6, <2>4, <2>5 DEF Passed
<1>29. \A b, q : Target(b, q) \/ (b = to /\ q = start) => Id(blocks', b, q) = Id(blocks, b, q)
  <2>1. \A b, q : Target(b, q) => Has(blocks, b, q)
    BY <1>6, <1>7 DEF Target, Has
  <2> QED BY <1>7, <1>15, <2>1
<1>30. MovedOK'
  <2>1. ASSUME NEW b \in 1 .. to
        PROVE  Packed(Trim(blocks'[b], Top(b)')) /\ Top(b)' <= STRING_BLOCK_SIZE
    <3>1. Packed(Trim(blocks[b], Top(b))) /\ Top(b) <= STRING_BLOCK_SIZE
      BY <1>3, <1>7 DEF MovedOK
    <3>2. CASE b # to
      <4>1. blocks'[b] = blocks[b] /\ Top(b)' = Top(b)
        BY <1>6, <1>7, <1>15, <1>25, <3>2, SMTT(30)
      <4> QED BY <3>1, <4>1
    <3>3. CASE b = to
      <4>1. PICK block : block = blocks'[to]
        OBVIOUS
      <4>2. to \in 1 .. Len(blocks) /\ block \in Block
        BY <1>6, <1>7, <1>15, <4>1, SMTT(30)
      <4>3. start \in DOMAIN block.chars
        BY <1>7, <1>15, <4>1 DEF Has
      <4>4. block.chars[start].size = Size(n)
        BY <1>7, <1>15, <4>1 DEF Link
      <4>5. Trim(block, start) = Trim(blocks[to], start)
        <5>1. \A q : q < start => (q \in DOMAIN blocks[to].chars <=> q \in DOMAIN block.chars)
          BY <1>15, <4>1
        <5>2. \A q \in DOMAIN blocks[to].chars :
                q < start => block.chars[q] = blocks[to].chars[q]
          BY <1>6, <1>15, <4>1
        <5> QED BY <1>6, <5>1, <5>2, TrimSame
      <4>6. Packed(Trim(block, start))
        BY <1>25, <3>1, <3>3, <4>5
      <4>7. \A q \in DOMAIN block.chars : ~ (start < q /\ q < start + FullSize(n))
        BY <1>7, <1>12, <1>15, <4>1
      <4>8. Packed(Trim(block, start + FullSize(n)))
        BY <4>2, <4>3, <4>4, <4>6, <4>7, TrimMore
      <4> QED BY <1>7, <1>12, <1>25, <3>3, <4>1, <4>8
    <3> QED BY <3>2, <3>3
  <2>2. ASSUME NEW b, NEW q, NEW c, NEW r, Target(b, q)', Target(c, r)',
               Id(blocks', b, q) = Id(blocks', c, r)
        PROVE  b = c /\ q = r
    <3>1. Id(blocks, b, q) = Id(blocks, c, r)
      BY <1>26, <1>29, <2>2
    <3>2. CASE Target(b, q) /\ Target(c, r)
      BY <1>3, <3>1, <3>2 DEF MovedOK
    <3>3. CASE ~ Target(b, q)
      BY <1>26, <1>28, <2>2, <3>1, <3>3
    <3>4. CASE ~ Target(c, r)
      BY <1>26, <1>28, <2>2, <3>1, <3>4
    <3> QED BY <3>2, <3>3, <3>4
  <2>3. ASSUME NEW b, NEW q, Target(b, q)'
        PROVE  \E s \in Slots : /\ IsString(s) /\ PassedSlot(s)'
                                /\ Id(blocks', b, q) = StringIn(before.blocks, before.val[s].at)
    <3>1. CASE Target(b, q)
      <4>1. PICK s \in Slots : /\ IsString(s) /\ PassedSlot(s)
                               /\ Id(blocks, b, q) = StringIn(before.blocks, before.val[s].at)
        BY <1>3, <3>1 DEF MovedOK
      <4> QED BY <1>23, <1>29, <3>1, <4>1
    <3>2. CASE b = to /\ q = start
      BY <1>23, <1>27, <1>29, <3>2
    <3> QED BY <1>26, <2>3, <3>1, <3>2
  <2>4. ASSUME NEW s \in Slots, IsString(s), PassedSlot(s)'
        PROVE  \E b, q : /\ val[s] = Str(b, q) /\ Target(b, q)'
                         /\ Id(blocks', b, q) = StringIn(before.blocks, before.val[s].at)
    <3>1. CASE PassedSlot(s)
      <4>1. PICK b, q : /\ val[s] = Str(b, q) /\ Target(b, q)
                        /\ Id(blocks, b, q) = StringIn(before.blocks, before.val[s].at)
        BY <1>3, <2>4, <3>1 DEF MovedOK
      <4> QED BY <1>26, <1>29, <4>1
    <3>2. CASE s \in refs
      <4>1. val[s] = Str(to, start) /\ before.val[s].at = before.val[s0].at
        BY <1>5, <1>8, <1>13, <3>2 DEF Refs
      <4> QED BY <1>26, <1>27, <1>29, <4>1
    <3> QED BY <1>23, <2>4, <3>1, <3>2
  <2> QED BY <1>1, <1>18, <1>22, <2>1, <2>2, <2>3, <2>4 DEF MovedOK
<1>31. RestOK'
  <2>1. to = f => end <= next
    BY <1>6, <1>7, <1>12, <1>16
  <2> QED BY <1>1, <1>3, <1>18, <1>20, <2>1 DEF RestOK, LargesOK
<1>32. Compacting'
  BY <1>1, <1>3, <1>19, <1>20, <1>24, <1>30, <1>31 DEF Compacting
<1> QED BY <1>1, <1>20, <1>32, CompactingAgain
\* What gc_sweep leaves.
LEMMA SweptBlocks ==
  ASSUME GcInv, Sweep
  PROVE  /\ blocks' \in Seq(Block) /\ Len(blocks') = scan.to /\ scan.to >= 1
         /\ \A b \in 1 .. scan.to : Packed(blocks'[b]) /\ blocks'[b].pos <= STRING_BLOCK_SIZE
         /\ \A b, q : Has(blocks', b, q) <=> Target(b, q)
         /\ \A b, q : Target(b, q) => Id(blocks', b, q) = Id(blocks, b, q)
<1>1. phase = "sweep"
  BY DEF Sweep, BlocksLeft
<1>2. Types /\ ScanOK /\ MovedOK
  BY <1>1 DEF GcInv, Compacting
<1>3. PICK to, end : to = scan.to /\ end = scan.to_pos
  OBVIOUS
<1>4. /\ to \in 1 .. Len(blocks) /\ end \in Nat /\ Len(blocks) \in Nat /\ to \in Nat
      /\ blocks \in Seq(Block) /\ to >= 1
  BY <1>2, <1>3 DEF Types, ScanOK
<1>5. ASSUME NEW b \in 1 .. to
      PROVE  /\ b \in 1 .. Len(blocks) /\ Top(b) \in Nat
             /\ Top(b) = IF b = to THEN end ELSE blocks[b].pos
  <2>1. b \in 1 .. Len(blocks)
    BY <1>4
  <2>2. Top(b) = IF b = to THEN end ELSE blocks[b].pos
    BY <1>1, <1>3 DEF Top
  <2>3. blocks[b].pos \in Nat
    BY <1>4, <2>1, BlockFacts
  <2> QED BY <1>4, <2>1, <2>2, <2>3
<1>6. blocks' = [b \in 1 .. to |-> Trim(blocks[b], Top(b))]
  <2>1. blocks' = [b \in 1 .. to |->
                     LET e == IF b = to THEN end ELSE blocks[b].pos
                         chars == blocks[b].chars
                     IN [pos |-> e, chars |-> [p \in {x \in DOMAIN chars : x < e} |-> chars[p]]]]
    BY <1>3 DEF Sweep, BlocksLeft
  <2>2. blocks' = [b \in 1 .. to |-> Trim(blocks[b], IF b = to THEN end ELSE blocks[b].pos)]
    BY <2>1 DEF Trim
  <2> QED BY <1>5, <2>2
<1>7. ASSUME NEW b \in 1 .. to
      PROVE  /\ blocks'[b] = Trim(blocks[b], Top(b)) /\ blocks'[b] \in Block
             /\ blocks'[b].pos = Top(b)
             /\ DOMAIN blocks'[b].chars = {p \in DOMAIN blocks[b].chars : p < Top(b)}
             /\ \A p \in DOMAIN blocks'[b].chars : blocks'[b].chars[p] = blocks[b].chars[p]
  <2>1. PICK new : new = Trim(blocks[b], Top(b))
    OBVIOUS
  <2>2. blocks[b] \in Block /\ Top(b) \in Nat
    BY <1>4, <1>5
  <2>3. /\ new \in Block /\ new.pos = Top(b)
        /\ DOMAIN new.chars = {p \in DOMAIN blocks[b].chars : p < Top(b)}
        /\ \A p \in DOMAIN new.chars : new.chars[p] = blocks[b].chars[p]
    BY <2>1, <2>2, TrimFacts
  <2> QED BY <1>6, <2>1, <2>3
<1>8. blocks' \in Seq(Block) /\ Len(blocks') = to
  <2>1. blocks' \in [1 .. to -> Block]
    BY <1>6, <1>7
  <2> QED BY <1>4, <2>1
<1>9. \A b \in 1 .. to : Packed(blocks'[b]) /\ blocks'[b].pos <= STRING_BLOCK_SIZE
  BY <1>2, <1>3, <1>7 DEF MovedOK
<1>10. \A b, q : Has(blocks', b, q) <=> Target(b, q)
  BY <1>3, <1>7, <1>8 DEF Has, Target
<1>11. \A b, q : Has(blocks', b, q) => Id(blocks', b, q) = Id(blocks, b, q)
  BY <1>7, <1>8 DEF Has, Id
<1> QED BY <1>3, <1>4, <1>8, <1>9, <1>10, <1>11

LEMMA SweptSlots ==
  ASSUME GcInv, Sweep
  PROVE  /\ val' \in [Slots -> Values] /\ free' \subseteq Conses
         /\ \A s \in Slots : s \notin InNeed => val'[s] = Number
         /\ \A s \in InNeed : before.val[s].t # "string" => val'[s] = before.val[s]
         /\ \A s \in InNeed : before.val[s].t = "string" =>
              \E b, q : /\ val'[s] = Str(b, q) /\ Target(b, q)
                        /\ Id(blocks, b, q) = StringIn(before.blocks, before.val[s].at)
         /\ \A c \in Conses : c \in free' <=> <<c, "car">> \notin InNeed
<1>1. phase = "sweep"
  BY DEF Sweep
<1>2. /\ Types /\ ScanOK /\ MovedOK /\ RestOK /\ IsHeap(before.val, before.blocks)
      /\ InNeed \subseteq Slots /\ Roots \subseteq InNeed
  BY <1>1, ReachFacts DEF GcInv, Compacting, InNeed
<1>3. PICK unmarked : unmarked = {c \in Conses : <<c, "car">> \notin marks}
  OBVIOUS
<1>4. /\ free' = unmarked
      /\ val' = [s \in Slots |-> IF s \in unmarked \X {"car", "cdr"} THEN Number ELSE val[s]]
  BY <1>3 DEF Sweep
<1>5. \A c \in Conses : /\ c \in unmarked <=> <<c, "car">> \notin InNeed
                        /\ <<c, "cdr">> \in InNeed <=> <<c, "car">> \in InNeed
  BY <1>2, <1>3 DEF RestOK
<1>6. ASSUME NEW s \in InNeed
      PROVE  s \in Slots /\ val'[s] = val[s]
  <2>1. s \notin unmarked \X {"car", "cdr"}
    <3> SUFFICES ASSUME NEW c \in unmarked, s = <<c, "car">> \/ s = <<c, "cdr">>
                 PROVE  FALSE
      OBVIOUS
    <3>1. c \in Conses
      BY <1>3
    <3> QED BY <1>5, <3>1
  <2> QED BY <1>2, <1>4, <2>1
<1>7. ASSUME NEW s \in Slots, s \notin InNeed
      PROVE  val'[s] = Number
  <2>1. s \in Cells
    BY <1>2, <1>7 DEF Slots
  <2>2. PICK c \in Conses : s = <<c, "car">> \/ s = <<c, "cdr">>
    BY <2>1 DEF Cells
  <2>3. c \in unmarked
    BY <1>5, <1>7, <2>2
  <2>4. s \in unmarked \X {"car", "cdr"}
    BY <2>2, <2>3
  <2> QED BY <1>4, <2>4
<1>8. \A s \in InNeed : before.val[s].t # "string" => val'[s] = before.val[s]
  BY <1>2, <1>6 DEF RestOK
<1>9. ASSUME NEW s \in InNeed, before.val[s].t = "string"
      PROVE  \E b, q : /\ val'[s] = Str(b, q) /\ Target(b, q)
                       /\ Id(blocks, b, q) = StringIn(before.blocks, before.val[s].at)
  <2>1. s \in Slots /\ IsString(s)
    BY <1>6, <1>9 DEF IsString
  <2>2. PICK b, p \in Nat : /\ Has(before.blocks, b, p)
                            /\ before.val[s].at[1] = b /\ before.val[s].at[2] = p
    BY <1>2, <1>9, <2>1, StringSlots
  <2>3. b \in 1 .. Len(before.blocks) /\ p \in DOMAIN before.blocks[b].chars
    BY <2>2 DEF Has
  <2>4. scan.from = Len(before.blocks) /\ scan.pos = before.blocks[scan.from].pos
    BY <1>1, <1>2 DEF RestOK, ScanOK
  <2>5. p < before.blocks[b].pos
    BY <1>2, <2>3, PackedFacts DEF IsHeap
  <2>6. PassedSlot(s)
    BY <1>2, <2>2, <2>3, <2>4, <2>5 DEF PassedSlot, Passed, IsHeap
  <2>7. PICK c, q : /\ val[s] = Str(c, q) /\ Target(c, q)
                    /\ Id(blocks, c, q) = StringIn(before.blocks, before.val[s].at)
    BY <1>2, <2>1, <2>6 DEF MovedOK
  <2> QED BY <1>6, <2>7
<1>10. val' \in [Slots -> Values]
  <2>1. ASSUME NEW s \in Slots
        PROVE  val'[s] \in Values
    <3>1. CASE s \notin InNeed
      BY <1>7, <3>1, ValueWords
    <3>2. CASE s \in InNeed /\ before.val[s].t # "string"
      BY <1>2, <1>8, <3>2 DEF IsHeap
    <3>3. CASE s \in InNeed /\ before.val[s].t = "string"
      <4>1. PICK b, q : val'[s] = Str(b, q) /\ Target(b, q)
        BY <1>9, <3>3
      <4>2. blocks \in Seq(Block) /\ b \in 1 .. Len(blocks) /\ q \in DOMAIN blocks[b].chars
        BY <1>2, <4>1 DEF Target, Types, ScanOK
      <4>3. b \in Nat /\ q \in Nat
        BY <4>2, BlockFacts
      <4> QED BY <4>1, <4>3, ValueWords
    <3> QED BY <3>1, <3>2, <3>3
  <2> QED BY <1>4, <2>1
<1>11. free' \subseteq Conses /\ \A c \in Conses : c \in free' <=> <<c, "car">> \notin InNeed
  BY <1>3, <1>4, <1>5
<1> QED BY <1>7, <1>8, <1>9, <1>10, <1>11

LEMMA SweptLarges ==
  ASSUME GcInv, Sweep
  PROVE  /\ large' \in SUBSET Larges /\ \A l \in large' : l.mark = FALSE
         /\ \A i : (\E l \in large' : l.id = i) <=>
                   (\E l \in large : l.id = i /\ \E s \in InNeed : before.val[s] = LargeStr(i))
<1>1. phase = "sweep"
  BY DEF Sweep
<1>2. large \in SUBSET Larges /\ LargesOK(InNeed)
  BY <1>1 DEF GcInv, Compacting, Types, RestOK
<1>3. large' = {[l EXCEPT !.mark = FALSE] : l \in {x \in large : x.mark}}
  BY DEF Sweep
<1>4. ASSUME NEW l \in large
      PROVE  /\ [l EXCEPT !.mark = FALSE] \in Larges /\ [l EXCEPT !.mark = FALSE].id = l.id
             /\ [l EXCEPT !.mark = FALSE].mark = FALSE
             /\ l.mark <=> \E s \in InNeed : before.val[s] = LargeStr(l.id)
  <2>1. l \in Larges /\ l.mark \in BOOLEAN
    BY <1>2 DEF Larges
  <2>2. l.mark = TRUE <=> \E s \in InNeed : before.val[s] = LargeStr(l.id)
    BY <1>2 DEF LargesOK
  <2>3. l.mark <=> l.mark = TRUE
    BY <2>1
  <2>4. /\ [l EXCEPT !.mark = FALSE] \in Larges /\ [l EXCEPT !.mark = FALSE].id = l.id
        /\ [l EXCEPT !.mark = FALSE].mark = FALSE
    BY <2>1 DEF Larges
  <2> QED BY <2>2, <2>3, <2>4
<1>5. ASSUME NEW m \in large'
      PROVE  \E l \in large : /\ m \in Larges /\ m.mark = FALSE /\ m.id = l.id
                              /\ \E s \in InNeed : before.val[s] = LargeStr(l.id)
  <2>1. PICK l \in {x \in large : x.mark} : m = [l EXCEPT !.mark = FALSE]
    BY <1>3
  <2> QED BY <1>4, <2>1
<1>6. ASSUME NEW l \in large, \E s \in InNeed : before.val[s] = LargeStr(l.id)
      PROVE  \E m \in large' : m.id = l.id
  <2>1. l \in {x \in large : x.mark}
    BY <1>4, <1>6
  <2>2. [l EXCEPT !.mark = FALSE] \in large'
    BY <1>3, <2>1
  <2> QED BY <1>4, <2>2
<1> QED BY <1>5, <1>6

LEMMA SweepKeeps ==
  ASSUME GcInv, Sweep
  PROVE  GcInv'
<1>1. /\ phase = "sweep" /\ phase' = "run" /\ marks' = {} /\ scan' = NotScanning
      /\ visits' = visits /\ calls' = calls
  BY DEF Sweep
<1>2. /\ Types /\ ScanOK /\ MovedOK /\ RestOK /\ IsHeap(before.val, before.blocks)
      /\ LargesThere(before.val) /\ InNeed \subseteq Slots
  BY <1>1, ReachFacts DEF GcInv, Compacting, InNeed
<1>3. /\ blocks' \in Seq(Block) /\ Len(blocks') = scan.to /\ Len(blocks') >= 1
      /\ \A b \in 1 .. scan.to : Packed(blocks'[b]) /\ blocks'[b].pos <= STRING_BLOCK_SIZE
      /\ \A b, q : Has(blocks', b, q) <=> Target(b, q)
      /\ \A b, q : Target(b, q) => Id(blocks', b, q) = Id(blocks, b, q)
  BY SweptBlocks
<1>4. /\ val' \in [Slots -> Values] /\ free' \subseteq Conses
      /\ \A s \in Slots : s \notin InNeed => val'[s] = Number
      /\ \A s \in InNeed : before.val[s].t # "string" => val'[s] = before.val[s]
      /\ \A s \in InNeed : before.val[s].t = "string" =>
           \E b, q : val'[s] = Str(b, q) /\ Target(b, q)
      /\ \A c \in Conses : c \in free' <=> <<c, "car">> \notin InNeed
  BY SweptSlots
<1>5. /\ large' \in SUBSET Larges /\ \A l \in large' : l.mark = FALSE
      /\ \A i : (\E l \in large' : l.id = i) <=>
                (\E l \in large : l.id = i /\ \E s \in InNeed : before.val[s] = LargeStr(i))
  BY SweptLarges
<1>6. IsHeap(val', blocks')
  <2>1. \A b, p, c, q :
          Has(blocks', b, p) /\ Has(blocks', c, q) /\ Id(blocks', b, p) = Id(blocks', c, q)
            => b = c /\ p = q
    BY <1>2, <1>3 DEF MovedOK
  <2>2. ASSUME NEW s \in Slots, NEW b, NEW p, val'[s] = Str(b, p)
        PROVE  Has(blocks', b, p)
    <3>1. s \in InNeed
      BY <1>4, <2>2, WordKinds
    <3>2. before.val[s].t = "string"
      <4> SUFFICES ASSUME before.val[s].t # "string" PROVE FALSE
        OBVIOUS
      <4> QED BY <1>4, <2>2, <3>1, WordKinds
    <3>3. PICK c, q : val'[s] = Str(c, q) /\ Target(c, q)
      BY <1>4, <3>1, <3>2
    <3>4. c = b /\ q = p
      <4>1. Str(c, q) = Str(b, p)
        BY <2>2, <3>3
      <4> QED BY <4>1, WordKinds
    <3> QED BY <1>3, <3>3, <3>4
  <2> QED BY <1>3, <1>4, <2>1, <2>2 DEF IsHeap
<1>7. LargesThere(val)'
  <2> SUFFICES ASSUME NEW s \in Slots, NEW i, val'[s] = LargeStr(i)
               PROVE  \E l \in large' : l.id = i
    BY DEF LargesThere
  <2>1. s \in InNeed
    BY <1>4, WordKinds
  <2>2. before.val[s].t # "string"
    BY <1>4, <2>1, WordKinds
  <2>3. before.val[s] = LargeStr(i)
    BY <1>4, <2>1, <2>2
  <2>4. \E l \in large : l.id = i
    BY <1>2, <2>3 DEF LargesThere
  <2> QED BY <1>5, <2>1, <2>3, <2>4
<1>8. ASSUME NEW s \in Slots, NEW c \in free'
      PROVE  val'[s] # ConsAt(c)
  <2> SUFFICES ASSUME val'[s] = ConsAt(c) PROVE FALSE
    OBVIOUS
  <2>1. s \in InNeed /\ c \in Conses
    BY <1>4, WordKinds
  <2>2. before.val[s].t # "string"
    BY <1>4, <2>1, WordKinds
  <2>3. before.val[s] = ConsAt(c)
    BY <1>4, <2>1, <2>2
  <2>4. <<c, "car">> \in InNeed
    BY <2>1, <2>3, ReachFacts DEF InNeed, Both
  <2> QED BY <1>4, <2>1, <2>4
<1>9. Idle'
  BY <1>1, <1>2, <1>5, <1>6, <1>7, <1>8 DEF Idle, RestOK
<1>10. Types'
  BY <1>1, <1>3, <1>4, <1>5, ValueWords DEF Types
<1> QED BY <1>1, <1>9, <1>10 DEF GcInv

LEMMA SweepCollectsGarbage ==
  ASSUME GcInv, Sweep
  PROVE  KeepsWhatIsNeeded
<1>1. phase = "sweep" /\ InNeed \subseteq Slots
  BY ReachFacts DEF Sweep, InNeed
<1>2. /\ MovedOK /\ IsHeap(before.val, before.blocks) /\ LargesThere(before.val)
  BY <1>1 DEF GcInv, Compacting
<1>3. /\ blocks' \in Seq(Block)
      /\ \A b, q : Has(blocks', b, q) <=> Target(b, q)
      /\ \A b, q : Target(b, q) => Id(blocks', b, q) = Id(blocks, b, q)
  BY SweptBlocks
<1>4. /\ free' \subseteq Conses
      /\ \A s \in InNeed : before.val[s].t # "string" => val'[s] = before.val[s]
      /\ \A s \in InNeed : before.val[s].t = "string" =>
           \E b, q : /\ val'[s] = Str(b, q) /\ Target(b, q)
                     /\ Id(blocks, b, q) = StringIn(before.blocks, before.val[s].at)
      /\ \A c \in Conses : c \in free' <=> <<c, "car">> \notin InNeed
  BY SweptSlots
<1>5. \A i : (\E l \in large' : l.id = i) <=>
             (\E l \in large : l.id = i /\ \E s \in InNeed : before.val[s] = LargeStr(i))
  BY SweptLarges
<1>6. ASSUME NEW s \in InNeed
      PROVE  Meaning(val'[s], blocks') = Meaning(before.val[s], before.blocks)
  <2>1. CASE before.val[s].t # "string"
    BY <1>4, <2>1 DEF Meaning
  <2>2. CASE before.val[s].t = "string"
    <3>1. PICK b, q : /\ val'[s] = Str(b, q) /\ Target(b, q)
                      /\ Id(blocks, b, q) = StringIn(before.blocks, before.val[s].at)
      BY <1>4, <2>2
    <3>2. StringIn(blocks', val'[s].at) = Id(blocks', b, q) /\ val'[s].t = "string"
      <4>1. /\ Str(b, q).t = "string" /\ Str(b, q).at[1] = b /\ Str(b, q).at[2] = q
        BY WordKinds
      <4>2. StringIn(blocks', Str(b, q).at) = Id(blocks', b, q)
        BY <4>1 DEF StringIn, Id
      <4> QED BY <3>1, <4>1, <4>2
    <3>3. StringIn(blocks', val'[s].at) = StringIn(before.blocks, before.val[s].at)
      BY <1>3, <3>1, <3>2
    <3> QED BY <2>2, <3>2, <3>3 DEF Meaning
  <2> QED BY <2>1, <2>2
<1>7. free' = Conses \ LiveIn(before.val)
  BY <1>4 DEF LiveIn, InNeed
<1>8. PICK ids : ids = ReachableIds(before.val, before.blocks)
  OBVIOUS
<1>9. \A i : i \in ids <=>
        \E s \in InNeed :
          \/ before.val[s].t = "string" /\ i = StringIn(before.blocks, before.val[s].at)
          \/ before.val[s].t = "large" /\ i = before.val[s].at[1]
  BY <1>8 DEF ReachableIds, InNeed
<1>10. \A i : i \in Ids' <=> \/ \E b, q : Has(blocks', b, q) /\ Id(blocks', b, q) = i
                             \/ \E l \in large' : l.id = i
  <2>1. DOMAIN blocks' = 1 .. Len(blocks')
    BY <1>3
  <2> QED BY <2>1 DEF Ids, IdsIn, Has, Id
<1>11. ASSUME NEW i \in Ids'
       PROVE  i \in ids
  <2>1. CASE \E b, q : Has(blocks', b, q) /\ Id(blocks', b, q) = i
    <3>1. PICK b, q : Target(b, q) /\ Id(blocks, b, q) = i
      BY <1>3, <2>1
    <3>2. PICK s \in Slots : IsString(s) /\ i = StringIn(before.blocks, before.val[s].at)
      BY <1>2, <3>1 DEF MovedOK
    <3> QED BY <1>9, <3>2 DEF IsString
  <2>2. CASE \E l \in large' : l.id = i
    <3>1. PICK s \in InNeed : before.val[s] = LargeStr(i)
      BY <1>5, <2>2
    <3> QED BY <1>9, <3>1, WordKinds
  <2> QED BY <1>10, <2>1, <2>2
<1>12. ASSUME NEW i \in ids
       PROVE  i \in Ids'
  <2>1. PICK s \in InNeed :
          \/ before.val[s].t = "string" /\ i = StringIn(before.blocks, before.val[s].at)
          \/ before.val[s].t = "large" /\ i = before.val[s].at[1]
    BY <1>9
  <2>2. CASE before.val[s].t = "string"
    <3>1. PICK b, q : /\ Target(b, q)
                      /\ Id(blocks, b, q) = StringIn(before.blocks, before.val[s].at)
      BY <1>4, <2>2
    <3>2. Has(blocks', b, q) /\ Id(blocks', b, q) = i
      BY <1>3, <2>1, <2>2, <3>1
    <3> QED BY <1>10, <3>2
  <2>3. CASE before.val[s].t = "large"
    <3>1. before.val[s] \in Words
      BY <1>1, <1>2, ValueWords DEF IsHeap
    <3>2. before.val[s] = LargeStr(i)
      BY <2>1, <2>3, <3>1, WordFacts, WordKinds
    <3>3. \E l \in large : l.id = i
      BY <1>1, <1>2, <3>2 DEF LargesThere
    <3> QED BY <1>5, <1>10, <3>2, <3>3
  <2> QED BY <2>1, <2>2, <2>3
<1>13. Ids' = ReachableIds(before.val, before.blocks)
  BY <1>8, <1>11, <1>12
<1> QED BY <1>6, <1>7, <1>13 DEF KeepsWhatIsNeeded, InNeed
-----------------------------------------------------------------------------

LEMMA GcStays ==
  ASSUME GcInv, UNCHANGED gcVars
  PROVE  GcInv'
<1>1. UNCHANGED <<val, free, blocks, large, phase, visits, calls, marks, scan, before>>
  BY DEF gcVars
<1>2. InNeed' = InNeed
  BY <1>1 DEF InNeed
<1>3. Types' /\ (phase = "run" => Idle')
  BY <1>1 DEF GcInv, Types, Idle, LargesThere
<1>4. phase # "run" => IsHeap(before.val, before.blocks)' /\ LargesThere(before.val)'
  BY <1>1 DEF GcInv, LargesThere
<1>5. ASSUME NEW D, NEW rank, NEW s, InChain(D, rank, s)
      PROVE  InChain(D, rank, s)'
  BY <1>1, <1>5 DEF InChain, Before, SizeOf
<1>6. ASSUME NEW D, NEW rank, NEW b, NEW p, Chained(D, rank, b, p)
      PROVE  Chained(D, rank, b, p)'
  BY <1>1, <1>6 DEF Chained, Refs
<1>7. ASSUME NEW D \in SUBSET Slots, NEW rank \in [Slots -> Nat], NEW clock \in Nat,
             Marked(D, rank, clock)
      PROVE  Marked(D, rank, clock)'
  <2>1. TasksOK(D)' /\ MarksOK(D)' /\ VisitsOK(D)'
    BY <1>1, <1>2, <1>7
      DEF Marked, TasksOK, MarksOK, VisitsOK, Pending, BitPending, BitSlot
  <2>2. ChainsOK(D, rank, clock)'
    <3>1. ChainsOK(D, rank, clock)
      BY <1>7 DEF Marked
    <3> QED BY <1>1, <1>5, <1>6, <3>1 DEF ChainsOK
  <2>3. LargesOK(D)'
    BY <1>1, <1>7 DEF Marked, LargesOK
  <2> QED BY <2>1, <2>2, <2>3 DEF Marked
<1>8. phase = "mark" => Marking1'
  BY <1>1, <1>7 DEF GcInv, Marking1
<1>9. /\ \A b, p : (Passed(b, p)' <=> Passed(b, p)) /\ (Current(b, p)' <=> Current(b, p))
      /\ \A b, p : (Top(b)' = Top(b)) /\ (Target(b, p)' <=> Target(b, p))
      /\ \A s : /\ (IsString(s)' <=> IsString(s)) /\ (PassedSlot(s)' <=> PassedSlot(s))
                /\ (CurrentSlot(s)' <=> CurrentSlot(s))
  BY <1>1, <1>2 DEF Passed, Current, Top, Target, IsString, PassedSlot, CurrentSlot
<1>10. ASSUME phase \notin {"run", "mark"}
       PROVE  Compacting'
  <2>1. PICK rank \in [Slots -> Nat] :
          /\ \A s, u \in InNeed : rank[s] = rank[u] => s = u
          /\ ScanOK /\ AheadOK(rank) /\ MovedOK /\ RestOK
          /\ phase = "measure" => Measuring(rank)
          /\ phase = "relocate" => Relocating(rank)
    BY <1>10 DEF GcInv, Compacting
  <2>2. ScanOK' /\ RestOK' /\ MovedOK'
    BY <1>1, <1>2, <1>9, <2>1 DEF ScanOK, RestOK, LargesOK, MovedOK
  <2>3. AheadOK(rank)'
    BY <1>1, <1>2, <1>5, <1>6, <1>9, <2>1 DEF AheadOK
  <2>4. \A b, p : Refs(InNeed, b, p)' = Refs(InNeed, b, p)
    BY <1>1, <1>2 DEF Refs
  <2>5. phase = "measure" => Measuring(rank)'
    BY <1>1, <1>2, <2>1, <2>4 DEF Measuring
  <2>6. phase = "relocate" => Relocating(rank)'
    BY <1>1, <1>2, <1>5, <2>1, <2>4 DEF Relocating
  <2> QED BY <1>1, <1>2, <2>1, <2>2, <2>3, <2>5, <2>6 DEF Compacting
<1> QED BY <1>1, <1>3, <1>4, <1>8, <1>10 DEF GcInv

LEMMA GcStep ==
  ASSUME GcInv, GcNext \/ UNCHANGED gcVars
  PROVE  GcInv'
<1>1. CASE Run
  BY <1>1, RunKeeps DEF GcInv, Run
<1>2. CASE Collect
  BY <1>2, CollectKeeps DEF GcInv, Collect
<1>3. CASE MarkRoot
  BY <1>3, MarkRootKeeps
<1>4. CASE MarkCons
  BY <1>4, MarkConsKeeps
<1>5. CASE MarkString
  BY <1>5, MarkStringKeeps
<1>6. CASE MarkLarge
  BY <1>6, MarkLargeKeeps
<1>7. CASE MarkOther
  BY <1>7, MarkOtherKeeps
<1>8. CASE SetMarkbit
  BY <1>8, SetMarkbitKeeps
<1>9. CASE BeginScan
  BY <1>9, BeginScanKeeps
<1>10. CASE ScanBlock
  BY <1>10, ScanBlockKeeps
<1>11. CASE ScanString
  BY <1>11, ScanStringKeeps
<1>12. CASE FollowChain
  BY <1>12, FollowChainKeeps
<1>13. CASE CloseBlock
  BY <1>13, CloseBlockKeeps
<1>14. CASE MoveString
  BY <1>14, MoveStringKeeps
<1>15. CASE Relocate
  BY <1>15, RelocateKeeps
<1>16. CASE StoreSize
  BY <1>16, StoreSizeKeeps
<1>17. CASE Sweep
  BY <1>17, SweepKeeps
<1>18. CASE UNCHANGED gcVars
  BY <1>18, GcStays
<1> QED BY <1>1, <1>2, <1>3, <1>4, <1>5, <1>6, <1>7, <1>8, <1>9, <1>10, <1>11, <1>12,
           <1>13, <1>14, <1>15, <1>16, <1>17, <1>18 DEF GcNext

\* No cons that can be reached is on the free list.
LEMMA FreeUnreached ==
  ASSUME Types, Idle
  PROVE  LiveIn(val) \cap free = {}
<1>1. PICK ss : ss = {s \in Slots : \A c \in free : s \notin Both(c)}
  OBVIOUS
<1>2. Roots \subseteq ss
  <2>1. \A s \in Roots : s \in Slots /\ s \notin Cells
    BY GcAssumption DEF Roots, Slots, Cells
  <2>2. \A c \in free : Both(c) \subseteq Cells
    BY DEF Types, Both, Cells
  <2> QED BY <1>1, <2>1, <2>2
<1>3. ASSUME NEW s \in ss, NEW c \in Conses, val[s] = ConsAt(c)
      PROVE  Both(c) \subseteq ss
  <2>1. c \notin free
    BY <1>1, <1>3 DEF Idle
  <2>2. \A d \in free : Both(c) \cap Both(d) = {}
    BY <2>1 DEF Both
  <2>3. Both(c) \subseteq Slots
    BY DEF Both, Slots, Cells
  <2> QED BY <1>1, <2>2, <2>3
<1>4. val \in [Slots -> Words] /\ ss \in SUBSET Slots
  BY <1>1 DEF Types
<1>5. ReachableIn(val) \subseteq ss
  BY <1>2, <1>3, <1>4, ReachLeast
<1>6. \A c \in free : <<c, "car">> \in Both(c)
  BY DEF Both
<1> QED BY <1>1, <1>5, <1>6 DEF LiveIn

LEMMA GcWellFormed ==
  ASSUME GcInv
  PROVE  StorageWellFormed
<1> SUFFICES ASSUME phase = "run" PROVE StorageWellFormed
  BY DEF StorageWellFormed
<1>1. Types /\ Idle /\ IsHeap(val, blocks) /\ LargesThere(val)
  BY DEF GcInv, Idle
<1>2. DOMAIN blocks = 1 .. Len(blocks) /\ val \in [Slots -> Values] /\ Reachable \subseteq Slots
  BY <1>1, ReachFacts DEF IsHeap, Reachable
<1>3. \A b \in DOMAIN blocks : Packed(blocks[b]) /\ blocks[b].pos <= STRING_BLOCK_SIZE
  BY <1>1, <1>2 DEF IsHeap
<1>4. ASSUME NEW b \in DOMAIN blocks, NEW c \in DOMAIN blocks,
             NEW p \in DOMAIN blocks[b].chars, NEW q \in DOMAIN blocks[c].chars,
             StringIn(blocks, <<b, p>>) = StringIn(blocks, <<c, q>>)
      PROVE  <<b, p>> = <<c, q>>
  <2>1. Has(blocks, b, p) /\ Has(blocks, c, q)
    BY <1>2 DEF Has
  <2>2. Id(blocks, b, p) = Id(blocks, c, q)
    BY <1>4 DEF StringIn, Id
  <2>3. b = c /\ p = q
    BY <1>1, <2>1, <2>2 DEF IsHeap
  <2> QED BY <2>3
<1>5. ASSUME NEW s \in Reachable
      PROVE  CASE val[s].t = "string" -> /\ val[s].at[1] \in DOMAIN blocks
                                         /\ val[s].at[2] \in DOMAIN blocks[val[s].at[1]].chars
               [] val[s].t = "large" -> \E l \in large : l.id = val[s].at[1]
               [] OTHER -> val[s].t # "thread"
  <2>1. s \in Slots /\ val[s] \in Values /\ val[s] \in Words /\ val[s].t # "thread"
    BY <1>2, ValueWords
  <2>2. ASSUME val[s].t = "string"
        PROVE  /\ val[s].at[1] \in DOMAIN blocks
               /\ val[s].at[2] \in DOMAIN blocks[val[s].at[1]].chars
    <3>1. PICK b, p \in Nat : val[s] = Str(b, p)
      BY <2>1, <2>2, WordFacts
    <3>2. Has(blocks, b, p)
      BY <1>1, <2>1, <3>1 DEF IsHeap
    <3>3. val[s].at[1] = b /\ val[s].at[2] = p
      BY <3>1, WordKinds
    <3> QED BY <1>2, <3>2, <3>3 DEF Has
  <2>3. ASSUME val[s].t = "large"
        PROVE  \E l \in large : l.id = val[s].at[1]
    <3>1. PICK i \in Nat : val[s] = LargeStr(i)
      BY <2>1, <2>3, WordFacts
    <3> QED BY <1>1, <2>1, <3>1, WordKinds DEF LargesThere
  <2>4. CASE val[s].t = "string"
    BY <2>2, <2>4
  <2>5. CASE val[s].t = "large"
    BY <2>3, <2>5
  <2>6. CASE val[s].t # "string" /\ val[s].t # "large"
    BY <2>1, <2>6
  <2> QED BY <2>4, <2>5, <2>6
<1>6. LiveIn(val) \cap free = {}
  BY <1>1, FreeUnreached
<1> QED BY <1>3, <1>4, <1>5, <1>6 DEF StorageWellFormed

LEMMA StepCollectsGarbage ==
  ASSUME GcInv, GcNext \/ UNCHANGED gcVars
  PROVE  KeepsWhatIsNeeded
<1> SUFFICES ASSUME phase = "sweep", phase' = "run"
             PROVE  KeepsWhatIsNeeded
  BY DEF KeepsWhatIsNeeded
<1>1. Sweep
  BY DEF GcNext, gcVars, Run, Collect, MarkRoot, MarkCons, MarkString, MarkLarge, MarkOther,
         SetMarkbit, Marking, BeginScan, ScanBlock, ScanString, FollowChain, CloseBlock,
         MoveString, Relocate, StoreSize
<1> QED BY <1>1, SweepCollectsGarbage

-----------------------------------------------------------------------------
\* While the program runs, what it can reach is where it is looked for, and is
\* not free: for any conses, slots, size of a string block and strings
\* (make_uninit_string, Fcons, compact_strings, gc_sweep).
THEOREM StorageAlwaysWellFormed == GcSpec => []StorageWellFormed
<1>1. GcInit => GcInv
  BY InitKeeps
<1>2. GcInv /\ [GcNext]_gcVars => GcInv'
  BY GcStep
<1>3. GcInv => StorageWellFormed
  BY GcWellFormed
<1> QED BY <1>1, <1>2, <1>3, PTL DEF GcSpec

\* A collection frees all that could not be reached when it began, and nothing
\* else, and all that could be reached says what it said (Fgarbage_collect).
THEOREM OnlyGarbageIsCollected == GcSpec => CollectsGarbageOnly
<1>1. GcInit => GcInv
  BY InitKeeps
<1>2. GcInv /\ [GcNext]_gcVars => GcInv'
  BY GcStep
<1>3. GcInv /\ [GcNext]_gcVars => [KeepsWhatIsNeeded]_gcVars
  BY StepCollectsGarbage
<1> QED BY <1>1, <1>2, <1>3, PTL DEF GcSpec, CollectsGarbageOnly
=============================================================================
