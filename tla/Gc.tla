--------------------------------- MODULE Gc ---------------------------------
(***************************************************************************)
(* Storage and garbage collection (alloc.c): conses, which are marked and  *)
(* swept, and strings, which are moved together, so that every slot that   *)
(* refers to one has to be found.  mark_object threads those slots into a  *)
(* chain that begins in the string's own size field and ends with the      *)
(* size; compact_strings follows it.                                       *)
(*                                                                         *)
(* A string takes a unit for its header and one for each character; what   *)
(* it says is its identity here.  The program stands still while garbage   *)
(* is collected.  Vectors, symbols, buffers and markers are not modelled,  *)
(* nor is pure storage.                                                    *)
(***************************************************************************)
EXTENDS Integers, Sequences, SequencesExt, FiniteSets

CONSTANTS
  Conses,
  StaticSlots,  \* in staticvec
  StackSlots,   \* protected by GCPRO; also arguments of a call in progress
  STRING_BLOCK_SIZE, STRING_BLOCK_OUTSIZE,
  Lengths,      \* of the strings made
  MaxStrings    \* bound: strings that there are at once

ASSUME GcAssumption ==
  /\ Lengths \subseteq Nat /\ MaxStrings \in Nat
  /\ STRING_BLOCK_SIZE \in Nat /\ STRING_BLOCK_OUTSIZE \in Nat
  /\ STRING_BLOCK_OUTSIZE <= STRING_BLOCK_SIZE
  \* "We know no slot is marked twice because the structures don't overlap."
  /\ StaticSlots \cap StackSlots = {}
  /\ (StaticSlots \cup StackSlots) \cap (Conses \X {"car", "cdr"}) = {}

VARIABLES
  val,      \* of every slot
  free,     \* cons_free_list
  blocks,   \* the string blocks, from first to current: pos, the strings
  large,    \* the strings that have a block each, with ARRAY_MARK_FLAG
  phase,    \* "run" while the program does; else of garbage-collect: "mark",
            \* and "scan", "measure", "relocate", "sweep" of compact_strings
  visits,   \* the roots that are still to be marked, in three passes
  calls,    \* what the calls of mark_object have still to do
  marks,    \* the slots that have their MARKBIT, which marks a cons in its car
  scan,     \* the variables of compact_strings
  before    \* what was there when the collection began

gcVars == <<val, free, blocks, large, phase, visits, calls, marks, scan, before>>

Cells == Conses \X {"car", "cdr"}
Roots == StaticSlots \cup StackSlots
Slots == Roots \cup Cells

Number == [t |-> "int", at |-> <<0, 0>>]
ConsAt(c) == [t |-> "cons", at |-> <<c, 0>>]
Str(b, pos) == [t |-> "string", at |-> <<b, pos>>]
LargeStr(id) == [t |-> "large", at |-> <<id, 0>>]
FullSize(n) == n + 1

(***************************************************************************)
(* The size field of a string, or the word that has been put into a slot   *)
(* instead of the reference: the size, or the next slot of the chain.      *)
(***************************************************************************)
Size(n) == [k |-> "size", n |-> n, slot |-> <<>>]
Slot(s) == [k |-> "slot", n |-> 0, slot |-> s]
Threaded(link) == [t |-> "thread", link |-> link]

NoBlock == [pos |-> 0, chars |-> <<>>]  \* chars: from positions to strings

NotScanning ==
  [from |-> 1, pos |-> 0, to |-> 1, to_pos |-> 0, newaddr |-> <<1, 0>>,
   size |-> Size(0)]
Nothing == [val |-> <<>>, blocks |-> <<>>]

GcInit ==
  /\ val = [s \in Slots |-> Number] /\ free = Conses
  /\ blocks = <<NoBlock>> /\ large = {}
  /\ phase = "run" /\ visits = {} /\ calls = <<>> /\ marks = {}
  /\ scan = NotScanning /\ before = Nothing

-----------------------------------------------------------------------------
(***************************************************************************)
(* What is there for the program: the slots that can be reached from the   *)
(* roots, which are in every set that has them and is closed.              *)
(***************************************************************************)
Closed(ss, v) ==
  \A s \in ss : v[s].t = "cons" => {v[s].at[1]} \X {"car", "cdr"} \subseteq ss
ReachableIn(v) ==
  {s \in Slots : \A ss \in SUBSET Slots : Roots \subseteq ss /\ Closed(ss, v) => s \in ss}
Reachable == ReachableIn(val)
LiveIn(v) == {c \in Conses : <<c, "car">> \in ReachableIn(v)}

StringIn(bs, a) == bs[a[1]].chars[a[2]].id
IdsIn(bs) ==
  UNION {{bs[b].chars[pos].id : pos \in DOMAIN bs[b].chars} : b \in DOMAIN bs}
Ids == IdsIn(blocks) \cup {l.id : l \in large}

-----------------------------------------------------------------------------
\* make_uninit_string: in the current block, in a block of its own or in a new
\* current block.
WithString(block, new) ==
  [pos |-> block.pos + FullSize(new.size.n),
   chars |-> [p \in DOMAIN block.chars \cup {block.pos} |->
                IF p = block.pos THEN new ELSE block.chars[p]]]

MakeString(s, n) ==
  /\ \E i \in 1 .. MaxStrings : i \notin Ids
  /\ LET id == CHOOSE i \in 1 .. MaxStrings : i \notin Ids
         new == [id |-> id, size |-> Size(n)]
         last == Len(blocks)
     IN IF FullSize(n) <= STRING_BLOCK_SIZE - blocks[last].pos
        THEN /\ val' = [val EXCEPT ![s] = Str(last, blocks[last].pos)]
             /\ blocks' = [blocks EXCEPT ![last] = WithString(@, new)]
             /\ UNCHANGED large
        ELSE IF FullSize(n) > STRING_BLOCK_OUTSIZE
        THEN /\ val' = [val EXCEPT ![s] = LargeStr(id)]
             /\ large' = large \cup {[id |-> id, mark |-> FALSE]}
             /\ UNCHANGED blocks
        ELSE /\ val' = [val EXCEPT ![s] = Str(last + 1, 0)]
             /\ blocks' = Append(blocks, WithString(NoBlock, new))
             /\ UNCHANGED large
  /\ UNCHANGED free

\* Fcons
MakeCons(s, car, cdr) ==
  \E c \in free :
    /\ free' = free \ {c}
    /\ val' = [val EXCEPT ![<<c, "car">>] = val[car], ![<<c, "cdr">>] = val[cdr],
                          ![s] = ConsAt(c)]
    /\ UNCHANGED <<blocks, large>>

\* setq, rplaca, a variable that goes away
Store(s, v) ==
  /\ val' = [val EXCEPT ![s] = v] /\ UNCHANGED <<free, blocks, large>>

Run ==
  /\ phase = "run"
  /\ \/ \E s \in Roots, n \in Lengths : MakeString(s, n)
     \/ \E s \in Roots, car, cdr \in Roots : MakeCons(s, car, cdr)
     \/ \E s \in Reachable, from \in Reachable : Store(s, val[from])
     \/ \E s \in Roots : Store(s, Number)
  /\ UNCHANGED <<phase, visits, calls, marks, scan, before>>

-----------------------------------------------------------------------------
(***************************************************************************)
(* Fgarbage_collect: every static is marked, then the slots on the stack,  *)
(* by gcprolist and then by backtrace_list, unless they have their MARKBIT.*)
(***************************************************************************)
Task(do, s) == [do |-> do, slot |-> s]

Collect ==
  /\ phase = "run" /\ phase' = "mark"
  /\ visits' = ({1} \X StaticSlots) \cup ({2, 3} \X StackSlots)
  /\ before' = [val |-> val, blocks |-> blocks]
  /\ UNCHANGED <<val, free, blocks, large, calls, marks, scan>>

MarkRoot ==
  /\ phase = "mark" /\ calls = <<>>
  /\ \E v \in visits :
       /\ \A u \in visits : v[1] <= u[1]
       /\ visits' = visits \ {v}
       /\ calls' = IF v[1] = 1 THEN <<Task("mark", v[2])>>
                  ELSE IF v[2] \in marks THEN <<>>
                  ELSE <<Task("mark", v[2]), Task("xmark", v[2])>>
  /\ UNCHANGED <<val, free, blocks, large, phase, marks, scan, before>>

(***************************************************************************)
(* mark_object: a cons is marked and then its car and cdr, the cdr first   *)
(* if it is (INTEGER . nil), which a word of a chain may look like; a slot *)
(* that refers to a string goes to the front of the string's chain.        *)
(***************************************************************************)
Marking(do) == phase = "mark" /\ calls # <<>> /\ Head(calls).do = do
It == Head(calls).slot

MarkCons ==
  /\ Marking("mark") /\ val[It].t = "cons"
  /\ LET c == val[It].at[1]
     IN IF <<c, "car">> \in marks THEN calls' = Tail(calls) /\ UNCHANGED marks
        ELSE /\ marks' = marks \cup {<<c, "car">>}
             /\ \E first, then \in {"car", "cdr"} :
                  /\ first # then /\ (first = "cdr" => val[<<c, "cdr">>].t = "cons")
                  /\ calls' = <<Task("mark", <<c, first>>), Task("mark", <<c, then>>)>>
                               \o Tail(calls)
  /\ UNCHANGED <<val, free, blocks, large, phase, visits, scan, before>>

MarkString ==
  /\ Marking("mark") /\ val[It].t = "string" /\ calls' = Tail(calls)
  /\ LET b == val[It].at[1]
         pos == val[It].at[2]
     IN /\ val' = [val EXCEPT ![It] = Threaded(blocks[b].chars[pos].size)]
        /\ blocks' = [blocks EXCEPT ![b].chars[pos].size = Slot(It)]
  /\ UNCHANGED <<free, large, phase, visits, marks, scan, before>>

MarkLarge ==
  /\ Marking("mark") /\ val[It].t = "large" /\ calls' = Tail(calls)
  /\ large' = {IF l.id = val[It].at[1] THEN [l EXCEPT !.mark = TRUE] ELSE l :
                 l \in large}
  /\ UNCHANGED <<val, free, blocks, phase, visits, marks, scan, before>>

MarkOther ==
  /\ Marking("mark") /\ val[It].t \notin {"cons", "string", "large"}
  /\ calls' = Tail(calls)
  /\ UNCHANGED <<val, free, blocks, large, phase, visits, marks, scan, before>>

SetMarkbit ==
  /\ Marking("xmark") /\ calls' = Tail(calls) /\ marks' = marks \cup {It}
  /\ UNCHANGED <<val, free, blocks, large, phase, visits, scan, before>>

-----------------------------------------------------------------------------
(***************************************************************************)
(* compact_strings: from every block the strings that are marked are moved *)
(* to the front, and their references follow them.                         *)
(***************************************************************************)
BeginScan ==
  /\ phase = "mark" /\ calls = <<>> /\ visits = {} /\ phase' = "scan"
  /\ UNCHANGED <<val, free, blocks, large, visits, calls, marks, scan, before>>

NextStr == blocks[scan.from].chars[scan.pos]
AtEnd == scan.pos >= blocks[scan.from].pos

ScanBlock ==
  /\ phase = "scan" /\ AtEnd
  /\ IF scan.from = Len(blocks) THEN phase' = "sweep" /\ UNCHANGED scan
     ELSE scan' = [scan EXCEPT !.from = @ + 1, !.pos = 0] /\ UNCHANGED phase
  /\ UNCHANGED <<val, free, blocks, large, visits, calls, marks, before>>

\* A string that is not marked is skipped; of one that is, the size is at the
\* end of the chain.
ScanString ==
  /\ phase = "scan" /\ ~AtEnd
  /\ IF NextStr.size.k = "size"
     THEN /\ scan' = [scan EXCEPT !.pos = @ + FullSize(NextStr.size.n)]
          /\ UNCHANGED phase
     ELSE scan' = [scan EXCEPT !.size = NextStr.size] /\ phase' = "measure"
  /\ UNCHANGED <<val, free, blocks, large, visits, calls, marks, before>>

FollowChain ==
  /\ phase = "measure" /\ scan.size.k = "slot"
  /\ scan' = [scan EXCEPT !.size = val[scan.size.slot].link]
  /\ UNCHANGED <<val, free, blocks, large, phase, visits, calls, marks, before>>

\* No block is longer than STRING_BLOCK_SIZE, see StorageWellFormed.
Full == FullSize(scan.size.n)
Fits == scan.to_pos + Full <= STRING_BLOCK_SIZE

\* There is no room: the block keeps what it has got up to now.
CloseBlock ==
  /\ phase = "measure" /\ scan.size.k = "size" /\ ~Fits
  /\ blocks' = [blocks EXCEPT ![scan.to].pos = scan.to_pos]
  /\ scan' = [scan EXCEPT !.to = @ + 1, !.to_pos = 0]
  /\ UNCHANGED <<val, free, large, phase, visits, calls, marks, before>>

\* The string is copied, over what there may be.
MoveString ==
  /\ phase = "measure" /\ scan.size.k = "size" /\ Fits /\ phase' = "relocate"
  /\ LET chars == blocks[scan.to].chars
         over == {p \in DOMAIN chars :
                    p > scan.to_pos /\ p < scan.to_pos + Full}
     IN blocks' = [blocks EXCEPT ![scan.to].chars =
                     [p \in (DOMAIN chars \ over) \cup {scan.to_pos} |->
                        IF p = scan.to_pos THEN NextStr ELSE chars[p]]]
  /\ scan' = [scan EXCEPT !.newaddr = <<scan.to, scan.to_pos>>,
                          !.to_pos = @ + Full, !.size = NextStr.size]
  /\ UNCHANGED <<val, free, large, visits, calls, marks, before>>

\* Plausible bug: the slots of the chain lose their MARKBIT.
RelocateUnmarking ==
  /\ phase = "relocate" /\ scan.size.k = "slot"
  /\ val' = [val EXCEPT ![scan.size.slot] = Str(scan.newaddr[1], scan.newaddr[2])]
  /\ scan' = [scan EXCEPT !.size = val[scan.size.slot].link]
  /\ marks' = marks \ {scan.size.slot}
  /\ UNCHANGED <<free, blocks, large, phase, visits, calls, before>>

Relocate ==
  /\ phase = "relocate" /\ scan.size.k = "slot"
  /\ val' = [val EXCEPT ![scan.size.slot] = Str(scan.newaddr[1], scan.newaddr[2])]
  /\ scan' = [scan EXCEPT !.size = val[scan.size.slot].link]
  /\ UNCHANGED <<free, blocks, large, phase, visits, calls, marks, before>>

StoreSize ==
  /\ phase = "relocate" /\ scan.size.k = "size" /\ phase' = "scan"
  /\ blocks' = [blocks EXCEPT
                  ![scan.newaddr[1]].chars[scan.newaddr[2]].size = scan.size]
  /\ scan' = [scan EXCEPT !.pos = @ + Full]
  /\ UNCHANGED <<val, free, large, visits, calls, marks, before>>

\* Plausible bug: the last block is not closed, and keeps its old pos.
BlocksLeftUnclosed == SubSeq(blocks, 1, scan.to)

(***************************************************************************)
(* The last block is closed and those after it are freed.  A string goes   *)
(* into a block that is not full, so that every block but the first has    *)
(* got one: the loop that frees empty ones finds none.                     *)
(***************************************************************************)
BlocksLeft ==
  [b \in 1 .. scan.to |->
     LET end == IF b = scan.to THEN scan.to_pos ELSE blocks[b].pos
         chars == blocks[b].chars
     IN [pos |-> end, chars |-> [p \in {x \in DOMAIN chars : x < end} |-> chars[p]]]]

\* The rest of gc_sweep: the conses are swept after the strings have been moved,
\* as their marks were in slots that were threaded.
Sweep ==
  /\ phase = "sweep" /\ phase' = "run" /\ blocks' = BlocksLeft
  /\ LET unmarked == {c \in Conses : <<c, "car">> \notin marks}
     IN /\ free' = unmarked
        /\ val' = [s \in Slots |-> IF s \in unmarked \X {"car", "cdr"} THEN Number
                                   ELSE val[s]]
  /\ large' = {[l EXCEPT !.mark = FALSE] : l \in {x \in large : x.mark}}
  /\ marks' = {} /\ scan' = NotScanning /\ before' = Nothing
  /\ UNCHANGED <<visits, calls>>

GcNext ==
  \/ Run \/ Collect
  \/ MarkRoot \/ MarkCons \/ MarkString \/ MarkLarge \/ MarkOther \/ SetMarkbit
  \/ BeginScan \/ ScanBlock \/ ScanString \/ FollowChain
  \/ CloseBlock \/ MoveString \/ Relocate \/ StoreSize \/ Sweep

GcSpec == GcInit /\ [][GcNext]_gcVars

-----------------------------------------------------------------------------
(***************************************************************************)
(* The strings of a block lie one behind the other, from 0 to its pos.     *)
(***************************************************************************)
EndOf(block, p) == p + FullSize(block.chars[p].size.n)
Packed(block) ==
  LET starts == DOMAIN block.chars
  IN /\ 0 \in starts \cup {block.pos}
     /\ \A p \in starts :
          /\ block.chars[p].size.k = "size"
          /\ EndOf(block, p) \in starts \cup {block.pos}
          /\ EndOf(block, p) <= block.pos
          /\ \A q \in starts : p < q => EndOf(block, p) <= q

(***************************************************************************)
(* While the program runs, blocks are packed and not too long, no string   *)
(* is in two places, what the program can reach is where it is looked for, *)
(* and no cons it can reach is on the free list (make_uninit_string, Fcons,*)
(* compact_strings, gc_sweep).                                             *)
(***************************************************************************)
StorageWellFormed ==
  phase = "run" =>
  /\ \A b \in DOMAIN blocks : Packed(blocks[b]) /\ blocks[b].pos <= STRING_BLOCK_SIZE
  /\ \A b, c \in DOMAIN blocks :
       \A p \in DOMAIN blocks[b].chars, q \in DOMAIN blocks[c].chars :
         StringIn(blocks, <<b, p>>) = StringIn(blocks, <<c, q>>) => <<b, p>> = <<c, q>>
  /\ \A s \in Reachable :
       CASE val[s].t = "string" -> /\ val[s].at[1] \in DOMAIN blocks
                                   /\ val[s].at[2] \in DOMAIN blocks[val[s].at[1]].chars
         [] val[s].t = "large" -> \E l \in large : l.id = val[s].at[1]
         [] OTHER -> val[s].t # "thread"
  /\ LiveIn(val) \cap free = {}

\* What a slot says, wherever the string is.
Meaning(v, bs) == IF v.t = "string" THEN [t |-> "string", id |-> StringIn(bs, v.at)]
                  ELSE [t |-> v.t, id |-> v.at[1]]
ReachableIds(v, bs) ==
  {IF v[s].t = "string" THEN StringIn(bs, v[s].at) ELSE v[s].at[1] :
     s \in {x \in ReachableIn(v) : v[x].t \in {"string", "large"}}}

\* The last step of a collection.
KeepsWhatIsNeeded ==
  phase = "sweep" /\ phase' = "run" =>
    /\ \A s \in ReachableIn(before.val) :
         Meaning(val'[s], blocks') = Meaning(before.val[s], before.blocks)
    /\ free' = Conses \ LiveIn(before.val)
    /\ Ids' = ReachableIds(before.val, before.blocks)

(***************************************************************************)
(* "Reclaim storage for Lisp objects no longer needed" (garbage-collect,   *)
(* alloc.c:797): all that the program could not reach, and nothing else;   *)
(* and all that it could reach says afterwards what it said before.        *)
(***************************************************************************)
CollectsGarbageOnly == [][KeepsWhatIsNeeded]_gcVars
=============================================================================
