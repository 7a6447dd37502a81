----------------------------- MODULE InputProofs -----------------------------
(***************************************************************************)
(* Proofs about what comes to Emacs while it waits, from the terminal and  *)
(* from subprocesses.                                                      *)
(*                                                                         *)
(* Of KbdBuffer, for every set of characters, size of the buffer and bound *)
(* of the terminal: where handlers throw, when the reader sleeps (WaitInv),*)
(* and that characters come out as from a queue (BufferInv).               *)
(*                                                                         *)
(* Of Process, for any processes and any amount of output: types, that no  *)
(* event is left without a tick, that output comes before the notice of    *)
(* the end, and that this notice comes no more than once.                  *)
(***************************************************************************)
EXTENDS KbdBuffer, Process, Induction

Chars == Key \cup {CtrlG}
Block == [mem : [0 .. Size -> Chars \cup {Junk}], ptr : Nat, count : 0 .. Size]

LEMMA ConcatAt ==
  ASSUME NEW S, NEW s \in Seq(S), NEW t \in Seq(S), NEW i \in 1 .. Len(s) + Len(t)
  PROVE  (s \o t)[i] = IF i <= Len(s) THEN s[i] ELSE t[i - Len(s)]
OBVIOUS

\* q after n characters were stored.
Received(q, ks, n, r) ==
  LET room == Size - q.count
      kept == IF n <= room THEN n ELSE room
  IN /\ r \in Block
     /\ n = 0 => r = q
     /\ n # 0 => r.ptr = 0
     /\ r.count = q.count + kept
     /\ \A i \in 0 .. q.count - 1 : r.mem[r.ptr + i] = q.mem[q.ptr + i]
     /\ \A i \in 1 .. kept : r.mem[r.ptr + q.count + i - 1] = ks[i]

LEMMA StoreOne ==
  ASSUME NEW q \in Block, NEW ks \in Seq(Chars), NEW n \in 0 .. Len(ks) - 1,
         NEW r, Received(q, ks, n, r), q.ptr + q.count <= Size
  PROVE  Received(q, ks, n + 1, Store(r, ks[n + 1]))
<1> DEFINE low == Compacted(r)
           ch == ks[n + 1]
<1> USE KbdAssumption
<1>1. /\ q.ptr \in Nat /\ q.count \in 0 .. Size /\ Size \in Nat
      /\ r \in Block /\ r.ptr \in Nat /\ r.count \in 0 .. Size
      /\ r.mem \in [0 .. Size -> Chars \cup {Junk}]
      /\ r.ptr + r.count <= Size
      /\ n \in Nat /\ n + 1 \in 1 .. Len(ks)
  BY DEF Block, Received
<1>2. /\ Compacted(r) = low
      /\ low = [mem |-> low.mem, ptr |-> 0, count |-> r.count]
      /\ low.mem = [i \in 0 .. Size |-> IF i < r.count THEN r.mem[r.ptr + i]
                                        ELSE r.mem[i]]
  BY DEF Compacted
<1>3. ch \in Chars
  OBVIOUS
<1> HIDE DEF low
<1>4. low.mem \in [0 .. Size -> Chars \cup {Junk}]
  <2>1. \A i \in 0 .. Size : i < r.count => r.ptr + i \in 0 .. Size
    <3>1. /\ r.ptr \in Nat /\ r.count \in Nat /\ Size \in Nat
          /\ r.ptr + r.count <= Size
      BY <1>1
    <3> QED BY <3>1
  <2>2. \A i \in 0 .. Size :
          (IF i < r.count THEN r.mem[r.ptr + i] ELSE r.mem[i])
            \in Chars \cup {Junk}
    BY <1>1, <2>1
  <2> QED BY <1>2, <2>2
<1>5. \A i \in 0 .. r.count - 1 : low.mem[i] = r.mem[r.ptr + i]
  BY <1>1, <1>2
<1> DEFINE room == Size - q.count
           old == IF n <= room THEN n ELSE room
<1>6. /\ old \in Nat /\ room \in Nat /\ Size = q.count + room
      /\ old <= room /\ old <= n /\ (old < room => old = n)
      /\ r.count = q.count + old
      /\ q.count \in Nat /\ r.count \in Nat /\ n \in Nat
  <2>1. r.count = q.count + old
    BY DEF Received
  <2>2. /\ q.count \in Nat /\ r.count \in Nat /\ Size \in Nat /\ n \in Nat
        /\ q.count <= Size
    BY <1>1
  <2> QED BY <2>1, <2>2
<1>6q. /\ \A i \in 0 .. q.count - 1 : r.mem[r.ptr + i] = q.mem[q.ptr + i]
       /\ \A i \in 1 .. old : r.mem[r.ptr + q.count + i - 1] = ks[i]
  BY <1>1 DEF Received
<1> HIDE DEF room, old
<1>6a. \A i \in 0 .. q.count - 1 : low.mem[i] = q.mem[q.ptr + i]
  <2>1. \A i \in 0 .. q.count - 1 : i \in 0 .. r.count - 1
    BY <1>6, SMTT(20)
  <2> QED BY <1>5, <1>6q, <2>1
<1>7. \A i \in 1 .. old : low.mem[q.count + i - 1] = ks[i]
  <2> SUFFICES ASSUME NEW i \in 1 .. old
               PROVE  low.mem[q.count + i - 1] = ks[i]
    OBVIOUS
  <2>1. r.mem[r.ptr + q.count + i - 1] = ks[i]
    BY <1>6q
  <2>2. q.count + i - 1 \in 0 .. r.count - 1
    BY <1>6, SMTT(20)
  <2>3. low.mem[q.count + i - 1] = r.mem[r.ptr + (q.count + i - 1)]
    BY <1>5, <2>2
  <2>4. r.ptr + (q.count + i - 1) = r.ptr + q.count + i - 1
    BY <1>1
  <2> QED BY <2>1, <2>3, <2>4
<1>8. CASE r.count < Size
  <2> DEFINE s == [mem |-> [low.mem EXCEPT ![r.count] = ch],
                   ptr |-> 0, count |-> r.count + 1]
  <2>1. Store(r, ch) = s
    <3>1. low.count = r.count
      BY <1>2
    <3>2. Compacted(r) = low
      BY <1>2
    <3> HIDE DEF Compacted
    <3> QED BY <1>8, <3>1, <3>2 DEF Store
  <2>2. n < room /\ r.count = q.count + n /\ old = n
    BY <1>1, <1>6, <1>8
  <2>3. s \in Block
    BY <1>1, <1>3, <1>4, <1>8 DEF Block
  <2>4. \A i \in 0 .. q.count - 1 : s.mem[i] = q.mem[q.ptr + i]
    BY <1>1, <1>4, <1>6a, <2>2, SMTT(20)
  <2>5. \A i \in 1 .. n + 1 : s.mem[q.count + i - 1] = ks[i]
    <3> SUFFICES ASSUME NEW i \in 1 .. n + 1
                 PROVE  s.mem[q.count + i - 1] = ks[i]
      OBVIOUS
    <3>1. CASE i = n + 1
      <4>1. q.count + i - 1 = r.count /\ r.count \in 0 .. Size
        BY <1>1, <2>2, <3>1
      <4> QED BY <1>4, <3>1, <4>1
    <3>2. CASE i # n + 1
      <4>1. old = n /\ i \in 1 .. old
        BY <1>1, <2>2, <3>2
      <4>2. q.count + i - 1 \in 0 .. Size /\ q.count + i - 1 # r.count
        BY <1>6, <2>2, <4>1
      <4>3. low.mem[q.count + i - 1] = ks[i]
        BY <1>7, <4>1
      <4> QED BY <1>4, <4>2, <4>3
    <3> QED BY <3>1, <3>2
  <2> HIDE DEF s
  <2>6. s.ptr = 0 /\ s.count = r.count + 1
    BY DEF s
  <2>7. /\ s.count = q.count + (IF n + 1 <= room THEN n + 1 ELSE room)
        /\ (IF n + 1 <= room THEN n + 1 ELSE room) = n + 1
        /\ n + 1 # 0
    <3>0. n \in Nat /\ room \in Nat /\ q.count \in Nat
      BY <1>6
    <3>1. n + 1 <= room /\ n + 1 # 0 /\ r.count + 1 = q.count + (n + 1)
      BY <2>2, <3>0
    <3> QED BY <2>6, <3>1
  <2>8. /\ \A i \in 0 .. q.count - 1 : s.mem[s.ptr + i] = q.mem[q.ptr + i]
        /\ \A i \in 1 .. n + 1 : s.mem[s.ptr + q.count + i - 1] = ks[i]
    <3>1. \A i \in 0 .. q.count - 1 : s.ptr + i = i
      BY <1>6, <2>6
    <3>2. \A i \in 1 .. n + 1 : s.ptr + q.count + i - 1 = q.count + i - 1
      BY <1>6, <2>6
    <3> QED BY <2>4, <2>5, <3>1, <3>2
  <2> QED BY <2>1, <2>3, <2>6, <2>7, <2>8 DEF Received, room
<1>9. CASE r.count = Size
  <2>1. Store(r, ch) = low
    BY <1>1, <1>2, <1>9 DEF Store
  <2>2. n >= room /\ old = room
    BY <1>1, <1>6, <1>9
  <2>3. low \in Block
    <3>1. [mem |-> low.mem, ptr |-> 0, count |-> r.count] \in Block
      BY <1>1, <1>4 DEF Block
    <3> QED BY <1>2, <3>1
  <2>4. low.ptr = 0 /\ low.count = q.count + room
    BY <1>1, <1>2, <1>6, <1>9
  <2>5. (IF n + 1 <= room THEN n + 1 ELSE room) = room /\ n + 1 # 0
    BY <1>1, <1>6, <2>2
  <2>6. /\ \A i \in 0 .. q.count - 1 : low.mem[low.ptr + i] = q.mem[q.ptr + i]
        /\ \A i \in 1 .. room : low.mem[low.ptr + q.count + i - 1] = ks[i]
    BY <1>6, <1>6a, <1>7, <2>2, <2>4
  <2> QED BY <2>1, <2>3, <2>4, <2>5, <2>6 DEF Received, room
<1> QED BY <1>1, <1>8, <1>9

Sane == {r \in Block : r.ptr + r.count <= Size}

LEMMA StoreSane ==
  ASSUME NEW r \in Sane, NEW ch \in Chars
  PROVE  Store(r, ch) \in Sane
<1> DEFINE ks == <<ch>>
<1>1. ks \in Seq(Chars) /\ Len(ks) = 1 /\ ks[1] = ch /\ 0 \in 0 .. Len(ks) - 1
  OBVIOUS
<1>2. /\ r \in Block /\ r.ptr + r.count <= Size
      /\ r.ptr \in Nat /\ r.count \in 0 .. Size /\ Size \in Nat
  BY KbdAssumption DEF Sane, Block
<1>3. Received(r, ks, 0, r)
  BY <1>2 DEF Received
<1>4. Received(r, ks, 0 + 1, Store(r, ks[0 + 1]))
  <2> HIDE DEF ks
  <2> QED BY <1>1, <1>2, <1>3, StoreOne
<1>5. Received(r, ks, 1, Store(r, ch))
  BY <1>4
<1> HIDE DEF ks
<1>6. /\ Store(r, ch) \in Block /\ Store(r, ch).ptr = 0
      /\ Store(r, ch).count \in 0 .. Size
  BY <1>5 DEF Received, Block
<1> QED BY <1>2, <1>6 DEF Sane

LEMMA StoreAll ==
  ASSUME NEW q \in Sane, NEW ks \in Seq(Chars)
  PROVE  Received(q, ks, Len(ks), FoldLeft(Store, q, ks))
<1> DEFINE n == Len(ks)
           D == SUBSET (1 .. n)
           Step == [i \in 1 .. n |-> [r \in Sane |-> Store(r, ks[i])]]
           Fold(g) == [s \in D |->
                         IF s = {} THEN q
                         ELSE Store(g[s \ {Max(s)}], ks[Max(s)])]
           iter == CHOOSE g : g = Fold(g)
<1>1. n \in Nat /\ DOMAIN ks = 1 .. n /\ \A i \in 1 .. n : ks[i] \in Chars
  OBVIOUS
<1>2. FoldLeft(Store, q, ks) = iter[1 .. n]
  BY <1>1 DEF FoldLeft, MapThenFoldSet
<1> HIDE DEF n
<1>3. Step \in [1 .. n -> [Sane -> Sane]]
  <2>1. \A i \in 1 .. n : \A r \in Sane : Store(r, ks[i]) \in Sane
    BY <1>1, StoreSane
  <2> QED BY <2>1
<1>4. PICK g \in [D -> Sane] : IsFold(n, q, Step, g)
  <2>1. n \in Nat /\ q \in Sane
    BY <1>1
  <2> HIDE DEF Step
  <2> QED BY <2>1, <1>3, FoldExists
<1>5. g = Fold(g)
  <2>1. ASSUME NEW s \in D, s # {}
        PROVE  g[s] = Store(g[s \ {Max(s)}], ks[Max(s)])
    <3>1. Max(s) \in 1 .. n
      BY <1>1, <2>1, MaxOfInterval
    <3>2. s \ {Max(s)} \in D
      OBVIOUS
    <3> QED BY <1>4, <2>1, <3>1, <3>2 DEF IsFold
  <2> QED BY <1>4, <2>1 DEF IsFold
<1>6. iter = Fold(iter)
  <2> HIDE DEF Fold
  <2> QED BY <1>5
<1> HIDE DEF iter
<1> DEFINE P(i) == i <= n => Received(q, ks, i, iter[1 .. i])
           T == {i \in Nat : P(i)}
<1>7. /\ q \in Block /\ q.ptr + q.count <= Size
      /\ q.ptr \in Nat /\ q.count \in 0 .. Size /\ Size \in Nat
  BY KbdAssumption DEF Sane, Block
<1>8. P(0)
  <2>1. 1 .. 0 = {} /\ {} \in D
    OBVIOUS
  <2>2. iter[1 .. 0] = q
    BY <1>6, <2>1
  <2>3. Received(q, ks, 0, q)
    BY <1>7 DEF Received
  <2> QED BY <2>2, <2>3
<1>9. ASSUME NEW i \in Nat, P(i) PROVE P(i + 1)
  <2> SUFFICES ASSUME i + 1 <= n PROVE Received(q, ks, i + 1, iter[1 .. i + 1])
    OBVIOUS
  <2>1. i \in 0 .. n - 1 /\ i <= n
    BY <1>1
  <2>2. /\ 1 .. i + 1 \in D /\ 1 .. i + 1 # {} /\ Max(1 .. i + 1) = i + 1
        /\ (1 .. i + 1) \ {i + 1} = 1 .. i
    BY <1>1, <2>1, MaxOfPrefix
  <2>3. iter[1 .. i + 1] = Store(iter[1 .. i], ks[i + 1])
    BY <1>6, <2>2
  <2>4. Received(q, ks, i, iter[1 .. i])
    BY <1>9, <2>1
  <2> QED BY <1>7, <2>1, <2>3, <2>4, StoreOne DEF n
<1>10. T = Nat
  <2>1. T \in SUBSET Nat
    OBVIOUS
  <2> HIDE DEF P
  <2>2. 0 \in T
    BY <1>8
  <2>3. \A i \in T : i + 1 \in T
    BY <1>9
  <2> HIDE DEF T
  <2> QED BY <2>1, <2>2, <2>3, NatSetInduction
<1>11. P(n)
  <2> HIDE DEF P
  <2> QED BY <1>1, <1>10
<1> QED BY <1>1, <1>2, <1>11 DEF n
-----------------------------------------------------------------------------
Places == {"run", "sitfor", "read", "redisplay", "loop", "wait", "check", "echo",
           "select", "sleep", "woken", "pending", "avail", "block", "fetch",
           "advance", "got"}

\* waiting_for_input is set exactly inside the wait, and what a signal
\* brings there zeroes the timeout or throws.
WaitInv ==
  /\ pc \in Places /\ waiting \in BOOLEAN /\ timedOut \in BOOLEAN
  /\ waiting <=> pc \in Waits
  /\ pc \in {"select", "sleep"} => ~quitFlag
  /\ pc = "sleep" /\ ~timedOut => Empty

\* While a character is taken the slot it is in is not free yet.
BufferInv ==
  /\ tty \in Seq(Chars) /\ unread \in Chars \cup {NoKey}
  /\ ~hit => /\ kbd \in Sane
             /\ pc \in {"fetch", "advance"} => kbd.ptr + kbd.count < Size

KbdInv == WaitInv /\ BufferInv

\* What arrives while the program waits zeroes the timeout; a C-g throws,
\* unless the echo delays it.
LEMMA ReceiveWaits ==
  ASSUME WaitInv, NEW n, NEW next \in Places, Receive(n, next),
         next = pc \/ next \notin Waits, next = pc \/ pc \notin Waits,
         UNCHANGED interruptInput
  PROVE  /\ pc' \in Places /\ waiting' \in BOOLEAN
         /\ waiting' <=> pc' \in Waits
         /\ pc' \in Waits => pc' = pc
         /\ pc' \in {"select", "sleep"} => ~quitFlag'
<1> USE DEF WaitInv, Waits
<1>1. CASE HasQuit(SubSeq(tty, 1, n))
  BY <1>1 DEF Receive, InterruptSignal, ThrowToReader, Places
<1>2. CASE ~HasQuit(SubSeq(tty, 1, n))
  BY <1>2 DEF Receive
<1> QED BY <1>1, <1>2

LEMMA WaitStep ==
  ASSUME WaitInv, [KbdNext]_kbdVars
  PROVE  WaitInv'
<1> USE DEF WaitInv, Waits, Places, Empty
<1>1. ASSUME NEW ch \in Key \cup {CtrlG}, Type(ch) PROVE WaitInv'
  BY <1>1 DEF Type
<1>2. CASE TypeQuit
  BY <1>2 DEF TypeQuit, InterruptSignal, ThrowToReader
<1>3. CASE Sigio
  <2>1. /\ pc' \in Places /\ waiting' \in BOOLEAN
        /\ waiting' <=> pc' \in Waits
        /\ pc' \in Waits => pc' = pc
        /\ pc' \in {"select", "sleep"} => ~quitFlag'
    BY <1>3, ReceiveWaits DEF Sigio, InputAvailable
  <2>2. timedOut' = waiting'
    BY <1>3 DEF Sigio, InputAvailable
  <2> QED BY <2>1, <2>2
<1>4. CASE GobbleInput
  BY <1>4, ReceiveWaits DEF GobbleInput, InputAvailable
<1>5. CASE ReadAvail
  BY <1>5, ReceiveWaits DEF ReadAvail
<1>6. CASE ReadOne
  BY <1>6, ReceiveWaits DEF ReadOne
<1>7. ASSUME NEW ch \in Key, SetUnread(ch) PROVE WaitInv'
  BY <1>7 DEF SetUnread
<1>8. CASE DiscardInput
  BY <1>8 DEF DiscardInput, Discarded
<1>9. CASE QuitCommand
  BY <1>9 DEF QuitCommand
<1>10. CASE DetectInput
  BY <1>10 DEF DetectInput
<1>11. CASE SitFor
  BY <1>11 DEF SitFor
<1>12. CASE EndSitFor
  BY <1>12 DEF EndSitFor
<1>13. CASE StartRead
  BY <1>13 DEF StartRead
<1>14. CASE QuitToUnread
  BY <1>14 DEF QuitToUnread
<1>15. CASE Reread
  BY <1>15 DEF Reread
<1>16. CASE ReadCommandChar
  BY <1>16 DEF ReadCommandChar
<1>17. CASE EndRedisplay
  BY <1>17 DEF EndRedisplay
<1>18. CASE ThrowQuit
  BY <1>18 DEF ThrowQuit, ThrowToReader
<1>19. CASE SetWaiting
  BY <1>19 DEF SetWaiting
<1>20. CASE Checked
  BY <1>20 DEF Checked
<1>21. CASE Select
  BY <1>21 DEF Select
<1>22. CASE WakeForInput
  BY <1>22 DEF WakeForInput, Wake
<1>23. CASE WakeForOther
  BY <1>23 DEF WakeForOther, Wake
<1>24. CASE ClearWaiting
  BY <1>24 DEF ClearWaiting
<1>25. CASE CheckPending
  BY <1>25 DEF CheckPending
<1>26. CASE CountDown
  BY <1>26 DEF CountDown
<1>27. CASE Fetch
  BY <1>27 DEF Fetch
<1>28. CASE Advance
  BY <1>28 DEF Advance
<1>29. CASE Return
  BY <1>29 DEF Return
<1>30. CASE UNCHANGED kbdVars
  BY <1>30 DEF kbdVars
<1> QED
  BY <1>1, <1>2, <1>3, <1>4, <1>5, <1>6, <1>7, <1>8, <1>9, <1>10, <1>11, <1>12, <1>13, <1>14, <1>15, <1>16, <1>17, <1>18, <1>19, <1>20, <1>21, <1>22, <1>23, <1>24, <1>25, <1>26, <1>27, <1>28, <1>29, <1>30
     DEF KbdNext, Handlers, Command, Reader

THEOREM WaitInvariant == KbdSpec => []WaitInv
<1>1. KbdInit => WaitInv
  BY DEF KbdInit, WaitInv, Waits, Places, Empty
<1>2. WaitInv /\ [KbdNext]_kbdVars => WaitInv'
  BY WaitStep
<1> QED BY <1>1, <1>2, PTL DEF KbdSpec

\* A C-g throws only to a frame that is there: waiting_for_input is set only
\* inside the wait.
THEOREM ThrowsOnlyIntoTheWaitHolds == KbdSpec => []ThrowsOnlyIntoTheWait
<1>1. WaitInv => ThrowsOnlyIntoTheWait
  BY DEF WaitInv, ThrowsOnlyIntoTheWait
<1> QED BY <1>1, WaitInvariant, PTL

\* The reader does not sleep on input: neither on what was buffered between
\* the look at kbd_count and the select, nor on a C-g, typed in the echo or not.
THEOREM SleepsOnlyWithoutInputHolds == KbdSpec => []SleepsOnlyWithoutInput
<1>1. WaitInv => SleepsOnlyWithoutInput
  BY DEF WaitInv, SleepsOnlyWithoutInput
<1> QED BY <1>1, WaitInvariant, PTL
-----------------------------------------------------------------------------
(***************************************************************************)
(* The buffer is a KeyFifo until a signal hits the taking of a character.  *)
(***************************************************************************)
LEMMA KeysBeforeQuit ==
  ASSUME NEW batch \in Seq(Chars)
  PROVE  /\ KeysOf(batch) \in Seq(Chars) /\ Len(KeysOf(batch)) <= Len(batch)
         /\ \A j \in 1 .. Len(KeysOf(batch)) :
              KeysOf(batch)[j] = batch[j] /\ batch[j] # CtrlG
         /\ Len(KeysOf(batch)) < Len(batch) =>
              HasQuit(batch) /\ batch[Len(KeysOf(batch)) + 1] = CtrlG
         /\ HasQuit(batch) => Len(KeysOf(batch)) < Len(batch)
<1> DEFINE n == Len(batch)
           I == {i \in 1 .. n : batch[i] = CtrlG}
<1>1. n \in Nat /\ I \in SUBSET (1 .. n)
  OBVIOUS
<1>2. UpToQuit(batch) = IF I # {} THEN Min(I) ELSE 0
  BY DEF UpToQuit, SelectInSeq
<1>3. CASE I = {}
  <2>1. UpToQuit(batch) = 0 /\ KeysOf(batch) = batch /\ ~HasQuit(batch)
    BY <1>2, <1>3 DEF KeysOf, HasQuit
  <2>2. \A j \in 1 .. n : batch[j] # CtrlG
    BY <1>3
  <2> QED BY <1>1, <2>1, <2>2
<1>4. CASE I # {}
  <2>1. Min(I) \in I /\ \A y \in I : Min(I) <= y
    <3> HIDE DEF I
    <3> QED BY <1>1, <1>4, MinOfInterval
  <2> DEFINE u == Min(I)
  <2>2. UpToQuit(batch) = u /\ u \in 1 .. n /\ batch[u] = CtrlG
    BY <1>2, <1>4, <2>1
  <2>3. \A j \in 1 .. n : j < u => batch[j] # CtrlG
    <3> SUFFICES ASSUME NEW j \in 1 .. n, j < u, batch[j] = CtrlG PROVE FALSE
      OBVIOUS
    <3>1. j \in I
      OBVIOUS
    <3> HIDE DEF I
    <3> QED BY <1>1, <2>1, <2>2, <3>1
  <2> HIDE DEF u, I
  <2>4. KeysOf(batch) = SubSeq(batch, 1, u - 1) /\ HasQuit(batch)
    BY <2>2 DEF KeysOf, HasQuit
  <2>5. /\ KeysOf(batch) \in Seq(Chars) /\ Len(KeysOf(batch)) = u - 1
        /\ \A j \in 1 .. u - 1 : KeysOf(batch)[j] = batch[j]
    BY <2>2, <2>4
  <2>6. \A j \in 1 .. u - 1 : batch[j] # CtrlG
    BY <1>1, <2>2, <2>3
  <2>7. u - 1 < n /\ u - 1 + 1 = u
    BY <1>1, <2>2
  <2> HIDE DEF n
  <2> QED BY <1>1, <2>2, <2>4, <2>5, <2>6, <2>7 DEF n
<1> QED BY <1>3, <1>4

\* What KeyFifo calls pending.
Pending ==
  CASE pc = "fetch" -> InBuffer(kbd.ptr, kbd.count + 1)
    [] pc = "advance" -> InBuffer(kbd.ptr + 1, kbd.count)
    [] OTHER -> InBuffer(kbd.ptr, kbd.count)

Taking == {"fetch", "advance"}

LEMMA PendingNow ==
  /\ pc = "fetch" => Pending = InBuffer(kbd.ptr, kbd.count + 1)
  /\ pc = "advance" => Pending = InBuffer(kbd.ptr + 1, kbd.count)
  /\ pc \notin Taking => Pending = InBuffer(kbd.ptr, kbd.count)
BY DEF Pending, Taking

LEMMA PendingNext ==
  /\ pc' = "fetch" => Pending' = InBuffer(kbd.ptr, kbd.count + 1)'
  /\ pc' = "advance" => Pending' = InBuffer(kbd.ptr + 1, kbd.count)'
  /\ pc' \notin Taking => Pending' = InBuffer(kbd.ptr, kbd.count)'
BY DEF Pending, Taking

LEMMA KeptPending ==
  ASSUME kbd' = kbd, pc' = pc \/ (pc \notin Taking /\ pc' \notin Taking)
  PROVE  Pending' = Pending
<1>1. CASE pc' = pc
  BY <1>1 DEF Pending, InBuffer
<1>2. CASE pc \notin Taking /\ pc' \notin Taking
  <2>1. InBuffer(kbd.ptr, kbd.count)' = InBuffer(kbd.ptr, kbd.count)
    BY DEF InBuffer
  <2> QED BY <1>2, <2>1, PendingNow, PendingNext
<1> QED BY <1>1, <1>2

LEMMA SaneParts ==
  ASSUME NEW q \in Sane
  PROVE  /\ q.mem \in [0 .. Size -> Chars \cup {Junk}]
         /\ q.ptr \in Nat /\ q.count \in Nat /\ Size \in Nat
         /\ q.ptr + q.count <= Size
BY KbdAssumption DEF Sane, Block

LEMMA PendingIsSeq ==
  ASSUME kbd \in Sane, pc \in Taking => kbd.ptr + kbd.count < Size
  PROVE  /\ Pending \in Seq(Chars \cup {Junk})
         /\ Len(Pending) = kbd.count + (IF pc = "fetch" THEN 1 ELSE 0)
         /\ Len(Pending) <= Size
<1>1. /\ kbd.mem \in [0 .. Size -> Chars \cup {Junk}]
      /\ kbd.ptr \in Nat /\ kbd.count \in Nat /\ Size \in Nat
      /\ kbd.ptr + kbd.count <= Size
  BY SaneParts
<1>2. ASSUME NEW from \in Nat, NEW n \in Nat, from + n <= Size + 1
      PROVE  /\ InBuffer(from, n) \in Seq(Chars \cup {Junk})
             /\ Len(InBuffer(from, n)) = n
  <2>1. \A i \in 1 .. n : from + i - 1 \in 0 .. Size
    BY <1>1, <1>2
  <2>2. \A i \in 1 .. n : kbd.mem[from + i - 1] \in Chars \cup {Junk}
    BY <1>1, <2>1
  <2> QED BY <2>2 DEF InBuffer
<1>3. CASE pc = "fetch"
  <2>1. /\ kbd.count + 1 \in Nat /\ kbd.ptr + (kbd.count + 1) <= Size + 1
        /\ kbd.count + 1 <= Size
    BY <1>1, <1>3 DEF Taking
  <2>2. Pending = InBuffer(kbd.ptr, kbd.count + 1)
    BY <1>3, PendingNow
  <2> QED BY <1>1, <1>2, <1>3, <2>1, <2>2, Zenon
<1>4. CASE pc = "advance"
  <2>1. /\ kbd.ptr + 1 \in Nat /\ kbd.ptr + 1 + kbd.count <= Size + 1
        /\ kbd.count <= Size /\ kbd.count = kbd.count + 0
    BY <1>1, <1>4 DEF Taking
  <2>2. Pending = InBuffer(kbd.ptr + 1, kbd.count) /\ pc # "fetch"
    BY <1>4, PendingNow
  <2> QED BY <1>1, <1>2, <2>1, <2>2, Zenon
<1>5. CASE pc \notin Taking
  <2>1. kbd.ptr + kbd.count <= Size + 1 /\ kbd.count <= Size
    BY <1>1
  <2>2. Pending = InBuffer(kbd.ptr, kbd.count) /\ pc # "fetch"
    BY <1>5, PendingNow DEF Taking
  <2>3. Pending \in Seq(Chars \cup {Junk}) /\ Len(Pending) = kbd.count
    BY <1>1, <1>2, <2>1, <2>2
  <2> QED BY <1>1, <2>1, <2>2, <2>3
<1> QED BY <1>3, <1>4, <1>5 DEF Taking

\* What the handler, or the reader itself, takes from the terminal arrives.
LEMMA ReceiveArrives ==
  ASSUME KbdInv, ~hit, NEW n \in 0 .. Len(tty), NEW next, Receive(n, next),
         pc' \notin Taking \/ pc' = pc,
         pc \in Taking \/ pc' \in Taking =>
           pc' = pc /\ KeysOf(SubSeq(tty, 1, n)) = <<>>
  PROVE  /\ kbd' \in Sane /\ (pc' \in Taking => kbd' = kbd)
         /\ Fifo!Arrive \/ UNCHANGED Fifo!fifoVars
<1> DEFINE batch == SubSeq(tty, 1, n)
           ks == KeysOf(batch)
           k == Len(ks)
           room == Size - kbd.count
           taken == IF k <= room THEN k ELSE room
<1>1. /\ kbd \in Sane /\ tty \in Seq(Chars)
      /\ pc \in Taking => kbd.ptr + kbd.count < Size
  BY DEF KbdInv, BufferInv, Taking
<1>2. /\ batch \in Seq(Chars) /\ Len(batch) = n /\ n \in Nat
      /\ \A j \in 1 .. n : batch[j] = tty[j]
  BY <1>1
<1>3. /\ tty' = SubSeq(tty, n + 1, Len(tty)) /\ kbd' = FoldLeft(Store, kbd, ks)
      /\ c' = c \/ (HasQuit(batch) /\ c' = CtrlG)
  BY DEF Receive, StoreBatch, InterruptSignal, ThrowToReader
<1> HIDE DEF batch
<1>4. /\ ks \in Seq(Chars) /\ k <= n /\ (HasQuit(batch) => k < n)
      /\ \A j \in 1 .. k : ks[j] = batch[j] /\ batch[j] # CtrlG
      /\ k < n => batch[k + 1] = CtrlG
  BY <1>2, KeysBeforeQuit
<1> HIDE DEF ks
<1>5. k \in Nat
  BY <1>4
<1>6. Received(kbd, ks, k, kbd')
  BY <1>1, <1>3, <1>4, StoreAll
<1>7. /\ kbd.mem \in [0 .. Size -> Chars \cup {Junk}]
      /\ kbd.ptr \in Nat /\ kbd.count \in Nat /\ Size \in Nat
      /\ kbd.ptr + kbd.count <= Size
  BY <1>1, SaneParts
<1> HIDE DEF k
<1>8. kbd' \in Sane /\ (k = 0 => kbd' = kbd)
  <2>1. kbd' \in Block /\ (k = 0 => kbd' = kbd) /\ (k # 0 => kbd'.ptr = 0)
    BY <1>6 DEF Received
  <2>2. kbd'.ptr + kbd'.count <= Size
    <3>1. kbd'.count <= Size /\ kbd'.count \in Nat
      BY <1>7, <2>1 DEF Block
    <3> QED BY <1>7, <2>1, <3>1
  <2> QED BY <2>1, <2>2 DEF Sane
<1>9. pc \in Taking \/ pc' \in Taking => k = 0 /\ pc' = pc
  BY DEF k, ks, batch
<1>10. CASE n = 0
  <2>1. k = 0 /\ kbd' = kbd /\ c' = c /\ tty' = tty
    <3>1. k = 0
      BY <1>4, <1>5, <1>10 DEF k
    <3>2. SubSeq(tty, 0 + 1, Len(tty)) = tty
      BY <1>1
    <3> QED BY <1>3, <1>4, <1>8, <1>10, <3>1, <3>2 DEF k
  <2>2. Pending' = Pending
    BY <1>9, <2>1, KeptPending
  <2> QED BY <1>8, <2>1, <2>2 DEF Fifo!fifoVars, Pending
<1>11. CASE n # 0
  <2>1. Pending' = Pending \o SubSeq(tty, 1, taken)
    <3>1. CASE k = 0
      <4>1. taken = 0
        BY <1>7, <3>1
      <4>2. SubSeq(tty, 1, taken) = <<>>
        BY <1>1, <4>1
      <4>3. Pending' = Pending
        BY <1>8, <1>9, <3>1, KeptPending
      <4>4. Pending \o <<>> = Pending
        BY <1>1, PendingIsSeq
      <4> QED BY <4>2, <4>3, <4>4
    <3>2. CASE k # 0
      <4>1. pc \notin Taking /\ pc' \notin Taking
        BY <1>9, <3>2
      <4>2. /\ Pending = InBuffer(kbd.ptr, kbd.count)
            /\ Pending' = InBuffer(kbd.ptr, kbd.count)'
        BY <4>1, PendingNow, PendingNext
      <4>3. /\ kbd'.ptr = 0 /\ kbd'.count = kbd.count + taken
            /\ \A i \in 0 .. kbd.count - 1 :
                 kbd'.mem[kbd'.ptr + i] = kbd.mem[kbd.ptr + i]
            /\ \A i \in 1 .. taken : kbd'.mem[kbd'.ptr + kbd.count + i - 1] = ks[i]
        BY <1>6, <3>2 DEF Received
      <4>4. taken \in Nat /\ taken <= k /\ taken <= n
        BY <1>2, <1>4, <1>5, <1>7 DEF k
      <4>5. \A i \in 1 .. taken : ks[i] = tty[i]
        BY <1>2, <1>4, <1>5, <4>4 DEF k
      <4>6. /\ SubSeq(tty, 1, taken) \in Seq(Chars) /\ Len(SubSeq(tty, 1, taken)) = taken
            /\ \A i \in 1 .. taken : SubSeq(tty, 1, taken)[i] = tty[i]
        BY <1>1, <4>4
      <4> DEFINE whole == Pending \o SubSeq(tty, 1, taken)
      <4>7. /\ Pending \in Seq(Chars \cup {Junk}) /\ Len(Pending) = kbd.count
            /\ \A i \in 1 .. kbd.count : Pending[i] = kbd.mem[kbd.ptr + i - 1]
        BY <1>1, <1>7, <4>1, <4>2, PendingIsSeq DEF InBuffer, Taking
      <4>8. \A i \in 1 .. kbd.count + taken :
              kbd'.mem[kbd'.ptr + i - 1]
                = IF i <= kbd.count THEN Pending[i] ELSE tty[i - kbd.count]
        <5> SUFFICES ASSUME NEW i \in 1 .. kbd.count + taken
                     PROVE  kbd'.mem[kbd'.ptr + i - 1]
                              = IF i <= kbd.count THEN Pending[i]
                                ELSE tty[i - kbd.count]
          OBVIOUS
        <5>1. CASE i <= kbd.count
          <6>1. i - 1 \in 0 .. kbd.count - 1 /\ i \in 1 .. kbd.count
            BY <1>7, <4>4, <5>1
          <6>2. kbd'.mem[kbd'.ptr + (i - 1)] = kbd.mem[kbd.ptr + (i - 1)]
            BY <4>3, <6>1
          <6>3. /\ kbd'.ptr + (i - 1) = kbd'.ptr + i - 1
                /\ kbd.ptr + (i - 1) = kbd.ptr + i - 1
            BY <1>7, <4>3
          <6> QED BY <4>7, <5>1, <6>1, <6>2, <6>3
        <5>2. CASE ~(i <= kbd.count)
          <6> HIDE DEF taken
          <6>0. i \in Nat /\ kbd'.ptr = 0 /\ kbd.count \in Nat /\ taken \in Nat
            BY <1>7, <4>3, <4>4
          <6>1a. i - kbd.count \in 1 .. taken
            BY <5>2, <6>0
          <6>1b. kbd'.ptr + kbd.count + (i - kbd.count) - 1 = kbd'.ptr + i - 1
            BY <6>0
          <6>1. /\ i - kbd.count \in 1 .. taken
                /\ kbd'.ptr + kbd.count + (i - kbd.count) - 1 = kbd'.ptr + i - 1
            BY <6>1a, <6>1b
          <6>2. kbd'.mem[kbd'.ptr + kbd.count + (i - kbd.count) - 1]
                  = ks[i - kbd.count]
            BY <4>3, <6>1
          <6> QED BY <4>5, <5>2, <6>1, <6>2
        <5> QED BY <5>1, <5>2
      <4> HIDE DEF taken
      <4>9. \A i \in 1 .. kbd.count + taken :
              whole[i] = IF i <= kbd.count THEN Pending[i] ELSE tty[i - kbd.count]
        <5> SUFFICES ASSUME NEW i \in 1 .. kbd.count + taken
                     PROVE  whole[i] = IF i <= kbd.count THEN Pending[i]
                                       ELSE tty[i - kbd.count]
          OBVIOUS
        <5>1. kbd.count \in Nat /\ taken \in Nat
          BY <1>7, <4>4
        <5>2. whole[i] = IF i <= kbd.count THEN Pending[i]
                         ELSE SubSeq(tty, 1, taken)[i - kbd.count]
          <6>1. SubSeq(tty, 1, taken) \in Seq(Chars \cup {Junk})
            BY <4>6
          <6>2. i \in 1 .. Len(Pending) + Len(SubSeq(tty, 1, taken))
            BY <4>6, <4>7
          <6>3. whole[i] = IF i <= Len(Pending) THEN Pending[i]
                           ELSE SubSeq(tty, 1, taken)[i - Len(Pending)]
            BY <4>7, <6>1, <6>2, ConcatAt
          <6> QED BY <4>6, <4>7, <6>3
        <5>3. ~(i <= kbd.count) => i - kbd.count \in 1 .. taken
          BY <5>1
        <5> HIDE DEF whole
        <5> QED BY <4>6, <5>2, <5>3
      <4>10. whole = [i \in 1 .. kbd.count + taken |-> whole[i]]
        <5>1. SubSeq(tty, 1, taken) \in Seq(Chars \cup {Junk})
          BY <1>1, <4>4
        <5>2. whole \in Seq(Chars \cup {Junk}) /\ Len(whole) = kbd.count + taken
          BY <4>6, <4>7, <5>1
        <5> HIDE DEF whole
        <5> QED BY <5>2
      <4>11. Pending' = [i \in 1 .. kbd.count + taken |-> kbd'.mem[kbd'.ptr + i - 1]]
        BY <4>2, <4>3 DEF InBuffer
      <4> HIDE DEF whole
      <4>12. \A i \in 1 .. kbd.count + taken : whole[i] = kbd'.mem[kbd'.ptr + i - 1]
        BY <4>8, <4>9
      <4>13. whole = [i \in 1 .. kbd.count + taken |-> kbd'.mem[kbd'.ptr + i - 1]]
        BY <4>10, <4>12
      <4> QED BY <4>11, <4>13 DEF whole
    <3> QED BY <3>1, <3>2
  <2>2. taken = IF k <= Size - Len(Pending) THEN k ELSE Size - Len(Pending)
    <3>1. CASE k = 0
      <4>1. 0 <= Size - Len(Pending) /\ 0 <= room
        BY <1>1, <1>7, PendingIsSeq
      <4> QED BY <3>1, <4>1
    <3>2. CASE k # 0
      <4>1. pc # "fetch"
        BY <1>9, <3>2 DEF Taking
      <4>2. Len(Pending) = kbd.count
        BY <1>1, <1>7, <4>1, PendingIsSeq
      <4> QED BY <4>2
    <3> QED BY <3>1, <3>2
  <2> HIDE DEF taken, room
  <2>3. n \in 1 .. Len(tty) /\ k + 1 \in 1 .. Len(tty) + 1 /\ k + 1 <= n + 1
    BY <1>1, <1>2, <1>4, <1>5, <1>11 DEF k
  <2>4. /\ k + 1 <= n => tty[k + 1] = CtrlG
        /\ \A j \in 1 .. k + 1 - 1 : tty[j] # CtrlG
        /\ k + 1 - 1 = k
    <3>1. \A j \in 1 .. k : j \in 1 .. n
      BY <1>2, <1>4, <1>5 DEF k
    <3>2. k + 1 <= n => k < n /\ k + 1 \in 1 .. n
      BY <1>2, <1>5
    <3>3. k + 1 - 1 = k
      BY <1>5
    <3> QED BY <1>2, <1>4, <3>1, <3>2, <3>3 DEF k
  <2>5. c' = c \/ c' = CtrlG
    BY <1>3
  <2>6. Pending' = Pending \o SubSeq(tty, 1, IF k <= Size - Len(Pending)
                                             THEN k ELSE Size - Len(Pending))
    BY <2>1, <2>2
  <2>7. \E m \in 1 .. Len(tty), i \in 1 .. Len(tty) + 1 :
          /\ i <= m + 1
          /\ i <= m => tty[i] = CtrlG
          /\ \A j \in 1 .. i - 1 : tty[j] # CtrlG
          /\ Pending' = Pending \o SubSeq(tty, 1, IF i - 1 <= Size - Len(Pending)
                                                  THEN i - 1
                                                  ELSE Size - Len(Pending))
          /\ tty' = SubSeq(tty, m + 1, Len(tty))
    <3>1. PICK i \in 1 .. Len(tty) + 1 : i = k + 1
      BY <2>3
    <3>2. i - 1 = k
      BY <1>5, <3>1
    <3>3. i <= n + 1
      BY <2>3, <3>1
    <3>3a. i <= n => tty[i] = CtrlG
      BY <2>4, <3>1
    <3>3b. \A j \in 1 .. i - 1 : tty[j] # CtrlG
      BY <2>4, <3>2
    <3>4. Pending' = Pending \o SubSeq(tty, 1, IF i - 1 <= Size - Len(Pending)
                                               THEN i - 1
                                               ELSE Size - Len(Pending))
      BY <2>6, <3>2
    <3>5. n \in 1 .. Len(tty) /\ tty' = SubSeq(tty, n + 1, Len(tty))
      BY <1>3, <2>3
    <3> QED BY <3>3, <3>3a, <3>3b, <3>4, <3>5
  <2>8. Fifo!Arrive
    BY <2>5, <2>7 DEF Fifo!Arrive, Pending
  <2>9. pc' \in Taking => kbd' = kbd
    BY <1>8, <1>9
  <2> QED BY <1>8, <2>8, <2>9
<1> QED BY <1>10, <1>11

LEMMA FifoStutters ==
  ASSUME UNCHANGED <<tty, kbd, c>>,
         pc' = pc \/ (pc \notin Taking /\ pc' \notin Taking)
  PROVE  UNCHANGED Fifo!fifoVars
BY KeptPending DEF Fifo!fifoVars, Pending

LEMMA FifoOutOfTurn ==
  ASSUME UNCHANGED <<tty, kbd>>, c' \in Chars \cup {NoKey},
         pc' = pc \/ (pc \notin Taking /\ pc' \notin Taking)
  PROVE  Fifo!OutOfTurn
BY KeptPending DEF Fifo!OutOfTurn, Pending, Chars

\* A step of the program as seen by KeyFifo.
FifoStep == BufferInv' /\ (hit' \/ Fifo!Next \/ UNCHANGED Fifo!fifoVars)

LEMMA HandlerStep ==
  ASSUME KbdInv, Handlers
  PROVE  FifoStep
<1> USE DEF FifoStep
<1>1. ASSUME NEW ch \in Key \cup {CtrlG}, Type(ch) PROVE FifoStep
  <2>1. tty' = Append(tty, ch) /\ UNCHANGED <<unread, hit, kbd, pc, c>>
    BY <1>1 DEF Type
  <2>2. tty' \in Seq(Chars) /\ UNCHANGED Pending
    BY <2>1, KeptPending DEF KbdInv, BufferInv, Chars
  <2>3. Fifo!Type
    BY <2>1, <2>2 DEF Fifo!Type, Pending
  <2> QED BY <2>1, <2>2, <2>3 DEF KbdInv, BufferInv, Fifo!Next
<1>2. CASE TypeQuit
  <2>1. /\ UNCHANGED <<tty, kbd, hit>> /\ c' \in {c, CtrlG}
        /\ unread' \in {unread, NoKey}
        /\ pc' = pc \/ (pc \notin Taking /\ pc' \notin Taking)
        /\ c' = c \/ c' = CtrlG
    BY <1>2 DEF TypeQuit, InterruptSignal, ThrowToReader, KbdInv, WaitInv, Waits,
                Taking
  <2>2. UNCHANGED Fifo!fifoVars \/ Fifo!OutOfTurn
    BY <2>1, FifoStutters, FifoOutOfTurn DEF Chars
  <2> QED BY <2>1, <2>2 DEF KbdInv, BufferInv, Fifo!Next, Taking
<1>3. CASE Sigio
  <2> DEFINE n == Len(tty)
  <2>1. /\ n \in 0 .. Len(tty) /\ SubSeq(tty, 1, n) = tty
        /\ SubSeq(tty, n + 1, Len(tty)) = <<>>
    BY DEF KbdInv, BufferInv
  <2>2. /\ Receive(n, pc)
        /\ hit' = (hit \/ (pc \in Taking /\ KeysOf(tty) # <<>>))
    BY <1>3 DEF Sigio, InputAvailable, Taking
  <2>3. /\ pc' = pc \/ (pc \notin Taking /\ pc' \notin Taking)
        /\ unread' \in {unread, NoKey} /\ tty' = <<>>
    BY <2>1, <2>2 DEF Receive, InterruptSignal, ThrowToReader, KbdInv, WaitInv,
                      Waits, Taking
  <2>4. CASE hit'
    BY <2>3, <2>4 DEF KbdInv, BufferInv
  <2>5. CASE ~hit'
    <3>1. ~hit /\ (pc \in Taking => KeysOf(SubSeq(tty, 1, n)) = <<>>)
      BY <2>1, <2>2, <2>5
    <3>2. /\ kbd' \in Sane /\ (pc' \in Taking => kbd' = kbd)
          /\ Fifo!Arrive \/ UNCHANGED Fifo!fifoVars
      <4> HIDE DEF n
      <4> QED BY <2>1, <2>2, <2>3, <3>1, ReceiveArrives
    <3> QED BY <2>3, <3>1, <3>2 DEF KbdInv, BufferInv, Fifo!Next, Taking
  <2> QED BY <2>4, <2>5
<1> QED BY <1>1, <1>2, <1>3 DEF Handlers

LEMMA CommandStep ==
  ASSUME KbdInv, Command
  PROVE  FifoStep
<1> USE DEF FifoStep
<1>1. CASE DiscardInput
  <2>1. /\ tty' = <<>> /\ kbd' = [kbd EXCEPT !.count = 0] /\ unread' = NoKey
        /\ UNCHANGED <<pc, c, hit>> /\ pc = "run"
    BY <1>1 DEF DiscardInput, Discarded
  <2>2. CASE hit
    BY <2>1, <2>2 DEF KbdInv, BufferInv
  <2>3. CASE ~hit
    <3>1. kbd \in Sane
      BY <2>3 DEF KbdInv, BufferInv
    <3>2. kbd' \in Sane /\ kbd'.count = 0
      <4>1. kbd \in Block /\ kbd.ptr + kbd.count <= Size /\ kbd.ptr \in Nat
            /\ kbd.count \in Nat /\ Size \in Nat
        BY <3>1, KbdAssumption DEF Sane, Block
      <4>2. kbd' \in Block /\ kbd'.ptr = kbd.ptr /\ kbd'.count = 0
        BY <2>1, <4>1 DEF Block
      <4>3. kbd'.ptr + kbd'.count <= Size
        BY <4>1, <4>2
      <4> QED BY <4>2, <4>3 DEF Sane
    <3>3. Pending' = InBuffer(kbd.ptr, kbd.count)'
      BY <2>1, PendingNext DEF Taking
    <3>4. Pending' = <<>>
      BY <3>2, <3>3 DEF InBuffer
    <3>5. Fifo!Discard
      BY <2>1, <3>4 DEF Fifo!Discard, Pending
    <3> QED BY <2>1, <3>2, <3>5 DEF KbdInv, BufferInv, Fifo!Next, Taking
  <2> QED BY <2>2, <2>3
<1>2. ASSUME UNCHANGED <<tty, kbd, c, hit>>, unread' \in Chars \cup {NoKey},
             pc \notin Taking /\ pc' \notin Taking
      PROVE  FifoStep
  BY <1>2, FifoStutters DEF KbdInv, BufferInv, Taking
<1>3. CASE QuitCommand
  BY <1>2, <1>3 DEF QuitCommand, Taking, KbdInv, BufferInv
<1>4. CASE DetectInput
  BY <1>2, <1>4 DEF DetectInput, Taking, KbdInv, BufferInv
<1>5. CASE SitFor
  BY <1>2, <1>5 DEF SitFor, Taking, KbdInv, BufferInv
<1>6. CASE EndSitFor
  BY <1>2, <1>6 DEF EndSitFor, Taking, KbdInv, BufferInv
<1>7. CASE StartRead
  BY <1>2, <1>7 DEF StartRead, Taking, KbdInv, BufferInv
<1>8. CASE QuitToUnread
  BY <1>2, <1>8 DEF QuitToUnread, Taking, KbdInv, BufferInv, Chars
<1>9. ASSUME NEW ch \in Key, SetUnread(ch) PROVE FifoStep
  BY <1>2, <1>9 DEF SetUnread, Taking, KbdInv, BufferInv, Chars
<1> QED BY <1>1, <1>3, <1>4, <1>5, <1>6, <1>7, <1>8, <1>9 DEF Command

LEMMA ReaderReceives ==
  ASSUME KbdInv, NEW n \in 0 .. Len(tty), NEW next \in Places \ Taking,
         Receive(n, next), pc \notin Taking, hit' = hit
  PROVE  FifoStep
<1>1. /\ pc' \notin Taking /\ unread' \in {unread, NoKey}
      /\ tty' = SubSeq(tty, n + 1, Len(tty))
  BY DEF Receive, InterruptSignal, ThrowToReader, Taking
<1>2. tty' \in Seq(Chars)
  BY <1>1 DEF KbdInv, BufferInv
<1>3. CASE ~hit
  <2>1. /\ kbd' \in Sane /\ (pc' \in Taking => kbd' = kbd)
        /\ Fifo!Arrive \/ UNCHANGED Fifo!fifoVars
    BY <1>1, <1>3, ReceiveArrives
  <2> QED BY <1>1, <1>2, <2>1
          DEF KbdInv, BufferInv, Fifo!Next, Taking, FifoStep
<1> QED BY <1>1, <1>2, <1>3 DEF KbdInv, BufferInv, FifoStep

\* The three steps of taking a character: only the second can be seen.
LEMMA TakingStep ==
  ASSUME KbdInv, CountDown \/ Fetch \/ Advance
  PROVE  FifoStep
<1> USE DEF FifoStep
<1>1. tty' = tty /\ unread' = unread /\ hit' = hit
  BY DEF CountDown, Fetch, Advance
<1>2. CASE hit
  BY <1>1, <1>2 DEF KbdInv, BufferInv
<1>3. CASE ~hit
  <2>1. /\ kbd \in Sane /\ kbd.mem \in [0 .. Size -> Chars \cup {Junk}]
        /\ kbd.ptr \in Nat /\ kbd.count \in 0 .. Size /\ Size \in Nat
        /\ kbd.ptr + kbd.count <= Size
        /\ pc \in Taking => kbd.ptr + kbd.count < Size
    BY <1>3, KbdAssumption DEF KbdInv, BufferInv, Sane, Block, Taking
  <2>2. CASE CountDown
    <3>1. /\ kbd' = [mem |-> kbd.mem, ptr |-> kbd.ptr, count |-> kbd.count - 1]
          /\ kbd.count # 0 /\ c' = c /\ pc = "loop" /\ pc' = "fetch"
      BY <2>1, <2>2 DEF CountDown, Empty, Sane, Block
    <3>2. /\ kbd.count - 1 \in 0 .. Size /\ kbd.ptr + (kbd.count - 1) < Size
          /\ kbd.count - 1 + 1 = kbd.count
      BY <2>1, <3>1
    <3>3. kbd' \in Sane /\ kbd'.ptr + kbd'.count < Size
      BY <2>1, <3>1, <3>2 DEF Sane, Block
    <3>4. InBuffer(kbd.ptr, kbd.count + 1)' = InBuffer(kbd.ptr, kbd.count)
      BY <3>1, <3>2 DEF InBuffer
    <3>5. Pending' = Pending
      BY <3>1, <3>4, PendingNow, PendingNext DEF Taking
    <3>6. UNCHANGED Fifo!fifoVars
      BY <1>1, <3>1, <3>5 DEF Fifo!fifoVars, Pending
    <3> QED BY <1>1, <3>3, <3>6 DEF KbdInv, BufferInv
  <2>3. CASE Fetch
    <3>1. /\ pc = "fetch" /\ pc' = "advance" /\ kbd' = kbd
          /\ c' = kbd.mem[kbd.ptr]
      BY <2>3 DEF Fetch
    <3>2. /\ Pending = InBuffer(kbd.ptr, kbd.count + 1)
          /\ Pending' = InBuffer(kbd.ptr + 1, kbd.count)
      BY <3>1, PendingNow, PendingNext DEF InBuffer
    <3>3. Pending \in Seq(Chars \cup {Junk}) /\ Len(Pending) = kbd.count + 1
      BY <2>1, <3>1, PendingIsSeq
    <3>4. Head(Pending) = c' /\ Pending # <<>>
      <4>1. Pending[1] = kbd.mem[kbd.ptr + 1 - 1] /\ kbd.ptr + 1 - 1 = kbd.ptr
        BY <2>1, <3>2 DEF InBuffer
      <4> QED BY <2>1, <3>1, <3>3, <4>1
    <3>5. Tail(Pending) = Pending'
      <4>1. Tail(Pending) = [i \in 1 .. kbd.count |-> Pending[i + 1]]
        <5>1. Pending # <<>> /\ Len(Pending) - 1 = kbd.count
          BY <2>1, <3>3
        <5>2. /\ Tail(Pending) \in Seq(Chars \cup {Junk})
              /\ Len(Tail(Pending)) = kbd.count
          BY <3>3, <5>1
        <5>3. \A i \in 1 .. kbd.count : Tail(Pending)[i] = Pending[i + 1]
          BY <3>3, <5>1
        <5>4. Tail(Pending) = [i \in 1 .. kbd.count |-> Tail(Pending)[i]]
          <6> DEFINE rest == Tail(Pending)
          <6>1. rest \in Seq(Chars \cup {Junk}) /\ Len(rest) = kbd.count
            BY <5>2
          <6> HIDE DEF rest
          <6>2. rest = [i \in 1 .. kbd.count |-> rest[i]]
            BY <6>1
          <6> QED BY <6>2 DEF rest
        <5> QED BY <5>3, <5>4
      <4>2. \A i \in 1 .. kbd.count :
              Pending[i + 1] = kbd.mem[kbd.ptr + 1 + i - 1]
        <5> SUFFICES ASSUME NEW i \in 1 .. kbd.count
                     PROVE  Pending[i + 1] = kbd.mem[kbd.ptr + 1 + i - 1]
          OBVIOUS
        <5>1. /\ i + 1 \in 1 .. kbd.count + 1
              /\ kbd.ptr + (i + 1) - 1 = kbd.ptr + 1 + i - 1
          BY <2>1
        <5> QED BY <3>2, <5>1 DEF InBuffer
      <4> QED BY <3>2, <4>1, <4>2 DEF InBuffer
    <3>6. Fifo!Take
      BY <1>1, <3>4, <3>5 DEF Fifo!Take, Pending
    <3> QED BY <1>1, <2>1, <3>1, <3>6 DEF KbdInv, BufferInv, Fifo!Next, Taking
  <2>4. CASE Advance
    <3>1. /\ kbd' = [mem |-> kbd.mem, ptr |-> kbd.ptr + 1, count |-> kbd.count]
          /\ c' = c /\ pc = "advance" /\ pc' = "got"
      BY <2>1, <2>4 DEF Advance, Sane, Block
    <3>2. kbd.ptr + 1 + kbd.count <= Size
      BY <2>1, <3>1 DEF Taking
    <3>3. kbd' \in Sane
      BY <2>1, <3>1, <3>2 DEF Sane, Block
    <3>4. InBuffer(kbd.ptr, kbd.count)' = InBuffer(kbd.ptr + 1, kbd.count)
      BY <3>1 DEF InBuffer
    <3>5. Pending' = Pending
      BY <3>1, <3>4, PendingNow, PendingNext DEF Taking
    <3>6. UNCHANGED Fifo!fifoVars
      BY <1>1, <3>1, <3>5 DEF Fifo!fifoVars, Pending
    <3> QED BY <1>1, <3>1, <3>3, <3>6 DEF KbdInv, BufferInv, Taking
  <2> QED BY <2>2, <2>3, <2>4
<1> QED BY <1>2, <1>3

LEMMA ReaderStep ==
  ASSUME KbdInv, Reader \/ WakeForOther \/ UNCHANGED kbdVars
  PROVE  FifoStep
<1>1. ASSUME UNCHANGED <<tty, kbd, hit>>, unread' \in Chars \cup {NoKey},
             c' = c \/ c' \in Chars \cup {NoKey},
             pc' = pc \/ (pc \notin Taking /\ pc' \notin Taking)
      PROVE  FifoStep
  <2>1. UNCHANGED Fifo!fifoVars \/ Fifo!OutOfTurn
    BY <1>1, FifoStutters, FifoOutOfTurn
  <2> QED BY <1>1, <2>1 DEF KbdInv, BufferInv, Fifo!Next, Taking, FifoStep
<1>2. /\ unread \in Chars \cup {NoKey} /\ CtrlG \in Chars /\ Len(tty) \in Nat
      /\ SubSeq(tty, 1, Len(tty)) = tty
  BY DEF KbdInv, BufferInv, Chars
<1> USE DEF Taking
<1>3. CASE Reread
  BY <1>1, <1>2, <1>3 DEF Reread
<1>4. CASE ReadCommandChar
  BY <1>1, <1>2, <1>4 DEF ReadCommandChar
<1>5. CASE EndRedisplay
  BY <1>1, <1>2, <1>5 DEF EndRedisplay
<1>6. CASE ThrowQuit
  BY <1>1, <1>2, <1>6 DEF ThrowQuit, ThrowToReader
<1>7. CASE SetWaiting
  BY <1>1, <1>2, <1>7 DEF SetWaiting
<1>8. CASE Checked
  BY <1>1, <1>2, <1>8 DEF Checked
<1>9. CASE Select
  BY <1>1, <1>2, <1>9 DEF Select
<1>10. CASE WakeForInput
  BY <1>1, <1>2, <1>10 DEF WakeForInput, Wake
<1>11. CASE WakeForOther
  BY <1>1, <1>2, <1>11 DEF WakeForOther, Wake
<1>12. CASE ClearWaiting
  BY <1>1, <1>2, <1>12 DEF ClearWaiting
<1>13. CASE CheckPending
  BY <1>1, <1>2, <1>13 DEF CheckPending
<1>14. CASE Return
  BY <1>1, <1>2, <1>14 DEF Return
<1>15. CASE UNCHANGED kbdVars
  BY <1>1, <1>2, <1>15 DEF kbdVars
<1>16. CASE GobbleInput
  <2>1. CASE interruptInput /\ tty # <<>>
    <3> DEFINE next == IF KeysOf(tty) = <<>> THEN "wait" ELSE "loop"
    <3>1. /\ Receive(Len(tty), next) /\ pc = "loop" /\ hit' = hit
          /\ next \in Places \ Taking
      BY <1>16, <2>1 DEF GobbleInput, InputAvailable, Places
    <3> HIDE DEF next
    <3> QED BY <1>2, <3>1, ReaderReceives
  <2>2. CASE ~(interruptInput /\ tty # <<>>)
    BY <1>1, <1>2, <1>16, <2>2 DEF GobbleInput
  <2> QED BY <2>1, <2>2
<1>17. CASE ReadAvail
  <2>1. CASE quitFlag
    BY <1>1, <1>2, <1>17, <2>1 DEF ReadAvail
  <2>2. CASE ~quitFlag
    <3>1. Receive(Len(tty), "loop") /\ pc = "avail" /\ hit' = hit
      BY <1>17, <2>2 DEF ReadAvail
    <3> QED BY <1>2, <3>1, ReaderReceives DEF Places
  <2> QED BY <2>1, <2>2
<1>18. CASE ReadOne
  <2>1. /\ Receive(1, "loop") /\ pc = "block" /\ hit' = hit
        /\ 1 \in 0 .. Len(tty)
    BY <1>18 DEF ReadOne, KbdInv, BufferInv
  <2> QED BY <2>1, ReaderReceives DEF Places
<1>19. CASE CountDown \/ Fetch \/ Advance
  BY <1>19, TakingStep
<1> QED
  BY <1>3, <1>4, <1>5, <1>6, <1>7, <1>8, <1>9, <1>10, <1>11, <1>12, <1>13, <1>14, <1>15, <1>16, <1>17, <1>18, <1>19
     DEF Reader

THEOREM KbdInvariant == KbdSpec => []KbdInv
<1>1. KbdInit => BufferInv
  <2> SUFFICES ASSUME KbdInit PROVE BufferInv
    OBVIOUS
  <2>1. /\ kbd = [mem |-> [i \in 0 .. Size |-> Junk], ptr |-> 0, count |-> 0]
        /\ tty = <<>> /\ unread = NoKey /\ pc = "run"
    BY DEF KbdInit
  <2>2. Size \in Nat
    BY KbdAssumption
  <2>3. kbd \in Sane
    BY <2>1, <2>2 DEF Sane, Block
  <2> QED BY <2>1, <2>3 DEF BufferInv
<1>2. KbdInv /\ [KbdNext]_kbdVars => BufferInv'
  BY HandlerStep, CommandStep, ReaderStep DEF FifoStep, KbdNext
<1>3. WaitInv /\ BufferInv <=> KbdInv
  BY DEF KbdInv
<1> QED BY <1>1, <1>2, <1>3, WaitInvariant, PTL DEF KbdSpec

\* No character is lost, repeated, made up or overtaken, until SIGIO comes
\* while one is taken: KbdBuffer implements KeyFifo that far.
THEOREM KeyFifoUnlessHitHolds == KbdSpec => KeyFifoUnlessHit
<1>1. KbdInit => Fifo!Init
  <2> SUFFICES ASSUME KbdInit PROVE Fifo!Init
    OBVIOUS
  <2>1. /\ kbd.count = 0 /\ tty = <<>> /\ c = NoKey /\ pc = "run"
    BY DEF KbdInit
  <2>2. Pending = InBuffer(kbd.ptr, kbd.count)
    BY <2>1, PendingNow DEF Taking
  <2>3. Pending = <<>>
    BY <2>1, <2>2 DEF InBuffer
  <2> QED BY <2>1, <2>3 DEF Fifo!Init, Pending
<1>2. KbdInv /\ [KbdNext]_kbdVars => [hit' \/ Fifo!Next]_(Fifo!fifoVars)
  BY HandlerStep, CommandStep, ReaderStep DEF FifoStep, KbdNext
<1> QED BY <1>1, <1>2, KbdInvariant, PTL DEF KbdSpec, KeyFifoUnlessHit

-----------------------------------------------------------------------------
(***************************************************************************)
(* Types.  status_notify is at some process while it deals with one.       *)
(***************************************************************************)
CurIsProcess ==
  at \in {"drain", "report", "clear", "sentinel"} \/ Draining
    => cur \in Processes
Types == TypeOK /\ CurIsProcess

\* The pieces of status_notify keep a struct Lisp_Process what it is.
LEMMA ObjectOps ==
  ASSUME NEW o \in Object, o.mask => o.infd
  PROVE  /\ UpdateStatus(o) \in Object
         /\ UpdateStatus(o).mask = o.mask /\ UpdateStatus(o).infd = o.infd
         /\ DeactivateProcess(o) \in Object /\ ~DeactivateProcess(o).mask
         /\ RemoveProcess(o) \in Object /\ ~RemoveProcess(o).mask
         /\ \A b \in Buried(o) : b \in Object /\ (b.mask => b.infd)
         /\ Ticked(o) \in Object
  BY DEF Object, UpdateStatus, DeactivateProcess, RemoveProcess, Buried, Ticked

\* What remove_process and delete_exited_processes leave of a process.
LEMMA BuriedFields ==
  ASSUME NEW o \in Object
  PROVE  /\ RemoveProcess(o).raw = o.raw /\ RemoveProcess(o).status = o.status
         /\ RemoveProcess(o).event = o.event
         /\ ~ RemoveProcess(o).listed /\ ~ RemoveProcess(o).infd
         /\ \A b \in Buried(o) :
              /\ b.raw = o.raw /\ b.status = o.status /\ b.event = o.event
              /\ b.listed => o.listed
              /\ o.status = "exit" => ~ b.infd
              /\ o.status # "exit" => b = o
<1> DEFINE d == DeactivateProcess(o)
           r == RemoveProcess(o)
<1>1. /\ d.raw = o.raw /\ d.status = o.status /\ d.listed = o.listed
      /\ d.event = o.event /\ d.infd = FALSE
  BY DEF DeactivateProcess, Object
<1>2. /\ r.raw = o.raw /\ r.status = o.status /\ r.listed = FALSE
      /\ r.event = o.event /\ r.infd = FALSE
  BY DEF RemoveProcess, DeactivateProcess, Object
<1>3. \A b \in Buried(o) : \/ o.status = "exit" /\ (b = r \/ b = d)
                           \/ o.status # "exit" /\ b = o
  BY DEF Buried
<1> HIDE DEF d, r
<1>4. ~ r.listed /\ ~ r.infd
  BY <1>2
<1>5. ASSUME NEW b \in Buried(o)
      PROVE  /\ b.raw = o.raw /\ b.status = o.status /\ b.event = o.event
             /\ b.listed => o.listed
             /\ o.status = "exit" => ~ b.infd
             /\ o.status # "exit" => b = o
  <2>1. CASE b = r
    BY <1>2, <1>3, <2>1
  <2>2. CASE b = d
    BY <1>1, <1>3, <2>2
  <2>3. CASE b = o /\ o.status # "exit"
    BY <2>3
  <2>. QED  BY <1>3, <2>1, <2>2, <2>3
<1>. QED  BY <1>2, <1>4, <1>5 DEF r

\* A child that dies or goes on keeps its output.
LEMMA ChildOps ==
  ASSUME NEW one \in Child
  PROVE  /\ Died(one) \in Child /\ Died(one).state = "dead"
         /\ Died(one).news = "exit"
         /\ Died(one).unread = one.unread
         /\ Resumed(one) \in Child
         /\ Resumed(one).state \in {one.state, "running"}
         /\ one.state = "dead" => Resumed(one).state = "dead"
         /\ Resumed(one).news = "exit" => one.news = "exit" /\ one.state # "stopped"
         /\ Resumed(one).news = "stop" => one.news = "stop" /\ one.state # "stopped"
         /\ Resumed(one).unread = one.unread
BY DEF Died, Resumed, Child

\* delete-process and continue-process tick and set the status.
LEMMA TickedAgain ==
  ASSUME NEW o \in Object, o.mask => o.infd, NEW s \in {"run", "stop", "exit"}
  PROVE  LET r == [Ticked(o) EXCEPT !.raw = "none", !.status = s]
         IN r \in Object /\ (r.mask => r.infd)
<1>1. /\ Ticked(o) \in Object
      /\ Ticked(o).mask = o.mask /\ Ticked(o).infd = o.infd
  BY DEF Ticked, Object
<1> QED BY <1>1 DEF Object

\* What delete-process and continue-process leave is well typed.
LEMMA NotifyAllTypes ==
  ASSUME Types,
         NEW proc0 \in [Processes -> Object],
         \A p \in Processes : proc0[p].mask => proc0[p].infd,
         NEW child0 \in [Processes -> Child],
         NEW gone \in SUBSET Processes,
         NotifyAll(proc0, child0, gone)
  PROVE  /\ proc' \in [Processes -> Object]
         /\ \A p \in Processes : proc'[p].mask => proc'[p].infd
         /\ child' \in [Processes -> Child]
        
         /\ heard' \in [Processes -> {"run", "stop", "exit"}]
         /\ deaths' \in [Processes -> 0 .. 2]
         /\ ticking' = FALSE
<1> DEFINE New == {p \in Processes : proc0[p].listed /\ proc0[p].event}
           Now(p) == [UpdateStatus(proc0[p]) EXCEPT !.event = FALSE]
<1>1. \A p \in Processes : Now(p) \in Object /\ (Now(p).mask => Now(p).infd)
  <2> TAKE p \in Processes
  <2>1. /\ UpdateStatus(proc0[p]) \in Object
        /\ UpdateStatus(proc0[p]).mask = proc0[p].mask
        /\ UpdateStatus(proc0[p]).infd = proc0[p].infd
    <3>1. proc0[p] \in Object /\ (proc0[p].mask => proc0[p].infd)
      OBVIOUS
    <3> QED BY <3>1, ObjectOps
  <2>2. proc0[p].mask => proc0[p].infd
    OBVIOUS
  <2> HIDE DEF New
  <2> QED BY <2>1, <2>2 DEF Object
<1>2. \A p \in Processes :
        /\ RemoveProcess(Now(p)) \in Object /\ ~RemoveProcess(Now(p)).mask
        /\ \A b \in Buried(Now(p)) : b \in Object /\ (b.mask => b.infd)
  BY <1>1, ObjectOps
<1>3. /\ proc' \in [Processes -> UNION {Buried(Now(p)) : p \in New}
                        \cup {RemoveProcess(Now(p)) : p \in gone}
                        \cup {proc0[p] : p \in Processes}]
      /\ \A p \in Processes :
          proc'[p] \in IF p \in gone THEN {RemoveProcess(Now(p))}
                       ELSE IF p \in New THEN Buried(Now(p)) ELSE {proc0[p]}
  BY DEF NotifyAll
<1>4. \A p \in Processes : proc'[p] \in Object /\ (proc'[p].mask => proc'[p].infd)
  BY <1>2, <1>3
<1>5. proc' \in [Processes -> Object]
  BY <1>3, <1>4
<1>6. child' = [p \in Processes |->
          IF p \in New /\ proc0[p].infd THEN [child0[p] EXCEPT !.unread = 0]
                                        ELSE child0[p]]
  BY DEF NotifyAll
<1>7. /\ child' \in [Processes -> Child]
  BY <1>6, ProcessAssumption DEF Child
<1>8. heard' \in [Processes -> {"run", "stop", "exit"}]
  <2>1. \A p \in Processes : Now(p).status \in {"run", "stop", "exit"}
    BY <1>1 DEF Object
  <2> QED BY <2>1 DEF NotifyAll, Types, TypeOK
<1>9. deaths' \in [Processes -> 0 .. 2]
  BY DEF NotifyAll, Counted, Types, TypeOK
<1>10. ticking' = FALSE
  BY DEF NotifyAll
<1> QED BY <1>4, <1>5, <1>7, <1>8, <1>9, <1>10

LEMMA TypesInit == Init => Types
<1> SUFFICES ASSUME Init PROVE Types
  OBVIOUS
<1>1. child \in [Processes -> Child]
  BY ProcessAssumption DEF Init, Child
<1>2. proc \in [Processes -> Object] /\ \A p \in Processes : ~proc[p].mask
  BY DEF Init, Object, Unused
<1>3. /\ ticking = FALSE /\ at = "command" /\ back = "command"
      /\ cur = Nobody /\ todo = {} /\ sentinels \subseteq Processes
  BY DEF Init
<1>5. heard \in [Processes -> {"run", "stop", "exit"}]
  BY DEF Init
<1>6. deaths \in [Processes -> 0 .. 2]
  BY DEF Init
<1>4. excused \subseteq Processes \X Excuses
  <2>1. excused = {}
    BY DEF Init
  <2> QED BY <2>1
<1> QED BY <1>1, <1>2, <1>3, <1>4, <1>5, <1>6 DEF Types, TypeOK, CurIsProcess, Draining

\* Whoever is let down stays so, in one of the ways listed.
LEMMA ExcusesGrow ==
  ASSUME Types, [Next]_vars
  PROVE  excused \subseteq excused' /\ excused' \subseteq Processes \X Excuses
<1> USE DEF Types, TypeOK, Excuses, Excuse, history, Emacs
<1>1. ASSUME NEW p \in Processes, SigChld(p)
      PROVE  excused \subseteq excused' /\ excused' \subseteq Processes \X Excuses
  <2>1. excused' \in {excused, excused \cup {<<p, "midway">>},
                      excused \cup {<<p, "late">>}, excused \cup {<<p, "erased">>}}
    BY <1>1 DEF SigChld
  <2> QED BY <2>1
<1>2. ASSUME NEW p \in Processes, DeleteProcess(p)
      PROVE  excused \subseteq excused' /\ excused' \subseteq Processes \X Excuses
  <2>1. NobodyToTell => cur \in Processes
    BY DEF NobodyToTell, CurIsProcess
  <2>2. \/ excused' \in {excused, excused \cup {<<p, "recursive">>}}
        \/ cur \in Processes /\ excused' = excused \cup {<<cur, "silenced">>}
    BY <1>2, <2>1 DEF DeleteProcess
  <2> QED BY <2>2
<1>3. ASSUME NEW p \in Processes, ContinueProcess(p)
      PROVE  excused \subseteq excused' /\ excused' \subseteq Processes \X Excuses
  BY <1>3 DEF ContinueProcess
<1>4. ASSUME NEW p \in Processes, SendProcess(p)
      PROVE  excused \subseteq excused' /\ excused' \subseteq Processes \X Excuses
  BY <1>4 DEF SendProcess
<1>5. CASE NotifyEnd
  BY <1>5 DEF NotifyEnd
<1>6. CASE LispError
  <2>1. Draining \/ at = "sentinel" => cur \in Processes
    BY DEF CurIsProcess
  <2>2. \/ excused' = excused
        \/ cur \in Processes /\ excused' \in {excused \cup {<<cur, "thrown">>},
                                             excused \cup {<<cur, "silenced">>}}
    BY <1>6, <2>1 DEF LispError
  <2> QED BY <2>2
<1>7. ASSUME NEW p \in Processes,
             \/ Output(p) \/ Stop(p) \/ Resume(p) \/ Die(p) \/ StartProcess(p)
             \/ SelectReads(p) \/ NotifyNext(p)
      PROVE  excused' = excused
  BY <1>7 DEF Output, Stop, Resume, Die, StartProcess, SelectReads, NotifyNext,
              Read
<1>8. CASE \/ BeginWait \/ KeyTyped \/ BeginNotify \/ GoOnToSelect
           \/ SelectTimesOut \/ Drain \/ Drained \/ ReadRawStatus
           \/ ClearRawStatus \/ FilterReturns \/ SentinelReturns
           \/ UNCHANGED vars
  <2>1. excused' = excused
    BY <1>8 DEF BeginWait, KeyTyped, BeginNotify, GoOnToSelect, SelectTimesOut,
                Drain, Drained, ReadRawStatus, ClearRawStatus, FilterReturns,
                SentinelReturns, Read, vars
  <2> QED BY <2>1
<1> QED BY <1>1, <1>2, <1>3, <1>4, <1>5, <1>6, <1>7, <1>8
        DEF Next, WaitLoop, StatusNotify

\* One process gets another struct.
LEMMA ObjectChanged ==
  ASSUME Types, NEW p, NEW o \in Object, o.mask => o.infd,
         proc' = [proc EXCEPT ![p] = o]
  PROVE  /\ proc' \in [Processes -> Object]
         /\ \A q \in Processes : proc'[q].mask => proc'[q].infd
  BY DEF Types, TypeOK

\* Only processes have sentinels.
LEMMA SentinelsStep ==
  ASSUME Types, [Next]_vars
  PROVE  sentinels' \subseteq Processes
<1> USE DEF Types, TypeOK, history, Emacs
<1>1. ASSUME NEW p \in Processes,
             \/ Output(p) \/ Stop(p) \/ Resume(p) \/ Die(p) \/ SigChld(p)
             \/ DeleteProcess(p) \/ ContinueProcess(p) \/ SendProcess(p)
             \/ SelectReads(p) \/ NotifyNext(p)
      PROVE  sentinels' = sentinels
  BY <1>1 DEF Output, Stop, Resume, Die, SigChld, DeleteProcess, ContinueProcess,
              SendProcess, SelectReads, NotifyNext, Read
<1>2. ASSUME NEW p \in Processes, StartProcess(p)
      PROVE  sentinels' \subseteq Processes
  BY <1>2 DEF StartProcess
<1>3. CASE ReadRawStatus \/ ClearRawStatus
  BY <1>3 DEF ReadRawStatus, ClearRawStatus, Report
<1>4. CASE SentinelReturns
  BY <1>4 DEF SentinelReturns, CurIsProcess
<1>5. CASE \/ BeginWait \/ KeyTyped \/ BeginNotify \/ GoOnToSelect
           \/ SelectTimesOut \/ Drain \/ Drained \/ NotifyEnd
           \/ FilterReturns \/ LispError \/ UNCHANGED vars
  <2>1. sentinels' = sentinels
    BY <1>5 DEF BeginWait, KeyTyped, BeginNotify, GoOnToSelect, SelectTimesOut,
                Drain, Drained, NotifyEnd, FilterReturns, LispError, Read, vars
  <2> QED BY <2>1
<1> QED BY <1>1, <1>2, <1>3, <1>4, <1>5 DEF Next, WaitLoop, StatusNotify

\* The types, action by action.
LEMMA TypesStep == Types /\ [Next]_vars => Types'
<1> SUFFICES ASSUME Types, [Next]_vars PROVE Types'
  OBVIOUS
<1> USE DEF Types, TypeOK, history, Emacs
<1>0. excused' \subseteq Processes \X Excuses /\ sentinels' \subseteq Processes
  BY ExcusesGrow, SentinelsStep
<1>1. ASSUME NEW p \in Processes, Output(p) PROVE Types'
  <2>1. child' \in [Processes -> Child]
    BY <1>1, ProcessAssumption DEF Output, Child
  <2> QED BY <1>0, <1>1, <2>1 DEF Output, CurIsProcess, Draining
<1>2. ASSUME NEW p \in Processes, Stop(p) \/ Resume(p) \/ Die(p) PROVE Types'
  <2>1. child[p] \in Child
    OBVIOUS
  <2>2. PICK one \in {[child[p] EXCEPT !.state = "stopped", !.news = "stop"],
                      Resumed(child[p]), Died(child[p])} :
          child' = [child EXCEPT ![p] = one]
    BY <1>2 DEF Stop, Resume, Die
  <2>3. one \in Child /\ one.unread = child[p].unread
    BY <2>1, <2>2, ZenonT(30) DEF Resumed, Died, Child
  <2>4. child' \in [Processes -> Child]
    BY <2>2, <2>3
  <2> QED BY <1>0, <1>2, <2>4 DEF Stop, Resume, Die, CurIsProcess, Draining
<1>3. ASSUME NEW p \in Processes, SigChld(p) PROVE Types'
  <2>1. child' \in [Processes -> Child]
    BY <1>3 DEF SigChld, Child
  <2>2. proc' \in [Processes -> Object]
        /\ \A q \in Processes : proc'[q].mask => proc'[q].infd
    <3> DEFINE o == [Ticked(proc[p]) EXCEPT !.raw = child[p].news,
                         !.mask = proc[p].mask /\ child[p].news # "exit"]
    <3>1. proc[p] \in Object /\ (proc[p].mask => proc[p].infd)
          /\ child[p].news \in {"none", "stop", "exit"}
      BY DEF Child
    <3>2. o \in Object /\ (o.mask => o.infd)
      BY <3>1 DEF Ticked, Object
    <3>3. CASE proc[p].listed
      <4>1. proc' = [proc EXCEPT ![p] = o]
        BY <1>3, <3>3, Zenon DEF SigChld
      <4> HIDE DEF o
      <4> QED BY <3>2, <4>1, ObjectChanged
    <3>4. CASE ~proc[p].listed
      <4>1. proc' = proc
        BY <1>3, <3>4, Zenon DEF SigChld
      <4> QED BY <4>1
    <3> QED BY <3>3, <3>4
  <2>3. ticking' \in BOOLEAN /\ at' \in {at, "top"}
        /\ UNCHANGED <<back, cur, todo, heard, deaths>>
    BY <1>3 DEF SigChld
  <2>4. CurIsProcess'
    BY <2>3 DEF CurIsProcess, Draining
  <2> QED BY <1>0, <2>1, <2>2, <2>3, <2>4
<1>4. ASSUME NEW p \in Processes, StartProcess(p) PROVE Types'
  <2>1. child' \in [Processes -> Child]
    BY <1>4 DEF StartProcess, Child
  <2>2. proc' \in [Processes -> Object]
        /\ \A q \in Processes : proc'[q].mask => proc'[q].infd
    BY <1>4 DEF StartProcess, Unused, Object
  <2> QED BY <1>0, <1>4, <2>1, <2>2 DEF StartProcess, CurIsProcess, Draining
<1>5. ASSUME NEW p \in Processes, DeleteProcess(p) PROVE Types'
  <2> DEFINE proc0 == [proc EXCEPT ![p] =
                        [Ticked(@) EXCEPT !.raw = "none", !.status = "exit"]]
             child0 == [child EXCEPT ![p] = IF @.state = "dead" THEN @ ELSE Died(@)]
  <2>1. CASE proc[p].infd
    <3>1. proc0 \in [Processes -> Object]
          /\ \A q \in Processes : proc0[q].mask => proc0[q].infd
      <4>1. proc[p] \in Object /\ (proc[p].mask => proc[p].infd)
        OBVIOUS
      <4>2. LET r == [Ticked(proc[p]) EXCEPT !.raw = "none", !.status = "exit"]
            IN r \in Object /\ (r.mask => r.infd)
        BY <4>1, TickedAgain
      <4> QED BY <4>2
    <3>2. child0 \in [Processes -> Child]
      <4>1. /\ Died(child[p]) \in Child
            /\ Died(child[p]).unread = child[p].unread
        BY ChildOps
      <4> QED BY <4>1
    <3>3. NotifyAll(proc0, child0, {p})
      BY <1>5, <2>1 DEF DeleteProcess
    <3> HIDE DEF proc0, child0
    <3>4. /\ proc' \in [Processes -> Object]
          /\ \A q \in Processes : proc'[q].mask => proc'[q].infd
          /\ child' \in [Processes -> Child]
          /\ heard' \in [Processes -> {"run", "stop", "exit"}]
          /\ deaths' \in [Processes -> 0 .. 2]
          /\ ticking' = FALSE
      BY <3>1, <3>2, <3>3, NotifyAllTypes
    <3> QED BY <1>0, <1>5, <3>4 DEF DeleteProcess, CurIsProcess, Draining
  <2>2. CASE ~proc[p].infd
    <3>1. proc' \in [Processes -> Object]
          /\ \A q \in Processes : proc'[q].mask => proc'[q].infd
      <4>1. [proc[p] EXCEPT !.raw = "none"] \in Object
            /\ ~[proc[p] EXCEPT !.raw = "none"].mask
        BY <2>2 DEF Object
      <4>2. RemoveProcess([proc[p] EXCEPT !.raw = "none"]) \in Object
            /\ ~RemoveProcess([proc[p] EXCEPT !.raw = "none"]).mask
        BY <4>1, ObjectOps
      <4>3. proc' = [proc EXCEPT ![p] =
                       RemoveProcess([proc[p] EXCEPT !.raw = "none"])]
        BY <1>5, <2>2 DEF DeleteProcess
      <4> QED BY <4>2, <4>3, ObjectChanged
    <3> QED BY <1>0, <1>5, <2>2, <3>1 DEF DeleteProcess, CurIsProcess, Draining
  <2> QED BY <2>1, <2>2
<1>6. ASSUME NEW p \in Processes, ContinueProcess(p) PROVE Types'
  <2> DEFINE proc0 == [proc EXCEPT ![p] =
                        [Ticked(@) EXCEPT !.raw = "none", !.status = "run"]]
             child0 == [child EXCEPT ![p] = Resumed(@)]
  <2>1. proc0 \in [Processes -> Object]
        /\ \A q \in Processes : proc0[q].mask => proc0[q].infd
    <3>1. proc[p] \in Object /\ (proc[p].mask => proc[p].infd)
      OBVIOUS
    <3>2. LET r == [Ticked(proc[p]) EXCEPT !.raw = "none", !.status = "run"]
          IN r \in Object /\ (r.mask => r.infd)
      BY <3>1, TickedAgain
    <3> QED BY <3>2
  <2>2. child0 \in [Processes -> Child]
    <3>1. /\ Resumed(child[p]) \in Child
          /\ Resumed(child[p]).unread = child[p].unread
      BY ChildOps
    <3> QED BY <3>1
  <2>3. NotifyAll(proc0, child0, {})
    BY <1>6 DEF ContinueProcess
  <2> HIDE DEF proc0, child0
  <2>4. /\ proc' \in [Processes -> Object]
        /\ \A q \in Processes : proc'[q].mask => proc'[q].infd
        /\ child' \in [Processes -> Child]
        /\ heard' \in [Processes -> {"run", "stop", "exit"}]
        /\ deaths' \in [Processes -> 0 .. 2]
        /\ ticking' = FALSE
    BY <2>1, <2>2, <2>3, NotifyAllTypes
  <2> QED BY <1>0, <1>6, <2>4 DEF ContinueProcess, CurIsProcess, Draining
<1>7. ASSUME NEW p \in Processes, SendProcess(p) PROVE Types'
  <2>1. proc' \in [Processes -> Object]
        /\ \A q \in Processes : proc'[q].mask => proc'[q].infd
    <3>1. UpdateStatus(proc[p]) \in Object
          /\ UpdateStatus(proc[p]).mask = proc[p].mask
          /\ UpdateStatus(proc[p]).infd = proc[p].infd
      BY ObjectOps
    <3> DEFINE o == [Ticked(UpdateStatus(proc[p])) EXCEPT !.status = "exit"]
    <3>2. o \in Object /\ (o.mask => o.infd)
      BY <3>1 DEF Ticked, Object
    <3>3. DeactivateProcess(o) \in Object /\ ~DeactivateProcess(o).mask
      BY <3>2, ObjectOps
    <3>4. \/ proc' = [proc EXCEPT ![p] = UpdateStatus(proc[p])]
          \/ proc' = [proc EXCEPT ![p] = DeactivateProcess(o)]
      BY <1>7 DEF SendProcess
    <3> HIDE DEF o
    <3> QED BY <3>1, <3>3, <3>4, ObjectChanged
  <2>2. ticking' \in BOOLEAN /\ UNCHANGED <<child, at, back, cur, todo, heard, deaths>>
    BY <1>7 DEF SendProcess
  <2>3. CurIsProcess'
    BY <2>2 DEF CurIsProcess, Draining
  <2> QED BY <1>0, <2>1, <2>2, <2>3
<1>8. CASE BeginWait \/ BeginNotify \/ GoOnToSelect \/ SelectTimesOut \/ KeyTyped
  <2>1. UNCHANGED <<child, proc, ticking, back, cur, heard, deaths>>
        /\ at' \in {"top", "notify", "select", "command"}
        /\ todo' \subseteq Processes
    BY <1>8 DEF BeginWait, BeginNotify, GoOnToSelect, SelectTimesOut, KeyTyped
  <2>2. CurIsProcess'
    BY <2>1 DEF CurIsProcess, Draining
  <2> QED BY <1>0, <2>1, <2>2
<1>9. ASSUME NEW p \in Processes, NEW next \in {"top", "drain"}, Read(p, next)
      PROVE  /\ child' \in [Processes -> Child]
             /\ UNCHANGED <<proc, ticking, cur, todo, heard, deaths>>
             /\ \/ at' = "filter" /\ back' = next
                \/ at' = next /\ back' = back
  BY <1>9, ProcessAssumption DEF Read, Child
<1>10. ASSUME NEW p \in Processes, SelectReads(p) PROVE Types'
  <2>1. Read(p, "top")
    BY <1>10 DEF SelectReads
  <2> QED BY <1>0, <1>9, <2>1 DEF CurIsProcess, Draining
<1>11. CASE Drain
  <2>1. cur \in Processes /\ Read(cur, "drain")
    BY <1>11 DEF Drain, CurIsProcess
  <2> QED BY <1>0, <1>9, <2>1 DEF CurIsProcess, Draining
<1>12. ASSUME NEW p \in Processes, NotifyNext(p) PROVE Types'
  <2>1. proc' \in [Processes -> Object]
        /\ \A q \in Processes : proc'[q].mask => proc'[q].infd
    <3>1. [proc[p] EXCEPT !.event = FALSE] \in Object
          /\ ([proc[p] EXCEPT !.event = FALSE].mask
                => [proc[p] EXCEPT !.event = FALSE].infd)
      BY DEF Object
    <3>2. proc' = proc \/ proc' = [proc EXCEPT ![p] = [proc[p] EXCEPT !.event = FALSE]]
      BY <1>12 DEF NotifyNext
    <3> QED BY <3>1, <3>2, ObjectChanged
  <2>2. /\ at' \in {"notify", "drain", "report"}
        /\ at' # "notify" => cur' \in Processes
        /\ cur' \in Processes \cup {Nobody} /\ todo' \subseteq Processes
        /\ UNCHANGED <<child, ticking, back, heard, deaths>>
    BY <1>12 DEF NotifyNext
  <2>3. CurIsProcess'
    BY <2>2 DEF CurIsProcess, Draining
  <2> QED BY <1>0, <2>1, <2>2, <2>3
<1>13. ASSUME NEW o \in Object, o.mask => o.infd, cur \in Processes, Report(o),
              UNCHANGED <<child, ticking, back, cur, todo, excused>>
       PROVE  Types'
  <2>1. \A b \in Buried(o) : b \in Object /\ (b.mask => b.infd)
    BY <1>13, ObjectOps
  <2>2. proc' \in [Processes -> Object]
        /\ \A q \in Processes : proc'[q].mask => proc'[q].infd
    BY <1>13, <2>1 DEF Report
  <2>3. /\ heard' \in [Processes -> {"run", "stop", "exit"}]
        /\ deaths' \in [Processes -> 0 .. 2]
        /\ at' \in {"sentinel", "notify"}
    <3>1. o.status \in {"run", "stop", "exit"}
      BY <1>13 DEF Object
    <3>2. \/ heard' = heard /\ deaths' = deaths
          \/ /\ heard' = [heard EXCEPT ![cur] = o.status]
             /\ deaths' = [deaths EXCEPT ![cur] =
                             IF o.status = "exit" THEN Counted(@) ELSE @]
      BY <1>13 DEF Report, Told
    <3>3. \A n \in 0 .. 2 : Counted(n) \in 0 .. 2
      BY DEF Counted
    <3>4. at' \in {"sentinel", "notify"}
      BY <1>13 DEF Report
    <3> QED BY <3>1, <3>2, <3>3, <3>4
  <2>4. CurIsProcess'
    BY <1>13, <2>3 DEF CurIsProcess, Draining
  <2> QED BY <1>0, <1>13, <2>2, <2>3, <2>4
<1>14. CASE ReadRawStatus
  <2>1. cur \in Processes
    BY <1>14 DEF ReadRawStatus, CurIsProcess
  <2>2. CASE proc[cur].raw = "none"
    BY <1>13, <1>14, <2>1, <2>2 DEF ReadRawStatus
  <2>3. CASE proc[cur].raw # "none"
    <3>1. proc' \in [Processes -> Object]
          /\ \A q \in Processes : proc'[q].mask => proc'[q].infd
      <4> DEFINE o == [proc[cur] EXCEPT !.status = proc[cur].raw]
      <4>1. o \in Object /\ (o.mask => o.infd)
        BY <2>1, <2>3 DEF Object
      <4>2. proc' = [proc EXCEPT ![cur] = o]
        BY <1>14, <2>3 DEF ReadRawStatus
      <4> HIDE DEF o
      <4> QED BY <4>1, <4>2, ObjectChanged
    <3>2. at' = "clear" /\ UNCHANGED <<child, ticking, back, cur, todo, heard, deaths>>
      BY <1>14, <2>3 DEF ReadRawStatus
    <3>3. CurIsProcess'
      BY <2>1, <3>2 DEF CurIsProcess, Draining
    <3> QED BY <1>0, <3>1, <3>2, <3>3
  <2> QED BY <2>2, <2>3
<1>15. CASE ClearRawStatus
  <2>1. cur \in Processes
    BY <1>15 DEF ClearRawStatus, CurIsProcess
  <2>2. [proc[cur] EXCEPT !.raw = "none"] \in Object
        /\ ([proc[cur] EXCEPT !.raw = "none"].mask
              => [proc[cur] EXCEPT !.raw = "none"].infd)
    BY <2>1 DEF Object
  <2> QED BY <1>13, <1>15, <2>1, <2>2 DEF ClearRawStatus
<1>16. CASE Drained \/ NotifyEnd \/ FilterReturns \/ SentinelReturns \/ LispError
            \/ UNCHANGED vars
  <2>1. /\ UNCHANGED <<child, proc, heard, deaths>> /\ ticking' \in BOOLEAN
        /\ back' \in {back, "command"} /\ cur' \in {cur, Nobody}
        /\ todo' \subseteq Processes
    BY <1>16 DEF Drained, NotifyEnd, FilterReturns, SentinelReturns, LispError, vars
  <2>2. at' \in {"command", "filter", "sentinel", "top", "select", "notify",
                 "drain", "report", "clear"} /\ CurIsProcess'
    BY <1>16 DEF Drained, NotifyEnd, FilterReturns, SentinelReturns, LispError,
                 vars, CurIsProcess, Draining
  <2> QED BY <1>0, <2>1, <2>2
<1> QED BY <1>1, <1>2, <1>3, <1>4, <1>5, <1>6, <1>7, <1>8, <1>10, <1>11, <1>12,
           <1>14, <1>15, <1>16
        DEF Next, WaitLoop, StatusNotify

\* TypeOK, for any processes and any amount of output; that select is never
\* asked about a closed descriptor is part of it.
THEOREM ProcessTypes == Spec => []TypeOK
<1>1. Init => Types
  BY TypesInit
<1>2. Types /\ [Next]_vars => Types'
  BY TypesStep
<1>3. Types => TypeOK
  BY DEF Types
<1> QED BY <1>1, <1>2, <1>3, PTL DEF Spec

-----------------------------------------------------------------------------
(***************************************************************************)
(* Events and ticks.                                                       *)
(***************************************************************************)
\* status_notify, as delete-process and continue-process call it, leaves no
\* event behind.
LEMMA NotifyAllEvents ==
  ASSUME NEW proc0 \in [Processes -> Object], NEW child0,
         NEW gone \in SUBSET Processes, NotifyAll(proc0, child0, gone)
  PROVE  \A p \in Processes : proc'[p].listed => ~proc'[p].event
<1> DEFINE Now(p) == [UpdateStatus(proc0[p]) EXCEPT !.event = FALSE]
<1> TAKE p \in Processes
<1>1. \/ proc'[p] = RemoveProcess(Now(p))
      \/ proc'[p] \in Buried(Now(p))
      \/ proc'[p] = proc0[p] /\ ~(proc0[p].listed /\ proc0[p].event)
  BY DEF NotifyAll
<1>2. Now(p) \in [listed : BOOLEAN, infd : BOOLEAN, mask : BOOLEAN,
                  raw : {"none", "stop", "exit"},
                  status : {"run", "stop", "exit"}, event : {FALSE}]
  BY DEF UpdateStatus, Object
<1>3. ~RemoveProcess(Now(p)).listed
      /\ \A b \in Buried(Now(p)) : ~b.event
  BY <1>2 DEF RemoveProcess, DeactivateProcess, Buried
<1> QED BY <1>1, <1>3

\* Every step keeps events and ticks together.
LEMMA EventsStep == Types /\ EventsTick /\ [Next]_vars => EventsTick'
<1> SUFFICES ASSUME Types, EventsTick, [Next]_vars PROVE EventsTick'
  OBVIOUS
<1> USE DEF EventsTick, history, Emacs
<1>0. excused \subseteq excused'
  BY ExcusesGrow
<1>1. CASE /\ ticking' = ticking
           /\ \A q \in Processes :
                proc'[q].listed /\ proc'[q].event => proc[q].listed /\ proc[q].event
  BY <1>0, <1>1 DEF Has
<1>2. CASE ticking'
  BY <1>2
<1>3. CASE UNCHANGED <<proc, ticking>>
  BY <1>1, <1>3
<1>4. ASSUME NEW p \in Processes, SigChld(p) PROVE EventsTick'
  BY <1>2, <1>3, <1>4 DEF SigChld
<1>5. ASSUME NEW p \in Processes, StartProcess(p) PROVE EventsTick'
  BY <1>1, <1>5 DEF StartProcess, Unused, Types, TypeOK
<1>6. ASSUME NEW p \in Processes, DeleteProcess(p) PROVE EventsTick'
  <2>1. CASE proc[p].infd
    <3> DEFINE proc0 == [proc EXCEPT ![p] =
                          [Ticked(@) EXCEPT !.raw = "none", !.status = "exit"]]
               child0 == [child EXCEPT ![p] = IF @.state = "dead" THEN @ ELSE Died(@)]
    <3>1. proc0 \in [Processes -> Object]
      <4>1. proc \in [Processes -> Object]
        BY DEF Types, TypeOK
      <4>2. [Ticked(proc[p]) EXCEPT !.raw = "none", !.status = "exit"] \in Object
        BY <4>1 DEF Ticked, Object
      <4> QED BY <4>1, <4>2
    <3>2. NotifyAll(proc0, child0, {p})
      BY <1>6, <2>1 DEF DeleteProcess
    <3> HIDE DEF proc0, child0
    <3> QED BY <3>1, <3>2, NotifyAllEvents
  <2>2. CASE ~proc[p].infd
    <3>1. ~RemoveProcess([proc[p] EXCEPT !.raw = "none"]).listed
      BY DEF RemoveProcess, DeactivateProcess, Object, Types, TypeOK
    <3>2. proc' = [proc EXCEPT ![p] =
                     RemoveProcess([proc[p] EXCEPT !.raw = "none"])]
          /\ ticking' = ticking
      BY <1>6, <2>2 DEF DeleteProcess
    <3> QED BY <1>1, <3>1, <3>2 DEF Types, TypeOK
  <2> QED BY <2>1, <2>2
<1>7. ASSUME NEW p \in Processes, ContinueProcess(p) PROVE EventsTick'
  <2> DEFINE proc0 == [proc EXCEPT ![p] =
                        [Ticked(@) EXCEPT !.raw = "none", !.status = "run"]]
             child0 == [child EXCEPT ![p] = Resumed(@)]
  <2>1. proc0 \in [Processes -> Object]
    <3>1. proc \in [Processes -> Object] /\ proc[p] \in Object
      BY DEF Types, TypeOK
    <3>2. [Ticked(proc[p]) EXCEPT !.raw = "none", !.status = "run"] \in Object
      BY <3>1, TickedAgain DEF Types, TypeOK
    <3> QED BY <3>1, <3>2
  <2>2. NotifyAll(proc0, child0, {})
    BY <1>7 DEF ContinueProcess
  <2> HIDE DEF proc0, child0
  <2> QED BY <2>1, <2>2, NotifyAllEvents
<1>8. ASSUME NEW p \in Processes, SendProcess(p) PROVE EventsTick'
  <2>1. CASE UpdateStatus(proc[p]).status = "run"
    BY <1>2, <1>8, <2>1 DEF SendProcess
  <2>2. CASE UpdateStatus(proc[p]).status # "run"
    <3>1. proc' = [proc EXCEPT ![p] = UpdateStatus(proc[p])] /\ ticking' = ticking
      BY <1>8, <2>2 DEF SendProcess
    <3>2. UpdateStatus(proc[p]).listed = proc[p].listed
          /\ UpdateStatus(proc[p]).event = proc[p].event
      BY DEF UpdateStatus, Object, Types, TypeOK
    <3> QED BY <1>1, <3>1, <3>2 DEF Types, TypeOK
  <2> QED BY <2>1, <2>2
<1>9. ASSUME NEW p \in Processes, NotifyNext(p) PROVE EventsTick'
  BY <1>1, <1>9 DEF NotifyNext, Object, Types, TypeOK
<1>10. ASSUME NEW o \in Object, o.listed = proc[cur].listed, o.event = proc[cur].event,
              Report(o), ticking' = ticking
       PROVE  EventsTick'
  <2>1. \A b \in Buried(o) : (b.listed => o.listed) /\ b.event = o.event
    BY BuriedFields
  <2> QED BY <1>1, <1>10, <2>1 DEF Report, Types, TypeOK
<1>11. CASE ReadRawStatus
  <2>1. cur \in Processes /\ proc[cur] \in Object
    BY <1>11 DEF ReadRawStatus, Types, TypeOK, CurIsProcess
  <2>2. CASE proc[cur].raw = "none"
    BY <1>10, <1>11, <2>1, <2>2 DEF ReadRawStatus
  <2>3. CASE proc[cur].raw # "none"
    BY <1>1, <1>11, <2>1, <2>3 DEF ReadRawStatus, Types, TypeOK, Object
  <2> QED BY <2>2, <2>3
<1>12. CASE ClearRawStatus
  <2>1. cur \in Processes /\ proc[cur] \in Object
    BY <1>12 DEF ClearRawStatus, Types, TypeOK, CurIsProcess
  <2>2. /\ [proc[cur] EXCEPT !.raw = "none"] \in Object
        /\ [proc[cur] EXCEPT !.raw = "none"].listed = proc[cur].listed
        /\ [proc[cur] EXCEPT !.raw = "none"].event = proc[cur].event
    BY <2>1 DEF Object
  <2> QED BY <1>10, <1>12, <2>2 DEF ClearRawStatus
<1>13. CASE NotifyEnd
  <2>1. \A p \in Processes :
          proc'[p].listed /\ proc'[p].event => <<p, "overtaken">> \in excused'
    BY <1>13 DEF NotifyEnd
  <2> QED BY <2>1 DEF Has
<1>14. ASSUME NEW p \in Processes,
              \/ Output(p) \/ Stop(p) \/ Resume(p) \/ Die(p) \/ SelectReads(p)
       PROVE  EventsTick'
  BY <1>3, <1>14 DEF Output, Stop, Resume, Die, SelectReads, Read
<1>15. CASE \/ BeginWait \/ KeyTyped \/ BeginNotify \/ GoOnToSelect
            \/ SelectTimesOut \/ Drain \/ Drained \/ FilterReturns
            \/ SentinelReturns \/ LispError \/ UNCHANGED vars
  BY <1>3, <1>15 DEF BeginWait, KeyTyped, BeginNotify, GoOnToSelect,
     SelectTimesOut, Drain, Drained, FilterReturns, SentinelReturns, LispError,
     Read, vars
<1> QED BY <1>4, <1>5, <1>6, <1>7, <1>8, <1>9, <1>11, <1>12, <1>13, <1>14, <1>15
        DEF Next, WaitLoop, StatusNotify

\* EventsTick: an event nobody was told of keeps the ticks apart, unless
\* status_notify was overtaken by it.
THEOREM EventsAlwaysTick == Spec => []EventsTick
<1>1. Init => Types /\ EventsTick
  <2>1. Init => EventsTick
    BY DEF Init, EventsTick, Unused
  <2> QED BY <2>1, TypesInit
<1>2. Types /\ EventsTick /\ [Next]_vars => (Types /\ EventsTick)'
  BY TypesStep, EventsStep
<1> QED BY <1>1, <1>2, PTL DEF Spec

-----------------------------------------------------------------------------
(***************************************************************************)
(* Output before the notice.  The induction needs: exit in any field means *)
(* that the child is dead, and so writes no more; a closed descriptor was  *)
(* read to its end; and from the draining on there is nothing unread, for  *)
(* whoever is about to be reported as ended.                               *)
(***************************************************************************)
LetDown(p) == Has(p, {"broken", "late"})
Dead(p) == child[p].state = "dead"

NewsIsTrue(p) == /\ child[p].news = "exit" => Dead(p)
                 /\ child[p].news = "stop" => child[p].state = "stopped"
ExitIsDeath(p) == "exit" \in {proc[p].raw, proc[p].status, heard[p]} => Dead(p)
ClosedIsRead(p) ==
  ~proc[p].infd /\ child[p].state # "none" => Dead(p) /\ child[p].unread = 0
ReadBeforeTold(p) == heard[p] = "exit" => child[p].unread = 0
ReadBeforeReport(p) ==
  p = cur /\ \/ at = "report" /\ "exit" \in {proc[p].raw, proc[p].status}
             \/ at = "clear" /\ proc[p].status = "exit"
    => child[p].unread = 0
InOrder(p) ==
  LetDown(p) \/ (/\ ExitIsDeath(p) /\ ClosedIsRead(p)
                 /\ ReadBeforeTold(p) /\ ReadBeforeReport(p))
OutputInv == \A p \in Processes : NewsIsTrue(p) /\ InOrder(p)

\* What does not concern a process leaves it in order.
LEMMA NotConcerned ==
  ASSUME Types, [Next]_vars, NEW p \in Processes, InOrder(p),
         proc'[p] = proc[p], heard'[p] = heard[p],
         child'[p].state = child[p].state,
         child[p].unread = 0 => child'[p].unread = 0,
         \/ at' \notin {"report", "clear"} \/ p # cur'
         \/ at' = at /\ cur' = cur
  PROVE  InOrder(p)'
<1>1. LetDown(p) => LetDown(p)'
  BY ExcusesGrow DEF LetDown, Has
<1>2. Dead(p)' <=> Dead(p)
  BY DEF Dead
<1>3. ExitIsDeath(p) => ExitIsDeath(p)'
  BY <1>2 DEF ExitIsDeath
<1>4. ClosedIsRead(p) => ClosedIsRead(p)'
  BY <1>2 DEF ClosedIsRead
<1>5. ReadBeforeTold(p) => ReadBeforeTold(p)'
  BY DEF ReadBeforeTold
<1>6. ReadBeforeReport(p) => ReadBeforeReport(p)'
  BY DEF ReadBeforeReport
<1> QED BY <1>1, <1>3, <1>4, <1>5, <1>6 DEF InOrder

\* status_notify, as delete-process and continue-process call it, reads to the
\* end what it reports.
LEMMA NotifyAllInOrder ==
  ASSUME Types, [Next]_vars, at' \notin {"report", "clear"},
         NEW proc0 \in [Processes -> Object],
         NEW child0 \in [Processes -> Child],
         NEW gone \in SUBSET Processes,
         \A p \in gone : proc0[p].listed /\ proc0[p].event
                           /\ proc0[p].raw = "none" /\ proc0[p].status = "exit",
         NotifyAll(proc0, child0, gone),
         NEW p \in Processes, ~LetDown(p),
         "exit" \in {proc0[p].raw, proc0[p].status} => child0[p].state = "dead",
         heard[p] = "exit" => child0[p].state = "dead" /\ child0[p].unread = 0,
         ~proc0[p].infd /\ child0[p].state # "none"
           => child0[p].state = "dead" /\ child0[p].unread = 0
  PROVE  InOrder(p)'
<1> DEFINE New == {q \in Processes : proc0[q].listed /\ proc0[q].event}
           Now == [UpdateStatus(proc0[p]) EXCEPT !.event = FALSE]
<1>1. /\ child'[p].state = child0[p].state
      /\ child'[p].unread = IF p \in New /\ proc0[p].infd THEN 0
                                                        ELSE child0[p].unread
      /\ heard'[p] = IF p \in New /\ Tells(p, Now.status) THEN Now.status
                                                          ELSE heard[p]
      /\ proc'[p] \in IF p \in gone THEN {RemoveProcess(Now)}
                      ELSE IF p \in New THEN Buried(Now) ELSE {proc0[p]}
  BY DEF NotifyAll, Child
<1>2. /\ Now \in Object /\ Now.raw = "none" /\ Now.infd = proc0[p].infd
      /\ Now.status \in {proc0[p].raw, proc0[p].status}
      /\ p \in gone => Now.status = "exit"
  <2>1. proc0[p] \in Object
    OBVIOUS
  <2>2. LET o == UpdateStatus(proc0[p])
        IN /\ o \in Object /\ o.raw = "none" /\ o.infd = proc0[p].infd
           /\ o.status = IF proc0[p].raw = "none" THEN proc0[p].status
                                                 ELSE proc0[p].raw
    BY <2>1 DEF UpdateStatus, Object
  <2>3. LET o == UpdateStatus(proc0[p])
        IN /\ Now \in Object /\ Now.raw = o.raw /\ Now.infd = o.infd
           /\ Now.status = o.status
    BY <2>2 DEF Object
  <2> QED BY <2>2, <2>3
<1>3. /\ RemoveProcess(Now).raw = "none" /\ RemoveProcess(Now).status = Now.status
      /\ \A b \in Buried(Now) : /\ b.raw = "none" /\ b.status = Now.status
                                /\ ~b.infd => Now.status = "exit" \/ ~Now.infd
  <2> HIDE DEF Now
  <2> QED BY <1>2, BuriedFields
<1>4. p \in gone => p \in New
  OBVIOUS
<1> HIDE DEF New, Now
<1>5. Now.status = "exit" => Dead(p)'
  BY <1>1, <1>2 DEF Dead
<1>6. p \in New /\ Now.status = "exit" => child'[p].unread = 0
  BY <1>1, <1>2, <1>5 DEF Dead
<1>7. ExitIsDeath(p)'
  BY <1>1, <1>3, <1>4, <1>5 DEF ExitIsDeath, Dead
<1>8. ClosedIsRead(p)'
  BY <1>1, <1>2, <1>3, <1>4, <1>5, <1>6 DEF ClosedIsRead, Dead
<1>9. ReadBeforeTold(p)'
  BY <1>1, <1>6 DEF ReadBeforeTold
<1>10. ReadBeforeReport(p)'
  BY DEF ReadBeforeReport
<1> QED BY <1>7, <1>8, <1>9, <1>10 DEF InOrder

\* The news of a child is true, and every process stays in order.
LEMMA NewsStep ==
  ASSUME Types, [Next]_vars, NEW p \in Processes, NewsIsTrue(p)
  PROVE  NewsIsTrue(p)'
<1> USE DEF Types, TypeOK, NewsIsTrue, Dead, Child
<1>1. CASE child'[p].state = child[p].state /\ child'[p].news \in {"none", child[p].news}
  BY <1>1
<1>2. CASE UNCHANGED child
  BY <1>1, <1>2
<1>3. ASSUME NEW q \in Processes,
             Output(q) \/ Stop(q) \/ Resume(q) \/ Die(q) \/ SigChld(q)
             \/ StartProcess(q)
      PROVE  NewsIsTrue(p)'
  <2>1. CASE Output(q)
    BY <1>1, <2>1 DEF Output
  <2>2. CASE Stop(q)
    BY <2>2 DEF Stop
  <2>3. CASE Resume(q)
    BY <2>3 DEF Resume, Resumed
  <2>4. CASE Die(q)
    BY <2>4 DEF Die, Died
  <2>5. CASE SigChld(q)
    BY <1>1, <2>5 DEF SigChld
  <2>6. CASE StartProcess(q)
    BY <2>6 DEF StartProcess
  <2> QED BY <1>3, <2>1, <2>2, <2>3, <2>4, <2>5, <2>6
<1>4. ASSUME NEW child0 \in [Processes -> Child], NEW proc0, NEW gone,
             child0[p].news = "exit" => child0[p].state = "dead",
             child0[p].news = "stop" => child0[p].state = "stopped",
             child0[p].news = "stop" => child0[p].state = "stopped",
             NotifyAll(proc0, child0, gone)
      PROVE  NewsIsTrue(p)'
  BY <1>4 DEF NotifyAll
<1>5. ASSUME NEW q \in Processes, DeleteProcess(q) PROVE NewsIsTrue(p)'
  <2> DEFINE child0 == [child EXCEPT ![q] = IF @.state = "dead" THEN @ ELSE Died(@)]
  <2>1. child0 \in [Processes -> Child]
        /\ (child0[p].news = "exit" => child0[p].state = "dead")
        /\ (child0[p].news = "stop" => child0[p].state = "stopped")
    <3> HIDE DEF Child
    <3>1. child \in [Processes -> Child] /\ child[q] \in Child
      OBVIOUS
    <3>2. /\ Died(child[q]) \in Child /\ Died(child[q]).state = "dead"
          /\ Died(child[q]).news = "exit"
      BY <3>1, ChildOps
    <3> QED BY <3>1, <3>2
  <2> HIDE DEF child0
  <2>2. CASE proc[q].infd
    <3> DEFINE proc0 == [proc EXCEPT ![q] =
                          [Ticked(@) EXCEPT !.raw = "none", !.status = "exit"]]
    <3>1. NotifyAll(proc0, child0, {q})
      BY <1>5, <2>2, Zenon DEF DeleteProcess, child0
    <3> HIDE DEF proc0
    <3> QED BY <1>4, <2>1, <3>1
  <2>3. CASE ~proc[q].infd
    BY <1>2, <1>5, <2>3 DEF DeleteProcess
  <2> QED BY <2>2, <2>3
<1>6. ASSUME NEW q \in Processes, ContinueProcess(q) PROVE NewsIsTrue(p)'
  <2> DEFINE child0 == [child EXCEPT ![q] = Resumed(@)]
  <2>1. child0 \in [Processes -> Child]
        /\ (child0[p].news = "exit" => child0[p].state = "dead")
        /\ (child0[p].news = "stop" => child0[p].state = "stopped")
    <3> HIDE DEF Child
    <3>1. child \in [Processes -> Child] /\ child[q] \in Child
      OBVIOUS
    <3>2. /\ Resumed(child[q]) \in Child
          /\ child[q].state = "dead" => Resumed(child[q]).state = "dead"
          /\ Resumed(child[q]).news = "exit" => child[q].news = "exit"
          /\ Resumed(child[q]).news = "stop"
               => child[q].news = "stop" /\ child[q].state # "stopped"
      BY <3>1, ChildOps
    <3> QED BY <3>1, <3>2
  <2> HIDE DEF child0
  <2> DEFINE proc0 == [proc EXCEPT ![q] =
                        [Ticked(@) EXCEPT !.raw = "none", !.status = "run"]]
  <2>2. NotifyAll(proc0, child0, {})
    BY <1>6, Zenon DEF ContinueProcess, child0
  <2> HIDE DEF proc0
  <2> QED BY <1>4, <2>1, <2>2
<1>7. ASSUME NEW q \in Processes, NEW next, Read(q, next) PROVE NewsIsTrue(p)'
  BY <1>1, <1>7 DEF Read
<1>8. CASE Drain \/ \E q \in Processes : SelectReads(q)
  <2>1. Drain => Read(cur, "drain") /\ cur \in Processes
    BY DEF Drain, CurIsProcess
  <2> QED BY <1>7, <1>8, <2>1 DEF SelectReads
<1>9. CASE \/ BeginWait \/ KeyTyped \/ BeginNotify \/ GoOnToSelect
           \/ SelectTimesOut \/ Drained \/ ReadRawStatus \/ ClearRawStatus
           \/ NotifyEnd \/ FilterReturns \/ SentinelReturns \/ LispError
           \/ (\E q \in Processes : SendProcess(q) \/ NotifyNext(q))
           \/ UNCHANGED vars
  BY <1>2, <1>9 DEF BeginWait, KeyTyped, BeginNotify, GoOnToSelect,
     SelectTimesOut, Drained, ReadRawStatus, ClearRawStatus, NotifyEnd,
     FilterReturns, SentinelReturns, LispError, SendProcess, NotifyNext, vars
<1> QED BY <1>3, <1>5, <1>6, <1>8, <1>9 DEF Next, WaitLoop, StatusNotify

LEMMA OrderStep ==
  ASSUME Types, OutputInv, [Next]_vars, NEW p \in Processes
  PROVE  InOrder(p)'
<1> USE DEF Types, TypeOK, history, Emacs
<1>0. /\ InOrder(p) /\ NewsIsTrue(p)
      /\ LetDown(p) => LetDown(p)'
  BY ExcusesGrow DEF OutputInv, LetDown, Has
<1> SUFFICES ASSUME ~LetDown(p) PROVE InOrder(p)'
  BY <1>0 DEF InOrder
<1>a. ExitIsDeath(p) /\ ClosedIsRead(p) /\ ReadBeforeTold(p) /\ ReadBeforeReport(p)
  BY <1>0 DEF InOrder
<1>b. child[p] \in Child /\ proc[p] \in Object
  OBVIOUS
\* p itself runs: nothing said that it had ended, and its pipe is open.
<1>c. ASSUME child[p].state \in {"running", "stopped"},
             proc'[p] = proc[p], heard'[p] = heard[p],
             child'[p].state \in {"running", "stopped", "dead"}
      PROVE  InOrder(p)'
  <2>1. "exit" \notin {proc[p].raw, proc[p].status, heard[p]} /\ proc[p].infd
    BY <1>a, <1>c DEF ExitIsDeath, ClosedIsRead, Dead, Object
  <2> QED BY <1>c, <2>1 DEF InOrder, ExitIsDeath, ClosedIsRead, ReadBeforeTold,
                            ReadBeforeReport
\* Nothing about p changes, and it does not come to be reported.
<1>d. ASSUME proc'[p] = proc[p], heard'[p] = heard[p],
             child'[p].state = child[p].state,
             child[p].unread = 0 => child'[p].unread = 0,
             \/ at' \notin {"report", "clear"} \/ p # cur'
             \/ at' = at /\ cur' = cur
      PROVE  InOrder(p)'
  BY <1>0, <1>d, NotConcerned
<1>1. ASSUME NEW q \in Processes, Output(q) \/ Stop(q) \/ Resume(q) \/ Die(q)
      PROVE  InOrder(p)'
  <2>1. UNCHANGED <<proc, heard, at, cur>>
    BY <1>1 DEF Output, Stop, Resume, Die
  <2>2. CASE q = p
    <3>1. child[p].state \in {"running", "stopped"}
          /\ child'[p].state \in {"running", "stopped", "dead"}
      <4>1. CASE Output(p)
        BY <1>b, <4>1 DEF Output, Child
      <4>2. CASE Stop(p)
        BY <1>b, <4>2 DEF Stop, Child
      <4>3. CASE Resume(p)
        BY <1>b, <4>3 DEF Resume, Resumed, Child
      <4>4. CASE Die(p)
        BY <1>b, <4>4 DEF Die, Died, Child
      <4> QED BY <1>1, <2>2, <4>1, <4>2, <4>3, <4>4
    <3> QED BY <1>c, <2>1, <3>1
  <2>3. CASE q # p
    <3>1. child'[p] = child[p]
      BY <1>1, <2>3 DEF Output, Stop, Resume, Die
    <3> QED BY <1>d, <2>1, <3>1
  <2> QED BY <2>2, <2>3
<1>2. ASSUME NEW q \in Processes, SigChld(q) PROVE InOrder(p)'
  <2>1. /\ UNCHANGED <<cur, heard>> /\ at' \in {at, "top"}
        /\ child'[p].state = child[p].state /\ child'[p].unread = child[p].unread
    BY <1>2, <1>b DEF SigChld, Child
  <2>2. CASE q # p \/ ~proc[q].listed
    <3>1. proc'[p] = proc[p]
      BY <1>2, <2>2 DEF SigChld
    <3> QED BY <1>d, <2>1, <3>1
  <2>3. CASE q = p /\ proc[p].listed
    <3>1. /\ proc'[p].raw = child[p].news /\ proc'[p].status = proc[p].status
          /\ proc'[p].infd = proc[p].infd
      <4> DEFINE o == [Ticked(proc[p]) EXCEPT !.raw = child[p].news,
                                   !.mask = proc[p].mask /\ child[p].news # "exit"]
      <4>1. proc' = [proc EXCEPT ![p] = o]
        BY <1>2, <2>3, Zenon DEF SigChld
      <4>2. /\ o.raw = child[p].news /\ o.status = proc[p].status
            /\ o.infd = proc[p].infd
        BY <1>b DEF Ticked, Object
      <4> HIDE DEF o
      <4> QED BY <4>1, <4>2
    <3>2. CASE at = "report" /\ p = cur
      <4>1. Excuse(p, "late")
        BY <1>2, <2>3, <3>2 DEF SigChld, Draining
      <4> QED BY <4>1 DEF Excuse, LetDown, Has, InOrder
    <3>3. CASE ~(at = "report" /\ p = cur)
      <4>1. ExitIsDeath(p)'
        BY <1>0, <1>a, <2>1, <3>1 DEF ExitIsDeath, NewsIsTrue, Dead
      <4>2. ClosedIsRead(p)' /\ ReadBeforeTold(p)'
        BY <1>a, <2>1, <3>1 DEF ClosedIsRead, ReadBeforeTold, Dead
      <4>3. ReadBeforeReport(p)'
        BY <1>a, <2>1, <3>1, <3>3 DEF ReadBeforeReport
      <4> QED BY <4>1, <4>2, <4>3 DEF InOrder
    <3> QED BY <3>2, <3>3
  <2> QED BY <2>2, <2>3
<1>3. ASSUME NEW q \in Processes, StartProcess(q) PROVE InOrder(p)'
  <2>1. UNCHANGED <<at, cur, heard>> /\ at = "command"
    BY <1>3 DEF StartProcess
  <2>2. CASE q # p
    <3>1. proc'[p] = proc[p] /\ child'[p] = child[p]
      BY <1>3, <2>2 DEF StartProcess
    <3> QED BY <1>d, <2>1, <3>1
  <2>3. CASE q = p
    <3>1. heard[p] # "exit"
      BY <1>3, <1>a, <2>3 DEF StartProcess, ExitIsDeath, Dead
    <3>2. proc'[p].raw = "none" /\ proc'[p].status = "run" /\ proc'[p].infd
      BY <1>3, <2>3 DEF StartProcess, Unused
    <3> QED BY <2>1, <3>1, <3>2 DEF InOrder, ExitIsDeath, ClosedIsRead,
                                    ReadBeforeTold, ReadBeforeReport
  <2> QED BY <2>2, <2>3
<1>4. ASSUME NEW q \in Processes, DeleteProcess(q) PROVE InOrder(p)'
  <2>1. at' = at /\ cur' = cur /\ at \notin {"report", "clear"}
    BY <1>4 DEF DeleteProcess, InLisp
  <2> DEFINE proc0 == [proc EXCEPT ![q] =
                        [Ticked(@) EXCEPT !.raw = "none", !.status = "exit"]]
             child0 == [child EXCEPT ![q] = IF @.state = "dead" THEN @ ELSE Died(@)]
  <2>2. CASE proc[q].infd
    <3>1. \A r \in Processes :
            /\ [Ticked(proc[r]) EXCEPT !.raw = "none", !.status = "exit"] \in Object
            /\ Died(child[r]) \in Child
      <4> TAKE r \in Processes
      <4>1. proc[r] \in Object /\ child[r] \in Child
        OBVIOUS
      <4>2. [Ticked(proc[r]) EXCEPT !.raw = "none", !.status = "exit"] \in Object
        BY <4>1 DEF Ticked, Object
      <4>3. Died(child[r]) \in Child
        BY <4>1 DEF Died, Child
      <4> QED BY <4>2, <4>3
    <3>2. proc0 \in [Processes -> Object] /\ child0 \in [Processes -> Child]
      BY <3>1
    <3>3. /\ proc0[q].listed /\ proc0[q].event
          /\ proc0[q].raw = "none" /\ proc0[q].status = "exit"
          /\ proc0[q].infd = proc[q].infd
          /\ child0[q].state = "dead" /\ child0[q].unread = child[q].unread
      BY <1>4 DEF DeleteProcess, Ticked, Died, Object, Child
    <3>4. p # q => proc0[p] = proc[p] /\ child0[p] = child[p]
      OBVIOUS
    <3>5. NotifyAll(proc0, child0, {q})
      BY <1>4, <2>2 DEF DeleteProcess
    <3> HIDE DEF proc0, child0
    <3>6. /\ "exit" \in {proc0[p].raw, proc0[p].status} => child0[p].state = "dead"
          /\ heard[p] = "exit" => child0[p].state = "dead" /\ child0[p].unread = 0
          /\ ~proc0[p].infd /\ child0[p].state # "none"
               => child0[p].state = "dead" /\ child0[p].unread = 0
      BY <1>a, <2>2, <3>3, <3>4
         DEF ExitIsDeath, ClosedIsRead, ReadBeforeTold, Dead
    <3> QED BY <2>1, <3>2, <3>3, <3>5, <3>6, NotifyAllInOrder
  <2>3. CASE ~proc[q].infd
    <3>1. UNCHANGED <<child, heard>>
      BY <1>4, <2>3 DEF DeleteProcess
    <3>2. CASE q # p
      <4>1. proc'[p] = proc[p]
        BY <1>4, <2>3, <3>2 DEF DeleteProcess
      <4> QED BY <1>d, <2>1, <3>1, <4>1
    <3>3. CASE q = p
      <4>1. proc'[p] = RemoveProcess([proc[p] EXCEPT !.raw = "none"])
        BY <1>4, <2>3, <3>3 DEF DeleteProcess
      <4>2. proc'[p].raw = "none" /\ proc'[p].status = proc[p].status
        BY <1>b, <4>1 DEF RemoveProcess, DeactivateProcess, Object
      <4> QED BY <1>a, <2>1, <2>3, <3>1, <3>3, <4>2
              DEF InOrder, ExitIsDeath, ClosedIsRead, ReadBeforeTold,
                  ReadBeforeReport, Dead
    <3> QED BY <3>2, <3>3
  <2> QED BY <2>2, <2>3
<1>5. ASSUME NEW q \in Processes, ContinueProcess(q) PROVE InOrder(p)'
  <2>1. at' = at /\ at = "command"
    BY <1>5 DEF ContinueProcess
  <2> DEFINE proc0 == [proc EXCEPT ![q] =
                        [Ticked(@) EXCEPT !.raw = "none", !.status = "run"]]
             child0 == [child EXCEPT ![q] = Resumed(@)]
  <2>2. \A r \in Processes :
          /\ [Ticked(proc[r]) EXCEPT !.raw = "none", !.status = "run"] \in Object
          /\ Resumed(child[r]) \in Child
    <3> TAKE r \in Processes
    <3>1. proc[r] \in Object /\ child[r] \in Child
      OBVIOUS
    <3>2. [Ticked(proc[r]) EXCEPT !.raw = "none", !.status = "run"] \in Object
      BY <3>1 DEF Ticked, Object
    <3>3. Resumed(child[r]) \in Child
      BY <3>1 DEF Resumed, Child
    <3> QED BY <3>2, <3>3
  <2>3. proc0 \in [Processes -> Object] /\ child0 \in [Processes -> Child]
    BY <2>2
  <2>4. /\ proc0[q].raw = "none" /\ proc0[q].status = "run"
        /\ proc0[q].infd
        /\ child0[q].unread = child[q].unread
        /\ child[q].state = "dead" => child0[q].state = "dead"
    BY <1>5 DEF ContinueProcess, Ticked, Resumed, Object, Child
  <2>5. p # q => proc0[p] = proc[p] /\ child0[p] = child[p]
    OBVIOUS
  <2>6. NotifyAll(proc0, child0, {})
    BY <1>5 DEF ContinueProcess
  <2> HIDE DEF proc0, child0
  <2>7. /\ "exit" \in {proc0[p].raw, proc0[p].status} => child0[p].state = "dead"
        /\ heard[p] = "exit" => child0[p].state = "dead" /\ child0[p].unread = 0
        /\ ~proc0[p].infd /\ child0[p].state # "none"
             => child0[p].state = "dead" /\ child0[p].unread = 0
    BY <1>a, <2>4, <2>5 DEF ExitIsDeath, ClosedIsRead, ReadBeforeTold, Dead
  <2> QED BY <2>1, <2>3, <2>6, <2>7, NotifyAllInOrder
<1>6. ASSUME NEW q \in Processes, SendProcess(q) PROVE InOrder(p)'
  <2>1. UNCHANGED <<child, at, cur, heard>> /\ at = "command"
    BY <1>6 DEF SendProcess
  <2>2. CASE q # p
    <3>1. proc'[p] = proc[p]
      BY <1>6, <2>2 DEF SendProcess
    <3> QED BY <1>d, <2>1, <3>1
  <2>3. CASE q = p /\ UpdateStatus(proc[p]).status # "run"
    <3>1. proc'[p] = UpdateStatus(proc[p])
      BY <1>6, <2>3 DEF SendProcess
    <3>2. /\ proc'[p].raw = "none" /\ proc'[p].infd = proc[p].infd
          /\ proc'[p].status \in {proc[p].raw, proc[p].status}
      BY <1>b, <3>1 DEF UpdateStatus, Object
    <3> QED BY <1>a, <2>1, <3>2 DEF InOrder, ExitIsDeath, ClosedIsRead,
                                    ReadBeforeTold, ReadBeforeReport, Dead
  <2>4. CASE q = p /\ UpdateStatus(proc[p]).status = "run"
    <3>1. Excuse(p, "broken")
      BY <1>6, <2>4 DEF SendProcess
    <3> QED BY <3>1 DEF Excuse, LetDown, Has, InOrder
  <2> QED BY <2>2, <2>3, <2>4
<1>7. CASE \/ BeginWait \/ KeyTyped \/ BeginNotify \/ GoOnToSelect
           \/ SelectTimesOut \/ NotifyEnd \/ FilterReturns \/ SentinelReturns
           \/ LispError \/ UNCHANGED vars
  <2>1. UNCHANGED <<child, proc, heard>>
        /\ (at' \notin {"report", "clear"} \/ (at' = at /\ cur' = cur))
    BY <1>7 DEF BeginWait, KeyTyped, BeginNotify, GoOnToSelect, SelectTimesOut,
       NotifyEnd, FilterReturns, SentinelReturns, LispError, vars
  <2> QED BY <1>d, <2>1
<1>8. CASE Drain \/ \E q \in Processes : SelectReads(q)
  <2>1. PICK q \in Processes, next \in {"top", "drain"} : Read(q, next)
    BY <1>8 DEF Drain, SelectReads, CurIsProcess
  <2>2. UNCHANGED <<proc, heard>> /\ at' \in {"filter", "top", "drain"}
    BY <2>1 DEF Read
  <2>3. child'[p].state = child[p].state
        /\ (child[p].unread = 0 => child'[p].unread = 0)
    BY <1>b, <2>1 DEF Read, Child
  <2> QED BY <1>d, <2>2, <2>3
\* Whoever comes to be reported was read to the end, or has no pipe.
<1>9. ASSUME at' = "report", UNCHANGED <<child, heard>>,
             proc'[p].raw = proc[p].raw, proc'[p].status = proc[p].status,
             proc'[p].infd = proc[p].infd,
             p = cur' /\ proc[p].infd => child[p].unread = 0
      PROVE  InOrder(p)'
  <2>1. ReadBeforeReport(p)'
    BY <1>9, <1>a DEF ReadBeforeReport, ClosedIsRead, ExitIsDeath, Dead
  <2> QED BY <1>9, <1>a, <2>1 DEF InOrder, ExitIsDeath, ClosedIsRead,
                                  ReadBeforeTold, Dead
<1>10. ASSUME NEW q \in Processes, NotifyNext(q) PROVE InOrder(p)'
  <2>1. UNCHANGED <<child, heard>>
    BY <1>10 DEF NotifyNext
  <2>2. /\ proc'[p].raw = proc[p].raw /\ proc'[p].status = proc[p].status
        /\ proc'[p].infd = proc[p].infd
    BY <1>10, <1>b DEF NotifyNext, Object
  <2>3. CASE at' = "report"
    <3>1. p = cur' => ~proc[p].infd
      BY <1>10, <2>3 DEF NotifyNext
    <3> QED BY <1>9, <2>1, <2>2, <2>3, <3>1
  <2>4. CASE at' # "report"
    <3>1. at' # "clear"
      BY <1>10 DEF NotifyNext
    <3> QED BY <1>a, <2>1, <2>2, <2>4, <3>1
            DEF InOrder, ExitIsDeath, ClosedIsRead, ReadBeforeTold,
                ReadBeforeReport, Dead
  <2> QED BY <2>3, <2>4
<1>11. CASE Drained
  BY <1>9, <1>11 DEF Drained
<1>12. ASSUME NEW o \in Object, cur \in Processes, Report(o), UNCHANGED <<child, cur>>,
              o.raw \in {"none", proc[cur].raw}, o.status = proc[cur].status,
              o.infd = proc[cur].infd,
              cur = p /\ o.status = "exit" => child[p].unread = 0
       PROVE  InOrder(p)'
  <2>1. at' \in {"sentinel", "notify"}
    BY <1>12 DEF Report
  <2>2. CASE p # cur
    <3>1. proc'[p] = proc[p] /\ heard'[p] = heard[p]
      BY <1>12, <2>2 DEF Report, Told
    <3> QED BY <1>d, <1>12, <2>1, <3>1
  <2>3. CASE p = cur
    <3>1. heard'[p] \in {heard[p], o.status} /\ proc'[p] \in Buried(o)
      <4>1. \/ heard' = heard
            \/ heard' = [heard EXCEPT ![cur] = o.status]
        BY <1>12 DEF Report, Told
      <4>2. proc'[p] \in Buried(o)
        BY <1>12, <2>3 DEF Report
      <4> QED BY <2>3, <4>1, <4>2
    <3>2. \A b \in Buried(o) : /\ b.raw = o.raw /\ b.status = o.status
                               /\ ~b.infd => o.status = "exit" \/ ~o.infd
      <4> HIDE DEF Types
      <4> QED BY <1>12, BuriedFields
    <3>3. o.status = "exit" => Dead(p) /\ child[p].unread = 0
      BY <1>12, <1>a, <2>3 DEF ExitIsDeath
    <3>4. ExitIsDeath(p)' /\ ClosedIsRead(p)'
      <4>1. /\ UNCHANGED child
            /\ o.raw \in {"none", proc[p].raw} /\ o.status = proc[p].status
            /\ o.infd = proc[p].infd
        BY <1>12, <2>3
      <4>2. /\ proc'[p].raw = o.raw /\ proc'[p].status = o.status
            /\ ~proc'[p].infd => o.status = "exit" \/ ~o.infd
        BY <3>1, <3>2
      <4> HIDE DEF Types, TypeOK
      <4>3. ExitIsDeath(p)'
        BY <1>a, <3>1, <3>3, <4>1, <4>2 DEF ExitIsDeath, Dead
      <4>4. ClosedIsRead(p)'
        BY <1>a, <3>3, <4>1, <4>2 DEF ClosedIsRead, Dead
      <4> QED BY <4>3, <4>4
    <3>5. ReadBeforeTold(p)' /\ ReadBeforeReport(p)'
      BY <1>12, <1>a, <2>1, <2>3, <3>1, <3>3 DEF ReadBeforeTold, ReadBeforeReport
    <3> QED BY <3>4, <3>5 DEF InOrder
  <2> QED BY <2>2, <2>3
<1>13. CASE ReadRawStatus
  <2>1. cur \in Processes /\ proc[cur] \in Object /\ at = "report"
    BY <1>13 DEF ReadRawStatus, CurIsProcess
  <2>2. CASE proc[cur].raw = "none"
    BY <1>12, <1>13, <1>a, <2>1, <2>2 DEF ReadRawStatus, ReadBeforeReport
  <2>3. CASE proc[cur].raw # "none"
    <3>1. /\ at' = "clear" /\ UNCHANGED <<child, cur, heard>>
          /\ proc' = [proc EXCEPT ![cur].status = proc[cur].raw]
      BY <1>13, <2>3 DEF ReadRawStatus
    <3>2. CASE p # cur
      BY <1>d, <3>1, <3>2
    <3>3. CASE p = cur
      <4>1. /\ proc'[p].raw = proc[p].raw /\ proc'[p].status = proc[p].raw
            /\ proc'[p].infd = proc[p].infd
        BY <1>b, <3>1, <3>3 DEF Object
      <4> QED BY <1>a, <2>1, <3>1, <3>3, <4>1
              DEF InOrder, ExitIsDeath, ClosedIsRead, ReadBeforeTold,
                  ReadBeforeReport, Dead
    <3> QED BY <3>2, <3>3
  <2> QED BY <2>2, <2>3
<1>14. CASE ClearRawStatus
  <2> DEFINE o == [proc[cur] EXCEPT !.raw = "none"]
  <2>1. cur \in Processes /\ proc[cur] \in Object /\ at = "clear"
    BY <1>14 DEF ClearRawStatus, CurIsProcess
  <2>2. /\ o \in Object /\ o.raw = "none" /\ o.status = proc[cur].status
        /\ o.infd = proc[cur].infd
    BY <2>1 DEF Object
  <2>3. Report(o) /\ UNCHANGED <<child, cur>>
    BY <1>14 DEF ClearRawStatus
  <2> HIDE DEF o
  <2> QED BY <1>12, <1>a, <2>1, <2>2, <2>3 DEF ReadBeforeReport
<1> QED BY <1>1, <1>2, <1>3, <1>4, <1>5, <1>6, <1>7, <1>8, <1>10, <1>11, <1>13,
           <1>14
        DEF Next, WaitLoop, StatusNotify

\* OutputBeforeNotice: nobody hears that a process has ended before he has got
\* everything it wrote, but for the two ways in which status_notify and
\* send_process let it down.
THEOREM OutputComesFirst == Spec => []OutputBeforeNotice
<1>1. Init => Types /\ OutputInv
  <2>1. Init => OutputInv
    <3> SUFFICES ASSUME Init, NEW p \in Processes PROVE NewsIsTrue(p) /\ InOrder(p)
      BY DEF OutputInv
    <3>1. child[p].state = "none" /\ child[p].news = "none"
      BY DEF Init
    <3>2. proc[p].raw = "none" /\ proc[p].status = "run"
      BY DEF Init, Unused
    <3>3. heard[p] = "run" /\ at = "command"
      BY DEF Init
    <3> QED BY <3>1, <3>2, <3>3 DEF NewsIsTrue, InOrder, ExitIsDeath,
               ClosedIsRead, ReadBeforeTold, ReadBeforeReport
  <2> QED BY <2>1, TypesInit
<1>2. Types /\ OutputInv /\ [Next]_vars => (Types /\ OutputInv)'
  <2> SUFFICES ASSUME Types, OutputInv, [Next]_vars PROVE (Types /\ OutputInv)'
    OBVIOUS
  <2>1. \A p \in Processes : NewsIsTrue(p)' /\ InOrder(p)'
    BY NewsStep, OrderStep DEF OutputInv
  <2> QED BY <2>1, TypesStep DEF OutputInv
<1>3. OutputInv => OutputBeforeNotice
  BY DEF OutputInv, InOrder, LetDown, ReadBeforeTold, OutputBeforeNotice
<1> QED BY <1>1, <1>2, <1>3, PTL DEF Spec
-----------------------------------------------------------------------------
(***************************************************************************)
(* The end is announced once.  Three things make it so: nothing speaks of  *)
(* an end that is still to come; whoever was announced has been closed and *)
(* has no event, so that nothing comes to him again; and what is being     *)
(* dealt with has no event either, or its burial would leave one.          *)
(***************************************************************************)
Spent(p) == Has(p, {"midway", "late", "broken", "recursive"})
Handled(p) == p = cur /\ (at \in {"drain", "report", "clear"} \/ Draining)

Unheard(p) ==
  ~Dead(p) \/ (child[p].news = "exit" /\ proc[p].listed)
    => proc[p].raw # "exit" /\ proc[p].status # "exit" /\ deaths[p] = 0
Announced(p) ==
  deaths[p] # 0 => /\ deaths[p] = 1 /\ ~proc[p].infd /\ ~Handled(p)
                   /\ proc[p].listed => ~proc[p].event
Answered(p) ==
  Handled(p) => ~proc[p].event \/ (at = "clear" /\ proc[p].status # "exit")

Once(p) == Spent(p) \/ (Unheard(p) /\ Announced(p) /\ Answered(p))
OnceInv == \A p \in Processes : NewsIsTrue(p) /\ Once(p)

\* What does not concern a process changes nothing for it.
LEMMA OnceStays ==
  ASSUME NEW p \in Processes, Unheard(p), Announced(p), Answered(p),
         proc'[p] = proc[p], deaths'[p] = deaths[p],
         child'[p].state = child[p].state,
         child'[p].news \in {"none", child[p].news},
         Handled(p)' => Handled(p) /\ (at = "clear" => at' = "clear")
  PROVE  Once(p)'
<1>1. Unheard(p)'
  BY DEF Unheard, Dead
<1>2. Announced(p)'
  BY DEF Announced
<1>3. Answered(p)'
  BY DEF Answered
<1> QED BY <1>1, <1>2, <1>3 DEF Once

\* status_notify, as delete-process and continue-process call it, announces
\* those who have an event: they were not announced before.
LEMMA NotifyAllOnce ==
  ASSUME Types, at' = at, cur' = cur, back' = back,
         NEW proc0 \in [Processes -> Object],
         NEW child0 \in [Processes -> Child],
         NEW gone \in SUBSET Processes,
         NotifyAll(proc0, child0, gone),
         NEW p \in Processes,
         p \in gone => proc0[p].listed /\ proc0[p].event /\ child0[p].state = "dead",
         child0[p].state # "dead" \/ (child0[p].news = "exit" /\ p \notin gone
                                        /\ proc0[p].listed)
           => proc0[p].raw # "exit" /\ proc0[p].status # "exit" /\ deaths[p] = 0,
         deaths[p] # 0 => /\ deaths[p] = 1 /\ ~proc0[p].infd /\ ~Handled(p)
                          /\ proc0[p].listed => ~proc0[p].event,
         Handled(p) => ~proc0[p].event /\ at # "clear"
  PROVE  Once(p)'
<1> DEFINE New == {q \in Processes : proc0[q].listed /\ proc0[q].event}
           Now == [UpdateStatus(proc0[p]) EXCEPT !.event = FALSE]
<1>1. /\ child'[p].state = child0[p].state /\ child'[p].news = child0[p].news
      /\ deaths'[p] = IF p \in New /\ Tells(p, Now.status) /\ Now.status = "exit"
                      THEN Counted(deaths[p]) ELSE deaths[p]
      /\ proc'[p] \in IF p \in gone THEN {RemoveProcess(Now)}
                      ELSE IF p \in New THEN Buried(Now) ELSE {proc0[p]}
  BY DEF NotifyAll, Child
<1>2. /\ Now \in Object /\ Now.raw = "none" /\ Now.infd = proc0[p].infd
      /\ Now.listed = proc0[p].listed /\ ~Now.event
      /\ Now.status = IF proc0[p].raw = "none" THEN proc0[p].status
                                               ELSE proc0[p].raw
  <2>1. proc0[p] \in Object
    OBVIOUS
  <2>2. LET o == UpdateStatus(proc0[p])
        IN /\ o \in Object /\ o.raw = "none" /\ o.infd = proc0[p].infd
           /\ o.listed = proc0[p].listed
           /\ o.status = IF proc0[p].raw = "none" THEN proc0[p].status
                                                 ELSE proc0[p].raw
    BY <2>1 DEF UpdateStatus, Object
  <2>3. LET o == UpdateStatus(proc0[p])
        IN /\ Now \in Object /\ Now.raw = o.raw /\ Now.infd = o.infd
           /\ Now.status = o.status /\ Now.listed = o.listed /\ ~Now.event
    BY <2>2 DEF Object
  <2> QED BY <2>2, <2>3
<1>3. /\ LET r == RemoveProcess(Now)
         IN r.raw = "none" /\ r.status = Now.status /\ ~r.listed /\ ~r.infd /\ ~r.event
      /\ \A b \in Buried(Now) :
           /\ b.raw = "none" /\ b.status = Now.status /\ ~b.event
           /\ b.listed => Now.listed
           /\ Now.status = "exit" => ~b.infd
  <2> HIDE DEF Now
  <2> QED BY <1>2, BuriedFields
<1>4. /\ p \in gone => p \in New
      /\ p \in New <=> proc0[p].listed /\ proc0[p].event
      /\ Handled(p)' <=> Handled(p)
      /\ at' = "clear" <=> at = "clear"
  BY DEF Handled, Draining
<1>5. p \in New => deaths[p] = 0 /\ ~Handled(p)
  BY <1>4
<1> HIDE DEF New, Now
<1>6. p \in New => deaths'[p] \in {0, 1} /\ (deaths'[p] = 1 => Now.status = "exit")
  BY <1>1, <1>5 DEF Counted
<1>7. Unheard(p)'
  <2>1. CASE p \in gone
    BY <1>1, <1>3, <2>1 DEF Unheard, Dead
  <2>2. CASE p \notin gone /\ p \in New
    <3>1. /\ proc'[p].raw = "none" /\ proc'[p].status = Now.status
          /\ proc'[p].listed => proc0[p].listed
      BY <1>1, <1>2, <1>3, <2>2
    <3>2. child0[p].state # "dead" \/ (child0[p].news = "exit" /\ proc'[p].listed)
            => Now.status # "exit"
      BY <1>2, <2>2, <3>1
    <3> QED BY <1>1, <1>5, <1>6, <2>2, <3>1, <3>2 DEF Unheard, Dead
  <2>3. CASE p \notin gone /\ p \notin New
    BY <1>1, <2>3 DEF Unheard, Dead
  <2> QED BY <2>1, <2>2, <2>3
<1>8. Announced(p)'
  <2>1. CASE p \in New
    BY <1>1, <1>3, <1>4, <1>5, <1>6, <2>1 DEF Announced
  <2>2. CASE p \notin New
    BY <1>1, <1>4, <2>2 DEF Announced
  <2> QED BY <2>1, <2>2
<1>9. Answered(p)'
  BY <1>1, <1>4, <1>5 DEF Answered
<1> QED BY <1>7, <1>8, <1>9 DEF Once

LEMMA OnceStep ==
  ASSUME Types, OnceInv, [Next]_vars, NEW p \in Processes
  PROVE  Once(p)'
<1> USE DEF Types, TypeOK, history, Emacs
<1>0. /\ Once(p) /\ NewsIsTrue(p)
      /\ Spent(p) => Spent(p)'
  BY ExcusesGrow DEF OnceInv, Spent, Has
<1> SUFFICES ASSUME ~Spent(p) PROVE Once(p)'
  BY <1>0 DEF Once
<1>a. Unheard(p) /\ Announced(p) /\ Answered(p)
  BY <1>0 DEF Once
<1>b. child[p] \in Child /\ proc[p] \in Object
  OBVIOUS
\* p itself runs, and what it does is not yet known.
<1>c. ASSUME child[p].state \in {"running", "stopped"},
             UNCHANGED <<proc, deaths, at, cur, back>>
      PROVE  Once(p)'
  <2>1. proc[p].raw # "exit" /\ proc[p].status # "exit" /\ deaths[p] = 0
    BY <1>a, <1>c DEF Unheard, Dead
  <2>2. Handled(p)' <=> Handled(p)
    BY <1>c DEF Handled, Draining
  <2> QED BY <1>a, <1>c, <2>1, <2>2 DEF Once, Unheard, Announced, Answered
<1>d. ASSUME proc'[p] = proc[p], deaths'[p] = deaths[p],
             child'[p].state = child[p].state,
             child'[p].news \in {"none", child[p].news},
             Handled(p)' => Handled(p) /\ (at = "clear" => at' = "clear")
      PROVE  Once(p)'
  BY <1>a, <1>d, OnceStays
<1>1. ASSUME NEW q \in Processes, Output(q) \/ Stop(q) \/ Resume(q) \/ Die(q)
      PROVE  Once(p)'
  <2>1. UNCHANGED <<proc, deaths, at, cur, back>>
    BY <1>1 DEF Output, Stop, Resume, Die
  <2>2. CASE q = p
    <3>1. child[p].state \in {"running", "stopped"}
      BY <1>1, <2>2 DEF Output, Stop, Resume, Die
    <3> QED BY <1>c, <2>1, <3>1
  <2>3. CASE q # p
    <3>1. child'[p] = child[p]
      BY <1>1, <2>3 DEF Output, Stop, Resume, Die
    <3>2. (Handled(p)' <=> Handled(p)) /\ at' = at
      BY <2>1 DEF Handled, Draining
    <3> QED BY <1>d, <2>1, <3>1, <3>2
  <2> QED BY <2>2, <2>3
<1>2. ASSUME NEW q \in Processes, SigChld(q) PROVE Once(p)'
  <2>1. /\ UNCHANGED <<cur, back, deaths>>
        /\ at' \in {at, "top"} /\ (at # "select" => at' = at)
    BY <1>2 DEF SigChld
  <2>2. child'[p].state = child[p].state /\ child'[p].news \in {"none", child[p].news}
    BY <1>2, <1>b DEF SigChld, Child
  <2>3. (Handled(p)' <=> Handled(p)) /\ (at = "clear" => at' = "clear")
    BY <2>1 DEF Handled, Draining
  <2>4. CASE q # p \/ ~proc[q].listed
    <3>1. proc'[p] = proc[p]
      BY <1>2, <2>4 DEF SigChld
    <3> QED BY <1>d, <2>1, <2>2, <2>3, <3>1
  <2>5. CASE q = p /\ proc[p].listed
    <3>1. /\ proc'[p].raw = child[p].news /\ proc'[p].status = proc[p].status
          /\ child'[p].news = "none"
      <4> DEFINE o == [Ticked(proc[p]) EXCEPT !.raw = child[p].news,
                                   !.mask = proc[p].mask /\ child[p].news # "exit"]
      <4>1. proc' = [proc EXCEPT ![p] = o]
        BY <1>2, <2>5, Zenon DEF SigChld
      <4>2. /\ o.raw = child[p].news /\ o.status = proc[p].status
        BY <1>b DEF Ticked, Object
      <4>3. child'[p].news = "none"
        BY <1>2, <1>b, <2>5 DEF SigChld, Child
      <4> HIDE DEF o
      <4> QED BY <4>1, <4>2, <4>3
    <3>2. child[p].news \in {"stop", "exit"}
      BY <1>2, <1>b, <2>5 DEF SigChld, Child
    <3>3. deaths[p] = 0 /\ proc[p].status # "exit"
      BY <1>0, <1>a, <2>5, <3>2 DEF Unheard, NewsIsTrue, Dead
    <3>4. Unheard(p)' /\ Announced(p)'
      BY <1>0, <2>1, <2>2, <3>1, <3>2, <3>3 DEF Unheard, Announced, NewsIsTrue, Dead
    <3>5. CASE Handled(p) /\ at # "clear"
      <4>1. Excuse(p, "midway") \/ Excuse(p, "late")
        BY <1>2, <2>5, <3>5 DEF SigChld, Handled, Draining
      <4> QED BY <4>1 DEF Excuse, Spent, Has, Once
    <3>6. CASE ~Handled(p) \/ at = "clear"
      BY <2>3, <3>1, <3>3, <3>4, <3>6 DEF Once, Answered
    <3> QED BY <3>5, <3>6
  <2> QED BY <2>4, <2>5
<1>3. ASSUME NEW q \in Processes, StartProcess(q) PROVE Once(p)'
  <2>1. UNCHANGED <<at, cur, back, deaths>> /\ at = "command"
    BY <1>3 DEF StartProcess
  <2>2. ~Handled(p)'
    BY <2>1 DEF Handled, Draining
  <2>3. CASE q # p
    <3>1. proc'[p] = proc[p] /\ child'[p] = child[p]
      BY <1>3, <2>3 DEF StartProcess
    <3> QED BY <1>d, <2>1, <2>2, <3>1
  <2>4. CASE q = p
    <3>1. deaths[p] = 0
      BY <1>3, <1>a, <2>4 DEF StartProcess, Unheard, Dead
    <3>2. proc'[p].raw = "none" /\ proc'[p].status = "run"
      BY <1>3, <2>4 DEF StartProcess, Unused
    <3> QED BY <2>1, <2>2, <3>1, <3>2 DEF Once, Unheard, Announced, Answered
  <2> QED BY <2>3, <2>4
<1>4. ASSUME NEW q \in Processes, DeleteProcess(q) PROVE Once(p)'
  <2>1. at' = at /\ cur' = cur /\ back' = back /\ at \notin {"drain", "report", "clear"}
    BY <1>4 DEF DeleteProcess, InLisp
  <2>2. (Handled(p)' <=> Handled(p)) /\ at' = at
    BY <2>1 DEF Handled, Draining
  <2>3. CASE p = q /\ Handled(p)
    <3>1. excused' = excused \cup {<<p, "recursive">>}
      BY <1>4, <2>1, <2>3 DEF DeleteProcess, Handled
    <3> QED BY <3>1 DEF Spent, Has, Once
  <2>4. CASE ~(p = q /\ Handled(p)) /\ proc[q].infd
    <3> DEFINE proc0 == [proc EXCEPT ![q] =
                        [Ticked(@) EXCEPT !.raw = "none", !.status = "exit"]]
               child0 == [child EXCEPT ![q] = IF @.state = "dead" THEN @ ELSE Died(@)]
    <3>1. \A r \in Processes :
            /\ [Ticked(proc[r]) EXCEPT !.raw = "none", !.status = "exit"] \in Object
            /\ Died(child[r]) \in Child
      <4> TAKE r \in Processes
      <4>1. proc[r] \in Object /\ child[r] \in Child
        OBVIOUS
      <4>2. [Ticked(proc[r]) EXCEPT !.raw = "none", !.status = "exit"] \in Object
        BY <4>1 DEF Ticked, Object
      <4>3. Died(child[r]) \in Child
        BY <4>1 DEF Died, Child
      <4> QED BY <4>2, <4>3
    <3>2. proc0 \in [Processes -> Object] /\ child0 \in [Processes -> Child]
      BY <3>1
    <3>3. proc0[q].listed /\ proc0[q].event /\ child0[q].state = "dead"
      BY <1>4 DEF DeleteProcess, Ticked, Died, Object, Child
    <3>4. p # q => proc0[p] = proc[p] /\ child0[p] = child[p]
      OBVIOUS
    <3>5. NotifyAll(proc0, child0, {q})
      BY <1>4, <2>4 DEF DeleteProcess
    <3> HIDE DEF proc0, child0
    <3>6. p = q => deaths[p] = 0 /\ ~Handled(p)
      BY <1>a, <2>4 DEF Announced
    <3>7. /\ child0[p].state # "dead" \/ (child0[p].news = "exit" /\ p \notin {q}
                                        /\ proc0[p].listed)
               => proc0[p].raw # "exit" /\ proc0[p].status # "exit" /\ deaths[p] = 0
          /\ deaths[p] # 0 => /\ deaths[p] = 1 /\ ~proc0[p].infd /\ ~Handled(p)
                              /\ proc0[p].listed => ~proc0[p].event
          /\ Handled(p) => ~proc0[p].event /\ at # "clear"
      BY <1>a, <2>1, <3>3, <3>4, <3>6 DEF Unheard, Announced, Answered, Dead
    <3> QED BY <2>1, <3>2, <3>3, <3>5, <3>7, NotifyAllOnce
  <2>5. CASE ~(p = q /\ Handled(p)) /\ ~proc[q].infd
    <3>1. UNCHANGED <<child, deaths>>
      BY <1>4, <2>5 DEF DeleteProcess
    <3>2. CASE q # p
      <4>1. proc'[p] = proc[p]
        BY <1>4, <2>5, <3>2 DEF DeleteProcess
      <4> QED BY <1>d, <2>2, <3>1, <4>1
    <3>3. CASE q = p
      <4>1. proc'[p] = RemoveProcess([proc[p] EXCEPT !.raw = "none"])
        BY <1>4, <2>5, <3>3 DEF DeleteProcess
      <4>2. /\ proc'[p].raw = "none" /\ proc'[p].status = proc[p].status
            /\ ~proc'[p].listed /\ ~proc'[p].infd
        BY <1>b, <4>1 DEF RemoveProcess, DeactivateProcess, Object
      <4> QED BY <1>a, <2>2, <2>5, <3>1, <3>3, <4>2
              DEF Once, Unheard, Announced, Answered, Dead
    <3> QED BY <3>2, <3>3
  <2> QED BY <2>3, <2>4, <2>5
<1>5. ASSUME NEW q \in Processes, ContinueProcess(q) PROVE Once(p)'
  <2>1. at' = at /\ cur' = cur /\ back' = back /\ at = "command"
    BY <1>5 DEF ContinueProcess
  <2> DEFINE proc0 == [proc EXCEPT ![q] =
                        [Ticked(@) EXCEPT !.raw = "none", !.status = "run"]]
             child0 == [child EXCEPT ![q] = Resumed(@)]
  <2>2. \A r \in Processes :
          /\ [Ticked(proc[r]) EXCEPT !.raw = "none", !.status = "run"] \in Object
          /\ Resumed(child[r]) \in Child
    <3> TAKE r \in Processes
    <3>1. proc[r] \in Object /\ child[r] \in Child
      OBVIOUS
    <3>2. [Ticked(proc[r]) EXCEPT !.raw = "none", !.status = "run"] \in Object
      BY <3>1 DEF Ticked, Object
    <3>3. Resumed(child[r]) \in Child
      BY <3>1 DEF Resumed, Child
    <3> QED BY <3>2, <3>3
  <2>3. proc0 \in [Processes -> Object] /\ child0 \in [Processes -> Child]
    BY <2>2
  <2>4. proc0[q].raw = "none" /\ proc0[q].status = "run"
    BY <1>5 DEF Ticked, Object
  <2>5. p # q => proc0[p] = proc[p] /\ child0[p] = child[p]
    OBVIOUS
  <2>6. NotifyAll(proc0, child0, {})
    BY <1>5 DEF ContinueProcess
  <2> HIDE DEF proc0, child0
  <2>7. ~Handled(p) /\ (p = q => deaths[p] = 0)
    BY <1>5, <1>a, <2>1 DEF ContinueProcess, Handled, Draining, Announced
  <2>8. /\ child0[p].state # "dead" \/ (child0[p].news = "exit" /\ p \notin {}
                                      /\ proc0[p].listed)
             => proc0[p].raw # "exit" /\ proc0[p].status # "exit" /\ deaths[p] = 0
        /\ deaths[p] # 0 => /\ deaths[p] = 1 /\ ~proc0[p].infd /\ ~Handled(p)
                            /\ proc0[p].listed => ~proc0[p].event
    BY <1>a, <2>4, <2>5, <2>7 DEF Unheard, Announced, Dead
  <2> QED BY <2>1, <2>3, <2>6, <2>7, <2>8, NotifyAllOnce
<1>6. ASSUME NEW q \in Processes, SendProcess(q) PROVE Once(p)'
  <2>1. UNCHANGED <<child, at, cur, back, deaths>> /\ at = "command"
    BY <1>6 DEF SendProcess
  <2>2. ~Handled(p)'
    BY <2>1 DEF Handled, Draining
  <2>3. CASE q # p
    <3>1. proc'[p] = proc[p]
      BY <1>6, <2>3 DEF SendProcess
    <3> QED BY <1>d, <2>1, <2>2, <3>1
  <2>4. CASE q = p /\ UpdateStatus(proc[p]).status # "run"
    <3>1. proc'[p] = UpdateStatus(proc[p])
      BY <1>6, <2>4 DEF SendProcess
    <3>2. /\ proc'[p].raw = "none" /\ proc'[p].infd = proc[p].infd
          /\ proc'[p].listed = proc[p].listed /\ proc'[p].event = proc[p].event
          /\ proc'[p].status \in {proc[p].raw, proc[p].status}
      BY <1>b, <3>1 DEF UpdateStatus, Object
    <3> QED BY <1>a, <2>1, <2>2, <3>2 DEF Once, Unheard, Announced, Answered, Dead
  <2>5. CASE q = p /\ UpdateStatus(proc[p]).status = "run"
    <3>1. Excuse(p, "broken")
      BY <1>6, <2>5 DEF SendProcess
    <3> QED BY <3>1 DEF Excuse, Spent, Has, Once
  <2> QED BY <2>3, <2>4, <2>5
<1>7. CASE \/ BeginWait \/ KeyTyped \/ BeginNotify \/ GoOnToSelect
           \/ SelectTimesOut \/ NotifyEnd \/ FilterReturns \/ SentinelReturns
           \/ LispError \/ Drained \/ UNCHANGED vars
  <2>1. UNCHANGED <<child, proc, deaths>>
    BY <1>7 DEF BeginWait, KeyTyped, BeginNotify, GoOnToSelect, SelectTimesOut,
       NotifyEnd, FilterReturns, SentinelReturns, LispError, Drained, vars
  <2>2. Handled(p)' => Handled(p) /\ (at = "clear" => at' = "clear")
    <3>1. CASE BeginWait \/ KeyTyped \/ BeginNotify \/ GoOnToSelect \/ SelectTimesOut
      BY <3>1 DEF BeginWait, KeyTyped, BeginNotify, GoOnToSelect, SelectTimesOut,
                  Handled, Draining
    <3>2. CASE NotifyEnd \/ SentinelReturns \/ LispError
      BY <3>2 DEF NotifyEnd, SentinelReturns, LispError, Handled, Draining
    <3>3. CASE FilterReturns \/ Drained \/ UNCHANGED vars
      BY <3>3 DEF FilterReturns, Drained, vars, Handled, Draining
    <3> QED BY <1>7, <3>1, <3>2, <3>3
  <2> QED BY <1>d, <2>1, <2>2
<1>8. ASSUME NEW q \in Processes, NEW next \in {"top", "drain"}, Read(q, next),
             next = "drain" => at = "drain", at # "clear"
      PROVE  Once(p)'
  <2>1. UNCHANGED <<proc, deaths>> /\ cur' = cur
    BY <1>8 DEF Read
  <2>2. child'[p].state = child[p].state /\ child'[p].news = child[p].news
    BY <1>b, <1>8 DEF Read, Child
  <2>3. Handled(p)' => Handled(p)
    BY <1>8 DEF Read, Handled, Draining
  <2> QED BY <1>d, <1>8, <2>1, <2>2, <2>3
<1>9. CASE Drain \/ \E q \in Processes : SelectReads(q)
  <2>1. CASE Drain
    BY <1>8, <2>1 DEF Drain, CurIsProcess
  <2>2. ASSUME NEW q \in Processes, SelectReads(q) PROVE Once(p)'
    BY <1>8, <2>2 DEF SelectReads
  <2> QED BY <1>9, <2>1, <2>2
<1>10. ASSUME NEW q \in Processes, NotifyNext(q) PROVE Once(p)'
  <2>1. UNCHANGED <<child, deaths, back>> /\ at = "notify"
    BY <1>10 DEF NotifyNext
  <2>2. CASE q = p /\ proc[p].listed /\ proc[p].event
    <3>1. /\ ~proc'[p].event /\ proc'[p].raw = proc[p].raw
          /\ proc'[p].status = proc[p].status /\ proc'[p].listed = proc[p].listed
      <4>1. proc' = [proc EXCEPT ![p].event = FALSE]
        BY <1>10, <2>2, Zenon DEF NotifyNext
      <4> QED BY <1>b, <4>1 DEF Object
    <3>2. deaths[p] = 0
      BY <1>a, <2>2 DEF Announced
    <3> QED BY <1>a, <2>1, <3>1, <3>2 DEF Once, Unheard, Announced, Answered, Dead
  <2>3. CASE ~(q = p /\ proc[p].listed /\ proc[p].event)
    <3>1. proc'[p] = proc[p]
      BY <1>10, <2>3 DEF NotifyNext
    <3>2. ~Handled(p)'
      BY <1>10, <2>3 DEF NotifyNext, Handled, Draining
    <3> QED BY <1>d, <2>1, <3>1, <3>2
  <2> QED BY <2>2, <2>3
<1>11. ASSUME NEW o \in Object, cur \in Processes, Report(o), UNCHANGED <<child, cur>>,
              o.raw = "none", o.status = proc[cur].status,
              o.listed = proc[cur].listed, o.event = proc[cur].event,
              cur = p => Handled(p) /\ (o.status = "exit" => ~o.event)
       PROVE  Once(p)'
  <2>1. at' \in {"sentinel", "notify"}
    BY <1>11 DEF Report
  <2>2. ~Handled(p)'
    BY <2>1 DEF Handled, Draining
  <2>3. CASE p # cur
    <3>1. proc'[p] = proc[p] /\ deaths'[p] = deaths[p]
      BY <1>11, <2>3 DEF Report, Told
    <3> QED BY <1>d, <1>11, <2>2, <3>1
  <2>4. CASE p = cur
    <3>1. /\ \/ deaths'[p] = deaths[p]
             \/ o.status = "exit" /\ deaths'[p] = Counted(deaths[p])
          /\ proc'[p] \in Buried(o)
      BY <1>11, <2>4 DEF Report, Told
    <3>2. \A b \in Buried(o) : /\ b.raw = "none" /\ b.status = o.status
                               /\ b.listed => o.listed
                               /\ b.event = o.event
                               /\ o.status = "exit" => ~b.infd
      <4> HIDE DEF Types
      <4> QED BY <1>11, BuriedFields
    <3>3. deaths[p] = 0
      BY <1>11, <1>a, <2>4 DEF Announced
    <3>4. Counted(deaths[p]) = 1
      BY <3>3 DEF Counted
    <3>5. Unheard(p)'
      BY <1>11, <1>a, <2>4, <3>1, <3>2, <3>3 DEF Unheard, Dead
    <3>6. Announced(p)' /\ Answered(p)'
      BY <1>11, <2>2, <2>4, <3>1, <3>2, <3>3, <3>4 DEF Announced, Answered
    <3> QED BY <3>5, <3>6 DEF Once
  <2> QED BY <2>3, <2>4
<1>12. CASE ReadRawStatus
  <2>1. cur \in Processes /\ proc[cur] \in Object /\ at = "report"
        /\ (cur = p => Handled(p))
    BY <1>12 DEF ReadRawStatus, CurIsProcess, Handled
  <2>2. CASE proc[cur].raw = "none"
    <3>1. cur = p => ~proc[cur].event
      BY <1>a, <2>1 DEF Answered
    <3>2. Report(proc[cur]) /\ UNCHANGED <<child, cur>>
      BY <1>12, <2>2 DEF ReadRawStatus
    <3> QED BY <1>11, <2>1, <2>2, <3>1, <3>2
  <2>3. CASE proc[cur].raw # "none"
    <3>1. /\ at' = "clear" /\ UNCHANGED <<child, cur, deaths>>
          /\ proc' = [proc EXCEPT ![cur].status = proc[cur].raw]
      BY <1>12, <2>3 DEF ReadRawStatus
    <3>2. CASE p # cur
      <4>1. ~Handled(p)'
        BY <3>1, <3>2 DEF Handled
      <4> QED BY <1>d, <3>1, <3>2, <4>1
    <3>3. CASE p = cur
      <4>1. /\ proc'[p].raw = proc[p].raw /\ proc'[p].status = proc[p].raw
            /\ proc'[p].listed = proc[p].listed /\ proc'[p].event = proc[p].event
        BY <1>b, <3>1, <3>3 DEF Object
      <4>2. Handled(p) /\ deaths[p] = 0 /\ ~proc[p].event
        BY <1>a, <2>1, <3>3 DEF Announced, Answered
      <4> QED BY <1>a, <3>1, <4>1, <4>2
              DEF Once, Unheard, Announced, Answered, Dead
    <3> QED BY <3>2, <3>3
  <2> QED BY <2>2, <2>3
<1>13. CASE ClearRawStatus
  <2> DEFINE o == [proc[cur] EXCEPT !.raw = "none"]
  <2>1. cur \in Processes /\ proc[cur] \in Object /\ at = "clear"
        /\ (cur = p => Handled(p))
    BY <1>13 DEF ClearRawStatus, CurIsProcess, Handled
  <2>2. /\ o \in Object /\ o.raw = "none" /\ o.status = proc[cur].status
        /\ o.listed = proc[cur].listed /\ o.event = proc[cur].event
    BY <2>1 DEF Object
  <2>3. Report(o) /\ UNCHANGED <<child, cur>>
    BY <1>13 DEF ClearRawStatus
  <2> HIDE DEF o
  <2>4. cur = p => (o.status = "exit" => ~o.event)
    BY <1>a, <2>1, <2>2 DEF Answered
  <2> QED BY <1>11, <2>1, <2>2, <2>3, <2>4
<1> QED BY <1>1, <1>2, <1>3, <1>4, <1>5, <1>6, <1>7, <1>9, <1>10, <1>12, <1>13
        DEF Next, WaitLoop, StatusNotify

\* AnnouncedOnce: no sentinel hears twice of the same end, but for the four
\* ways in which a signal, a failed write or a filter that deletes its own
\* process makes it so.
THEOREM EndAnnouncedOnce == Spec => []AnnouncedOnce
<1>1. Init => Types /\ OnceInv
  <2>1. Init => OnceInv
    <3> SUFFICES ASSUME Init, NEW p \in Processes PROVE NewsIsTrue(p) /\ Once(p)
      BY DEF OnceInv
    <3>1. child[p].state = "none" /\ child[p].news = "none"
      BY DEF Init
    <3>2. /\ proc[p].raw = "none" /\ proc[p].status = "run"
          /\ deaths[p] = 0 /\ at = "command"
      BY DEF Init, Unused
    <3> QED BY <3>1, <3>2 DEF NewsIsTrue, Once, Unheard, Announced, Answered,
               Handled, Draining
  <2> QED BY <2>1, TypesInit
<1>2. Types /\ OnceInv /\ [Next]_vars => (Types /\ OnceInv)'
  <2> SUFFICES ASSUME Types, OnceInv, [Next]_vars PROVE (Types /\ OnceInv)'
    OBVIOUS
  <2>1. \A p \in Processes : NewsIsTrue(p)' /\ Once(p)'
    BY NewsStep, OnceStep DEF OnceInv
  <2> QED BY <2>1, TypesStep DEF OnceInv
<1>3. OnceInv => AnnouncedOnce
  <2> SUFFICES ASSUME OnceInv, NEW p \in Processes, ~Spent(p) PROVE deaths[p] <= 1
    BY DEF AnnouncedOnce, Spent
  <2>1. deaths[p] = 0 \/ deaths[p] = 1
    BY DEF OnceInv, Once, Announced
  <2> QED BY <2>1
<1> QED BY <1>1, <1>2, <1>3, PTL DEF Spec
=============================================================================
