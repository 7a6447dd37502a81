--------------------------- MODULE SharedFileProofs ---------------------------
(***************************************************************************)
(* Proofs about SharedFile, for any number of editors.  As long as no race *)
(* is lost, the lock file is that of the editor which thinks so (LockInv). *)
(* A modified buffer has its file locked, or its user was told (ToldInv);  *)
(* an unmodified one has the text of the file, and a save loses nothing,   *)
(* unless a race was lost or a user warned (FileInv).                      *)
(***************************************************************************)
EXTENDS SharedFile, TLAPS

(***************************************************************************)
(* The proof needs to know which fields an editor has, not their values.   *)
(***************************************************************************)
Fields == {"at", "task", "fd", "title", "text", "modified", "match", "failed",
           "overtaken"}

Types == /\ ed = [e \in Editors |-> ed[e]]
         /\ \A e \in Editors : DOMAIN ed[e] = Fields

(***************************************************************************)
(* LockedForUs made inductive.  It is about editors between two commands;  *)
(* inside one, an editor that is not making or giving back a lock knows    *)
(* about the lock as well.  While one writes its pid into the lock file    *)
(* that it has created, the file is empty and still linked, and no other   *)
(* does so: or it would write over the first one's pid.                    *)
(***************************************************************************)
Settled == {"idle", "threat", "lock", "look", "break", "ask", "steal", "attack",
            "overwrite", "let go", "locked", "write", "stat"}

Knows(e) ==
  /\ ed[e].at \in Settled => (ed[e].title = "taken" <=> lock = e)
  /\ ed[e].at = "closed" => (ed[e].title = "left" <=> lock = e)
  /\ ed[e].at \in {"ask", "unlocked"} => lock # e
  /\ ed[e].at = "write pid" => lock = Empty /\ ed[e].fd = "linked"

OneWriter ==
  \A e, f \in Editors : ed[e].at = "write pid" /\ ed[f].at = "write pid" => e = f

LockInv == Types /\ (~raced => OneWriter /\ \A e \in Editors : Knows(e))

\* What the others know depends on three of their fields.
OthersStay(e) ==
  \A f \in Editors \ {e} : /\ ed'[f].at = ed[f].at
                           /\ ed'[f].title = ed[f].title
                           /\ ed'[f].fd = ed[f].fd

\* A step of one editor that leaves the lock file alone can only disturb what
\* that editor knows.
LEMMA LockStays ==
  ASSUME LockInv, NEW e \in Editors, Types',
         UNCHANGED lock, raced => raced', OthersStay(e),
         ed'[e].at # "write pid",
         ~raced /\ Knows(e) => Knows(e)'
  PROVE  LockInv'
<1> SUFFICES ASSUME ~raced' PROVE OneWriter' /\ \A f \in Editors : Knows(f)'
  BY DEF LockInv
<1>1. ~raced /\ OneWriter /\ \A f \in Editors : Knows(f)
  BY DEF LockInv
<1>2. OneWriter'
  BY <1>1 DEF OneWriter, OthersStay
<1>3. ASSUME NEW f \in Editors PROVE Knows(f)'
  <2>1. CASE f = e
    BY <1>1, <2>1
  <2>2. CASE f # e
    BY <1>1, <2>2 DEF Knows, OthersStay
  <2> QED BY <2>1, <2>2
<1> QED BY <1>2, <1>3

\* A write to the file changes nothing that an editor knows of the lock.
LEMMA OutOfDateKeeps ==
  ASSUME Types, NEW e \in Editors
  PROVE  /\ DOMAIN OutOfDate(ed, e) = Editors
         /\ \A f \in Editors : /\ DOMAIN OutOfDate(ed, e)[f] = Fields
                                /\ OutOfDate(ed, e)[f].at = ed[f].at
                                /\ OutOfDate(ed, e)[f].title = ed[f].title
                                /\ OutOfDate(ed, e)[f].fd = ed[f].fd
BY DEF Types, Fields, OutOfDate

\* Most steps are of that kind.
LEMMA QuietStep ==
  ASSUME LockInv, NEW e \in Editors, Types',
         \/ Edit(e) \/ WriteRegion(e) \/ Supersede(e) \/ Look(e) \/ Ask(e)
         \/ BeginSteal(e) \/ LetGo(e) \/ Modify(e) \/ Truncate(e) \/ Write(e)
         \/ Stat(e) \/ Visit(e) \/ Read(e) \/ KillBuffer(e) \/ ShutDown(e)
         \/ Crash(e) \/ BeginUnlock(e) \/ CheckOwn(e) \/ Conclude(e)
  PROVE  LockInv'
<1>t. Types
  BY DEF LockInv
<1>1. CASE Edit(e)
  <2>1. UNCHANGED lock /\ (raced => raced') /\ OthersStay(e)
    BY <1>1, <1>t DEF Types, Fields, OthersStay, Edit, LockFile, At, Undisturbed
  <2>2. ed[e].at = "idle" /\ ed'[e].at \in {"lock", "threat"} /\ ed'[e].title = ed[e].title
    BY <1>1, <1>t DEF Types, Fields, Edit, LockFile, At, Undisturbed
  <2> QED BY <2>1, <2>2, LockStays DEF Knows, Settled
<1>2. CASE WriteRegion(e)
  <2>1. UNCHANGED lock /\ (raced => raced') /\ OthersStay(e)
    BY <1>2, <1>t DEF Types, Fields, OthersStay, WriteRegion, LockFile, At, Undisturbed
  <2>2. ed[e].at = "idle" /\ ed'[e].at \in {"lock", "threat"} /\ ed'[e].title = ed[e].title
    BY <1>2, <1>t DEF Types, Fields, WriteRegion, LockFile, At, Undisturbed
  <2> QED BY <2>1, <2>2, LockStays DEF Knows, Settled
<1>3. CASE Supersede(e)
  <2>1. UNCHANGED lock /\ (raced => raced') /\ OthersStay(e)
    BY <1>3, <1>t DEF Types, Fields, OthersStay, Supersede, Go, Done, At, Undisturbed
  <2>2. ed[e].at = "threat" /\ ed'[e].at \in {"lock", "idle"} /\ ed'[e].title = ed[e].title
    <3>1. CASE Go(e, "lock")
      BY <1>3, <1>t, <3>1 DEF Types, Fields, Supersede, At, Undisturbed, Go
    <3>2. CASE ed' = [ed EXCEPT ![e] = Done(e, @)]
      BY <1>3, <1>t, <3>2 DEF Types, Fields, Supersede, At, Undisturbed, Done
    <3> QED BY <1>3, <3>1, <3>2 DEF Supersede
  <2> QED BY <2>1, <2>2, LockStays DEF Knows, Settled
<1>4. CASE Look(e)
  <2>1. UNCHANGED lock /\ (raced => raced') /\ OthersStay(e)
    BY <1>4, <1>t DEF Types, Fields, OthersStay, Look, Go, At, Undisturbed
  <2>2. ed[e].at = "look"
           /\ \/ ed'[e].at \in {"lock", "break"} /\ ed'[e].title = ed[e].title
              \/ lock # e /\ ed'[e].at = "ask" /\ ed'[e].title = ed[e].title
              \/ lock = e /\ ed'[e].at = "locked" /\ ed'[e].title = "taken"
    <3>1. CASE lock = Free /\ Go(e, "lock")
      BY <1>4, <1>t, <3>1 DEF Types, Fields, Look, At, Undisturbed, Go
    <3>2. CASE lock = e /\ ed' = [ed EXCEPT ![e].title = "taken", ![e].at = "locked"]
      BY <1>4, <1>t, <3>2 DEF Types, Fields, Look, At, Undisturbed
    <3>3. CASE lock \in Editors \ {e} /\ Alive(lock) /\ Go(e, "ask")
      BY <1>4, <1>t, <3>3 DEF Types, Fields, Look, At, Undisturbed, Go
    <3>4. CASE Go(e, "break")
      BY <1>4, <1>t, <3>4 DEF Types, Fields, Look, At, Undisturbed, Go
    <3> QED BY <1>4, <3>1, <3>2, <3>3, <3>4 DEF Look
  <2> QED BY <2>1, <2>2, LockStays DEF Knows, Settled
<1>5. CASE Ask(e)
  <2>1. UNCHANGED lock /\ (raced => raced') /\ OthersStay(e)
    BY <1>5, <1>t DEF Types, Fields, OthersStay, Ask, Go, Done, At, Undisturbed
  <2>2. ed[e].at = "ask"
           /\ \/ ed'[e].at \in {"steal", "idle"} /\ ed'[e].title = ed[e].title
              \/ ed'[e].at = "locked" /\ ed'[e].title = "waived"
    <3>1. CASE Go(e, "steal")
      BY <1>5, <1>t, <3>1 DEF Types, Fields, Ask, At, Undisturbed, Go
    <3>2. CASE ed' = [ed EXCEPT ![e].title = "waived", ![e].at = "locked"]
      BY <1>5, <1>t, <3>2 DEF Types, Fields, Ask, At, Undisturbed
    <3>3. CASE ed' = [ed EXCEPT ![e] = Done(e, @)]
      BY <1>5, <1>t, <3>3 DEF Types, Fields, Ask, At, Undisturbed, Done
    <3> QED BY <1>5, <3>1, <3>2, <3>3 DEF Ask
  <2> QED BY <2>1, <2>2, LockStays DEF Knows, Settled
<1>6. CASE BeginSteal(e)
  <2>1. UNCHANGED lock /\ (raced => raced') /\ OthersStay(e)
    BY <1>6, <1>t DEF Types, Fields, OthersStay, BeginSteal, LockSuperlock, Go, At, Undisturbed
  <2>2. ed[e].at = "steal" /\ ed'[e].at = "attack" /\ ed'[e].title = ed[e].title
    BY <1>6, <1>t DEF Types, Fields, BeginSteal, LockSuperlock, Go, At, Undisturbed
  <2> QED BY <2>1, <2>2, LockStays DEF Knows, Settled
<1>7. CASE LetGo(e)
  <2>1. UNCHANGED lock /\ (raced => raced') /\ OthersStay(e)
    BY <1>7, <1>t DEF Types, Fields, OthersStay, LetGo, Go, At, Undisturbed
  <2>2. ed[e].at = "let go" /\ ed'[e].at = "locked" /\ ed'[e].title = ed[e].title
    BY <1>7, <1>t DEF Types, Fields, LetGo, Go, At, Undisturbed
  <2> QED BY <2>1, <2>2, LockStays DEF Knows, Settled
<1>8. CASE Modify(e)
  <2>1. UNCHANGED lock /\ (raced => raced') /\ OthersStay(e)
    <3>1. \A f \in Editors \ {e} : ed'[f] = ed[f]
      BY <1>8, <1>t DEF Types, Modify
    <3> QED BY <1>8, <3>1 DEF Modify, OthersStay, Undisturbed
  <2>2. ed[e].at = "locked" /\ ed'[e].at = "idle" /\ ed'[e].title = ed[e].title
    <3>1. CASE ed' = [ed EXCEPT ![e] = [Done(e, @) EXCEPT !.text = ed[e].text \cup {e},
                                                       !.modified = TRUE]]
      BY <1>8, <1>t, <3>1 DEF Types, Fields, Modify, Done, At
    <3>2. CASE ed' = [ed EXCEPT ![e] = Done(e, @)]
      BY <1>8, <1>t, <3>2 DEF Types, Fields, Modify, Done, At
    <3> QED BY <1>8, <3>1, <3>2 DEF Modify
  <2> QED BY <2>1, <2>2, LockStays DEF Knows, Settled
<1>9. CASE Truncate(e)
  <2>1. UNCHANGED lock /\ (raced => raced') /\ OthersStay(e)
    <3>1. CASE ed' = [OutOfDate(ed, e) EXCEPT ![e].at = "write"]
      BY <1>9, <1>t, <3>1, OutOfDateKeeps DEF Fields, OthersStay, Truncate
    <3>2. CASE ed' = [ed EXCEPT ![e].at = "unlock", ![e].failed = TRUE]
      BY <1>9, <1>t, <3>2 DEF Types, Fields, OthersStay, Truncate
    <3> QED BY <1>9, <3>1, <3>2 DEF Truncate
  <2>2. ed[e].at = "locked" /\ ed'[e].at \in {"write", "unlock"} /\ ed'[e].title = ed[e].title
    <3>1. CASE ed' = [OutOfDate(ed, e) EXCEPT ![e].at = "write"]
      BY <1>9, <1>t, <3>1 DEF Types, Fields, Truncate, At, Undisturbed, Writes, OutOfDate
    <3>2. CASE ed' = [ed EXCEPT ![e].at = "unlock", ![e].failed = TRUE]
      BY <1>9, <1>t, <3>2 DEF Types, Fields, Truncate, At, Undisturbed, Writes
    <3> QED BY <1>9, <3>1, <3>2 DEF Truncate
  <2> QED BY <2>1, <2>2, LockStays DEF Knows, Settled
<1>10. CASE Write(e)
  <2>1. UNCHANGED lock /\ (raced => raced') /\ OthersStay(e)
    <3>1. CASE ed' = [OutOfDate(ed, e) EXCEPT ![e].at = "stat", ![e].failed = FALSE]
      BY <1>10, <1>t, <3>1, OutOfDateKeeps DEF Fields, OthersStay, Write
    <3>2. CASE ed' = [ed EXCEPT ![e].at = "stat", ![e].failed = TRUE]
      BY <1>10, <1>t, <3>2 DEF Types, Fields, OthersStay, Write
    <3> QED BY <1>10, <3>1, <3>2 DEF Write
  <2>2. ed[e].at = "write" /\ ed'[e].at = "stat" /\ ed'[e].title = ed[e].title
    <3>1. CASE ed' = [OutOfDate(ed, e) EXCEPT ![e].at = "stat", ![e].failed = FALSE]
      BY <1>10, <1>t, <3>1, OutOfDateKeeps DEF Fields, Write, At
    <3>2. CASE ed' = [ed EXCEPT ![e].at = "stat", ![e].failed = TRUE]
      BY <1>10, <1>t, <3>2 DEF Types, Fields, Write, At
    <3> QED BY <1>10, <3>1, <3>2 DEF Write
  <2> QED BY <2>1, <2>2, LockStays DEF Knows, Settled
<1>11. CASE Stat(e)
  <2>1. UNCHANGED lock /\ (raced => raced') /\ OthersStay(e)
    BY <1>11, <1>t DEF Types, Fields, OthersStay, Stat, At, Undisturbed
  <2>2. ed'[e].at = "unlock"
    BY <1>11, <1>t DEF Types, Fields, Stat, At, Undisturbed
  <2> QED BY <2>1, <2>2, LockStays DEF Knows, Settled
<1>12. CASE Visit(e)
  <2>1. UNCHANGED lock /\ (raced => raced') /\ OthersStay(e)
    BY <1>12, <1>t DEF Types, Fields, OthersStay, Visit, At, Undisturbed
  <2>2. ed'[e].at = "read"
    BY <1>12, <1>t DEF Types, Fields, Visit, At, Undisturbed
  <2> QED BY <2>1, <2>2, LockStays DEF Knows, Settled
<1>13. CASE Read(e)
  <2>1. UNCHANGED lock /\ (raced => raced') /\ OthersStay(e)
    BY <1>13, <1>t DEF Types, Fields, OthersStay, Read, At, Undisturbed
  <2>2. ed'[e].at = "unlock"
    BY <1>13, <1>t DEF Types, Fields, Read, At, Undisturbed
  <2> QED BY <2>1, <2>2, LockStays DEF Knows, Settled
<1>14. CASE KillBuffer(e)
  <2>1. UNCHANGED lock /\ (raced => raced') /\ OthersStay(e)
    BY <1>14, <1>t DEF Types, Fields, OthersStay, KillBuffer, Abandoned, Closed, Idle, At, Undisturbed
  <2>2. /\ ed[e].at = "idle"
        /\ \/ ed'[e].at = "unlock"
           \/ /\ ed'[e].at = "closed"
              /\ ed'[e].title = "left" <=> ed[e].title = "taken"
    BY <1>14, <1>t DEF Types, Fields, KillBuffer, Abandoned, Closed, Idle, At, Undisturbed
  <2> QED BY <2>1, <2>2, LockStays DEF Knows, Settled
<1>15. CASE ShutDown(e)
  <2>1. UNCHANGED lock /\ (raced => raced') /\ OthersStay(e)
    BY <1>15, <1>t DEF Types, Fields, OthersStay, ShutDown, Corpse, Idle, At, Undisturbed
  <2>2. ed'[e].at \in {"unlock", "dead"}
    BY <1>15, <1>t DEF Types, Fields, ShutDown, Corpse, Idle, At, Undisturbed
  <2> QED BY <2>1, <2>2, LockStays DEF Knows, Settled
<1>16. CASE Crash(e)
  <2>1. UNCHANGED lock /\ (raced => raced') /\ OthersStay(e)
    BY <1>16, <1>t DEF Types, Fields, OthersStay, Crash, Corpse, Idle, At, Undisturbed
  <2>2. ed'[e].at = "dead"
    BY <1>16, <1>t DEF Types, Fields, Crash, Corpse, Idle, At, Undisturbed
  <2> QED BY <2>1, <2>2, LockStays DEF Knows, Settled
<1>17. CASE BeginUnlock(e)
  <2>1. UNCHANGED lock /\ (raced => raced') /\ OthersStay(e)
    BY <1>17, <1>t DEF Types, Fields, OthersStay, BeginUnlock, LockSuperlock, Go, At, Undisturbed
  <2>2. ed'[e].at = "own?"
    BY <1>17, <1>t DEF Types, Fields, BeginUnlock, LockSuperlock, Go, At, Undisturbed
  <2> QED BY <2>1, <2>2, LockStays DEF Knows, Settled
<1>18. CASE CheckOwn(e)
  <2>1. UNCHANGED lock /\ (raced => raced') /\ OthersStay(e)
    BY <1>18, <1>t DEF Types, Fields, OthersStay, CheckOwn, Go, At, Undisturbed
  <2>2. ed'[e].at = IF lock = e THEN "unlink" ELSE "unlocked"
    BY <1>18, <1>t DEF Types, Fields, CheckOwn, Go
  <2>3. CASE lock = e
    BY <2>1, <2>2, <2>3, LockStays DEF Knows, Settled
  <2>4. CASE lock # e
    BY <2>1, <2>2, <2>4, LockStays DEF Knows, Settled
  <2> QED BY <2>3, <2>4
<1>19. CASE Conclude(e)
  <2>1. UNCHANGED lock /\ (raced => raced') /\ OthersStay(e)
    BY <1>19, <1>t DEF Types, Fields, OthersStay, Conclude, Concluded, Done, Closed, Corpse, Idle, At, Undisturbed
  <2>2. ed[e].at = "unlocked"
           /\ \/ ed'[e].at = "closed" /\ ed'[e].title # "left"
              \/ ed'[e].at = "dead"
              \/ ed'[e].at = "idle" /\ ed'[e].title # "taken"
    BY <1>19, <1>t DEF Types, Fields, Conclude, Concluded, Done, Closed, Corpse, Idle, At, Undisturbed
  <2> QED BY <2>1, <2>2, LockStays DEF Knows, Settled
<1> QED BY <1>1, <1>2, <1>3, <1>4, <1>5, <1>6, <1>7, <1>8, <1>9, <1>10, <1>11, <1>12, <1>13, <1>14, <1>15, <1>16, <1>17, <1>18, <1>19

\* The steps that make, give back or take a lock.
LEMMA CreateLockStep ==
  ASSUME LockInv, NEW e \in Editors, Types', CreateLock(e)
  PROVE  LockInv'
<1>t. Types
  BY DEF LockInv
<1>1. (raced => raced') /\ OthersStay(e) /\ ed[e].at = "lock"
  BY <1>t DEF Types, Fields, OthersStay, CreateLock, Go, At, Undisturbed
<1>2. CASE lock = Free
  <2>1. lock' = Empty /\ ed'[e].at = "write pid" /\ ed'[e].fd = "linked"
    <3>1. /\ lock' = Empty
          /\ ed' = [ed EXCEPT ![e].fd = "linked", ![e].at = "write pid"]
      BY <1>2 DEF CreateLock
    <3> QED BY <1>t, <3>1 DEF Types, Fields
  <2>2. SUFFICES ASSUME ~raced' PROVE OneWriter' /\ \A f \in Editors : Knows(f)'
    BY DEF LockInv
  <2>3. OneWriter /\ \A f \in Editors : Knows(f)
    BY <1>1, <2>2 DEF LockInv
  <2>4. \A f \in Editors : ed[f].at # "write pid"
    BY <1>2, <2>3, SharedAssumption DEF Knows
  <2>5. OneWriter'
    BY <1>1, <2>4 DEF OneWriter, OthersStay
  <2>6. ASSUME NEW f \in Editors PROVE Knows(f)'
    <3>1. CASE f = e
      BY <2>1, <3>1 DEF Knows, Settled
    <3>2. CASE f # e
      BY <1>1, <1>2, <2>1, <2>3, <2>4, <3>2, SharedAssumption DEF Knows, OthersStay
    <3> QED BY <3>1, <3>2
  <2> QED BY <2>5, <2>6
<1>3. CASE lock # Free
  <2>1. UNCHANGED lock /\ ed'[e].at = "look" /\ ed'[e].title = ed[e].title
    BY <1>t, <1>3 DEF Types, Fields, CreateLock, Go
  <2> QED BY <1>1, <2>1, LockStays DEF Knows, Settled
<1> QED BY <1>2, <1>3

LEMMA WritePidStep ==
  ASSUME LockInv, NEW e \in Editors, Types', WritePid(e)
  PROVE  LockInv'
<1>t. Types
  BY DEF LockInv
<1>1. (raced => raced') /\ OthersStay(e) /\ ed[e].at = "write pid"
  BY <1>t DEF Types, Fields, OthersStay, WritePid, At, Undisturbed
<1>2. ed'[e].at = "locked" /\ ed'[e].title = "taken"
  BY <1>t DEF Types, Fields, WritePid
<1>3. SUFFICES ASSUME ~raced' PROVE OneWriter' /\ \A f \in Editors : Knows(f)'
  BY DEF LockInv
<1>4. OneWriter /\ \A f \in Editors : Knows(f)
  BY <1>1, <1>3 DEF LockInv
<1>5. lock = Empty /\ lock' = e
  BY <1>1, <1>4 DEF Knows, WritePid
<1>6. \A f \in Editors \ {e} : ed[f].at # "write pid"
  BY <1>1, <1>4 DEF OneWriter
<1>7. OneWriter'
  <2>1. \A f \in Editors : ed'[f].at # "write pid"
    BY <1>1, <1>2, <1>6 DEF OthersStay
  <2> QED BY <2>1 DEF OneWriter
<1>8. ASSUME NEW f \in Editors PROVE Knows(f)'
  <2>1. CASE f = e
    BY <1>2, <1>5, <2>1 DEF Knows, Settled
  <2>2. CASE f # e
    BY <1>1, <1>4, <1>5, <1>6, <2>2, SharedAssumption DEF Knows, OthersStay
  <2> QED BY <2>1, <2>2
<1> QED BY <1>7, <1>8

\* What is unlinked without a race was nobody's, and nobody was about to write
\* to it.
LEMMA BreakLockStep ==
  ASSUME LockInv, NEW e \in Editors, Types', BreakLock(e)
  PROVE  LockInv'
<1>t. Types
  BY DEF LockInv
<1>1. SUFFICES ASSUME ~raced' PROVE OneWriter' /\ \A f \in Editors : Knows(f)'
  BY DEF LockInv
<1>2. ~raced /\ Obsolete /\ ed[e].at = "break"
  BY <1>1 DEF BreakLock, At
<1>3. OneWriter /\ \A f \in Editors : Knows(f)
  BY <1>2 DEF LockInv
<1>4. lock = Empty \/ lock = Ghost \/ (lock \in Editors /\ ed[lock].at = "dead")
  BY <1>2 DEF Obsolete, Dead, Alive, At
<1>5. lock # Free
  BY <1>4, SharedAssumption
<1>6. \A f \in Editors : ed[f].at # "write pid"
  <2> SUFFICES ASSUME NEW f \in Editors, ed[f].at = "write pid" PROVE FALSE
    OBVIOUS
  <2>1. lock = Empty /\ ed[f].fd = "linked"
    BY <1>3 DEF Knows
  <2>2. ~Dead(lock)
    BY <2>1, SharedAssumption DEF Dead
  <2> QED BY <1>2, <2>1, <2>2 DEF Obsolete
<1>7. lock' = Free /\ ed' = [Unlinked(ed) EXCEPT ![e].at = "lock"]
  BY <1>5 DEF BreakLock
<1>8. \A f \in Editors : ed'[f].title = ed[f].title /\ (f # e => ed'[f].at = ed[f].at)
  BY <1>t, <1>7 DEF Types, Fields, Unlinked
<1>9. ed'[e].at = "lock"
  BY <1>t, <1>7 DEF Types, Fields, Unlinked
<1>10. OneWriter'
  BY <1>6, <1>8, <1>9 DEF OneWriter
<1>11. ASSUME NEW f \in Editors PROVE Knows(f)'
  <2>1. ed[f].at \in Settled \cup {"closed"} => lock # f
    BY <1>4, SharedAssumption DEF Settled
  <2>2. CASE f = e
    BY <1>2, <1>3, <1>7, <1>8, <1>9, <2>1, <2>2, SharedAssumption DEF Knows, Settled
  <2>3. CASE f # e
    BY <1>3, <1>6, <1>7, <1>8, <2>1, <2>3, SharedAssumption DEF Knows
  <2> QED BY <2>2, <2>3
<1> QED BY <1>10, <1>11

LEMMA AttackStep ==
  ASSUME LockInv, NEW e \in Editors, Types', Attack(e)
  PROVE  LockInv'
<1>t. Types
  BY DEF LockInv
<1>1. SUFFICES ASSUME ~raced' PROVE LockInv'
  BY DEF LockInv
<1>2. lock # Free /\ UNCHANGED <<lock, raced>> /\ ed[e].at = "attack"
  BY <1>1 DEF Attack, At
<1>3. ed' = [ed EXCEPT ![e].fd = "linked", ![e].at = "overwrite"]
  BY <1>2 DEF Attack
<1>4. OthersStay(e) /\ ed'[e].at = "overwrite" /\ ed'[e].title = ed[e].title
  BY <1>t, <1>3 DEF Types, Fields, OthersStay
<1> QED BY <1>2, <1>4, LockStays DEF Knows, Settled

\* Who steals a lock takes it from the one that thinks it has it.
LEMMA OverwriteStep ==
  ASSUME LockInv, NEW e \in Editors, Types', Overwrite(e)
  PROVE  LockInv'
<1>t. Types
  BY DEF LockInv
<1>1. SUFFICES ASSUME ~raced' PROVE OneWriter' /\ \A f \in Editors : Knows(f)'
  BY DEF LockInv
<1>2. ~raced /\ ed[e].fd = "linked" /\ lock # Empty /\ lock' = e
  BY <1>1 DEF Overwrite
<1>3. OneWriter /\ \A f \in Editors : Knows(f)
  BY <1>2 DEF LockInv
<1>4. \A f \in Editors : ed[f].at # "write pid"
  BY <1>2, <1>3 DEF Knows
<1>5. ed'[e].at = "let go" /\ ed'[e].title = "taken"
  BY <1>t DEF Types, Fields, Overwrite
<1>6. ASSUME NEW f \in Editors, f # e
      PROVE  /\ ed'[f].at = ed[f].at
             /\ lock = f => ed'[f].title \notin {"taken", "left"}
             /\ lock # f => ed'[f].title = ed[f].title
  <2>1. ed'[f] = [ed[f] EXCEPT !.title =
                   IF lock = f /\ @ \in {"taken", "left"}
                     THEN "robbed" ELSE @]
    BY <1>2, <1>6 DEF Overwrite
  <2>2. DOMAIN ed[f] = Fields
    BY <1>t DEF Types
  <2>3. /\ ed'[f].at = ed[f].at
        /\ ed'[f].title = IF lock = f /\ ed[f].title \in {"taken", "left"}
                            THEN "robbed" ELSE ed[f].title
    BY <2>1, <2>2 DEF Fields
  <2> QED BY <2>3
<1>7. OneWriter'
  BY <1>4, <1>5, <1>6 DEF OneWriter
<1>8. ASSUME NEW f \in Editors PROVE Knows(f)'
  <2>1. CASE f = e
    BY <1>2, <1>5, <2>1 DEF Knows, Settled
  <2>2. CASE f # e
    BY <1>2, <1>3, <1>4, <1>6, <2>2 DEF Knows
  <2> QED BY <2>1, <2>2
<1> QED BY <1>7, <1>8

LEMMA UnlinkStep ==
  ASSUME LockInv, NEW e \in Editors, Types', Unlink(e)
  PROVE  LockInv'
<1>t. Types
  BY DEF LockInv
<1>1. SUFFICES ASSUME ~raced' PROVE OneWriter' /\ \A f \in Editors : Knows(f)'
  BY DEF LockInv
<1>2. ~raced /\ lock = e /\ lock' = Free
  BY <1>1 DEF Unlink
<1>3. OneWriter /\ \A f \in Editors : Knows(f)
  BY <1>2 DEF LockInv
<1>4. \A f \in Editors : ed[f].at # "write pid"
  BY <1>2, <1>3, SharedAssumption DEF Knows
<1>5. \A f \in Editors : ed'[f].title = ed[f].title /\ (f # e => ed'[f].at = ed[f].at)
  BY <1>t DEF Types, Fields, Unlink, Unlinked
<1>6. ed'[e].at = "unlocked"
  BY <1>t DEF Types, Fields, Unlink, Unlinked
<1>7. OneWriter'
  BY <1>4, <1>5, <1>6 DEF OneWriter
<1>8. ASSUME NEW f \in Editors PROVE Knows(f)'
  <2>1. CASE f = e
    BY <1>2, <1>6, <2>1, SharedAssumption DEF Knows, Settled
  <2>2. CASE f # e
    BY <1>2, <1>3, <1>4, <1>5, <2>2, SharedAssumption DEF Knows
  <2> QED BY <2>1, <2>2
<1> QED BY <1>7, <1>8

\* The steps change fields and add none.
LEMMA TypesStep ==
  ASSUME Types, NEW e \in Editors, Step(e)
  PROVE  Types'
<1>1. CASE Edit(e)
  BY <1>1 DEF Types, Fields, Edit, LockFile
<1>2. CASE WriteRegion(e)
  BY <1>2 DEF Types, Fields, WriteRegion, LockFile
<1>3. CASE Supersede(e)
  BY <1>3 DEF Types, Fields, Supersede, Go, Done
<1>4. CASE CreateLock(e)
  BY <1>4 DEF Types, Fields, CreateLock, Go
<1>5. CASE WritePid(e)
  BY <1>5 DEF Types, Fields, WritePid
<1>6. CASE Look(e)
  BY <1>6 DEF Types, Fields, Look, Go
<1>7. CASE BreakLock(e)
  <2>1. CASE ed' = [ed EXCEPT ![e].title = "taken", ![e].at = "locked"]
    BY <2>1 DEF Types, Fields
  <2>2. CASE ed' = [Unlinked(ed) EXCEPT ![e].at = "lock"]
    BY <2>2 DEF Types, Fields, Unlinked
  <2> QED BY <1>7, <2>1, <2>2 DEF BreakLock
<1>8. CASE Ask(e)
  BY <1>8 DEF Types, Fields, Ask, Go, Done
<1>9. CASE BeginSteal(e)
  BY <1>9 DEF Types, Fields, BeginSteal, LockSuperlock, Go
<1>10. CASE Attack(e)
  BY <1>10 DEF Types, Fields, Attack
<1>11. CASE Overwrite(e)
  BY <1>11 DEF Types, Fields, Overwrite
<1>12. CASE LetGo(e)
  BY <1>12 DEF Types, Fields, LetGo, Go
<1>13. CASE Modify(e)
  BY <1>13 DEF Types, Fields, Modify, Done
<1>14. CASE Truncate(e)
  BY <1>14 DEF Types, Fields, Truncate, OutOfDate
<1>15. CASE Write(e)
  BY <1>15 DEF Types, Fields, Write, OutOfDate
<1>16. CASE Stat(e)
  BY <1>16 DEF Types, Fields, Stat
<1>17. CASE Visit(e)
  BY <1>17 DEF Types, Fields, Visit
<1>18. CASE Read(e)
  BY <1>18 DEF Types, Fields, Read
<1>19. CASE KillBuffer(e)
  BY <1>19 DEF Types, Fields, KillBuffer, Abandoned, Closed, Idle
<1>20. CASE ShutDown(e)
  BY <1>20 DEF Types, Fields, ShutDown, Corpse, Idle
<1>21. CASE Crash(e)
  BY <1>21 DEF Types, Fields, Crash, Corpse, Idle
<1>22. CASE BeginUnlock(e)
  BY <1>22 DEF Types, Fields, BeginUnlock, LockSuperlock, Go
<1>23. CASE CheckOwn(e)
  BY <1>23 DEF Types, Fields, CheckOwn, Go
<1>24. CASE Unlink(e)
  BY <1>24 DEF Types, Fields, Unlink, Unlinked
<1>25. CASE Conclude(e)
  BY <1>25 DEF Types, Fields, Conclude, Concluded, Done, Closed, Corpse, Idle
<1> QED
  BY <1>1, <1>2, <1>3, <1>4, <1>5, <1>6, <1>7, <1>8, <1>9, <1>10, <1>11, <1>12, <1>13,
     <1>14, <1>15, <1>16, <1>17, <1>18, <1>19, <1>20, <1>21, <1>22, <1>23, <1>24, <1>25
     DEF Step

LEMMA LockInit == Init => LockInv
<1> SUFFICES ASSUME Init PROVE LockInv
  OBVIOUS
<1>1. Types
  BY DEF Init, Types, Fields, Idle
<1>2. lock \notin Editors /\ \A e \in Editors : ed[e].at = "idle" /\ ed[e].title = "none"
  BY SharedAssumption DEF Init, Idle
<1>3. OneWriter /\ \A e \in Editors : Knows(e)
  BY <1>2 DEF OneWriter, Knows
<1> QED BY <1>1, <1>3 DEF LockInv

LEMMA LockStep ==
  ASSUME LockInv, NEW e \in Editors, Step(e)
  PROVE  LockInv'
<1>1. Types'
  BY TypesStep DEF LockInv
<1> QED
  BY <1>1, QuietStep, CreateLockStep, WritePidStep, BreakLockStep,
     AttackStep, OverwriteStep, UnlinkStep
     DEF Step

\* Among any number of editors, and whatever they are doing when one of them
\* is killed: unless a race for the lock file is lost, an editor between two
\* commands has the file exactly when it thinks so, and one whose buffer is
\* gone only when a command was abandoned after it had taken the lock
\* (lock_if_free, current_lock_owner, unlock_file; kill-buffer).
THEOREM LockIsOurs == Spec => []LockedForUs
<1>1. LockInv /\ [Next]_vars => LockInv'
  <2>1. ASSUME LockInv, NEW e \in Editors, Step(e) PROVE LockInv'
    BY <2>1, LockStep
  <2>2. ASSUME LockInv, UNCHANGED vars PROVE LockInv'
    BY <2>2 DEF LockInv, Types, OneWriter, Knows, vars
  <2> QED BY <2>1, <2>2 DEF Next
<1>2. LockInv => LockedForUs
  BY DEF LockInv, Knows, Settled, LockedForUs, At
<1> QED BY <1>1, <1>2, LockInit, PTL DEF Spec

-----------------------------------------------------------------------------
(***************************************************************************)
(* What the user is told                                                   *)
(***************************************************************************)
\* A buffer is modified only with a lock, or after a question.
Told(e) ==
  ed[e].modified \/ ed[e].at \in {"locked", "let go"} => ed[e].title # "none"

ToldInv == Types /\ \A e \in Editors : Told(e)

\* What a step of e leaves of the other editors: a lock may be stolen from one.
OthersKeepTitle(e) ==
  \A f \in Editors \ {e} :
    /\ ed'[f].at = ed[f].at /\ ed'[f].modified = ed[f].modified
    /\ ed'[f].title = "none" => ed[f].title = "none"

LEMMA ToldStep ==
  ASSUME ToldInv, NEW e \in Editors, Step(e)
  PROVE  ToldInv'
<1>t. Types
  BY DEF ToldInv
<1>n. Types'
  BY <1>t, TypesStep
<1>o. ASSUME OthersKeepTitle(e), Told(e)' PROVE ToldInv'
  BY <1>n, <1>o DEF ToldInv, Told, OthersKeepTitle
<1>e. Told(e)
  BY DEF ToldInv
<1>1. CASE Edit(e)
  <2>1. OthersKeepTitle(e)
    BY <1>1, <1>t DEF Types, Fields, OthersKeepTitle, Edit, LockFile, At
  <2>2. Told(e)'
    BY <1>1, <1>t, <1>e DEF Types, Fields, Told, Edit, LockFile, At
  <2> QED BY <1>o, <2>1, <2>2
<1>2. CASE WriteRegion(e)
  <2>1. OthersKeepTitle(e)
    BY <1>2, <1>t DEF Types, Fields, OthersKeepTitle, WriteRegion, LockFile, At
  <2>2. Told(e)'
    BY <1>2, <1>t, <1>e DEF Types, Fields, Told, WriteRegion, LockFile, At
  <2> QED BY <1>o, <2>1, <2>2
<1>3. CASE Supersede(e)
  <2>1. CASE Go(e, "lock")
    <3>1. OthersKeepTitle(e)
      BY <1>3, <1>t, <2>1 DEF Types, Fields, OthersKeepTitle, Supersede, Go, Done, At
    <3>2. Told(e)'
      BY <1>3, <1>t, <1>e, <2>1 DEF Types, Fields, Told, Supersede, Go, Done, At
    <3> QED BY <1>o, <3>1, <3>2
  <2>2. CASE ed' = [ed EXCEPT ![e] = Done(e, @)]
    <3>1. OthersKeepTitle(e)
      BY <1>3, <1>t, <2>2 DEF Types, Fields, OthersKeepTitle, Supersede, Go, Done, At
    <3>2. Told(e)'
      BY <1>3, <1>t, <1>e, <2>2 DEF Types, Fields, Told, Supersede, Go, Done, At
    <3> QED BY <1>o, <3>1, <3>2
  <2> QED BY <1>3, <2>1, <2>2 DEF Supersede
<1>4. CASE CreateLock(e)
  <2>1. CASE lock = Free
    <3>1. OthersKeepTitle(e)
      BY <1>4, <1>t, <2>1 DEF Types, Fields, OthersKeepTitle, CreateLock, Go, At, Undisturbed
    <3>2. Told(e)'
      <4>1. ed[e].at = "lock" /\ ed' = [ed EXCEPT ![e].fd = "linked", ![e].at = "write pid"]
        BY <1>4, <2>1 DEF CreateLock, Go, At
      <4> QED BY <1>t, <1>e, <4>1 DEF Types, Fields, Told
    <3> QED BY <1>o, <3>1, <3>2
  <2>2. CASE lock # Free
    <3>1. OthersKeepTitle(e)
      BY <1>4, <1>t, <2>2 DEF Types, Fields, OthersKeepTitle, CreateLock, Go, At, Undisturbed
    <3>2. Told(e)'
      <4>1. ed[e].at = "lock" /\ ed' = [ed EXCEPT ![e].at = "look"]
        BY <1>4, <2>2 DEF CreateLock, Go, At
      <4> QED BY <1>t, <1>e, <4>1 DEF Types, Fields, Told
    <3> QED BY <1>o, <3>1, <3>2
  <2> QED BY <1>4, <2>1, <2>2 DEF CreateLock
<1>5. CASE WritePid(e)
  <2>1. OthersKeepTitle(e)
    BY <1>5, <1>t DEF Types, Fields, OthersKeepTitle, WritePid, At, Undisturbed
  <2>2. Told(e)'
    BY <1>5, <1>t, <1>e DEF Types, Fields, Told, WritePid, At, Undisturbed
  <2> QED BY <1>o, <2>1, <2>2
<1>6. CASE Look(e)
  <2>1. CASE Go(e, "lock")
    <3>1. OthersKeepTitle(e)
      BY <1>6, <1>t, <2>1 DEF Types, Fields, OthersKeepTitle, Look, Go, At, Undisturbed
    <3>2. Told(e)'
      BY <1>6, <1>t, <1>e, <2>1 DEF Types, Fields, Told, Look, Go, At, Undisturbed
    <3> QED BY <1>o, <3>1, <3>2
  <2>2. CASE ed' = [ed EXCEPT ![e].title = "taken", ![e].at = "locked"]
    <3>1. OthersKeepTitle(e)
      BY <1>6, <1>t, <2>2 DEF Types, Fields, OthersKeepTitle, Look, Go, At, Undisturbed
    <3>2. Told(e)'
      BY <1>6, <1>t, <1>e, <2>2 DEF Types, Fields, Told, Look, Go, At, Undisturbed
    <3> QED BY <1>o, <3>1, <3>2
  <2>3. CASE Go(e, "ask")
    <3>1. OthersKeepTitle(e)
      BY <1>6, <1>t, <2>3 DEF Types, Fields, OthersKeepTitle, Look, Go, At, Undisturbed
    <3>2. Told(e)'
      BY <1>6, <1>t, <1>e, <2>3 DEF Types, Fields, Told, Look, Go, At, Undisturbed
    <3> QED BY <1>o, <3>1, <3>2
  <2>4. CASE Go(e, "break")
    <3>1. OthersKeepTitle(e)
      BY <1>6, <1>t, <2>4 DEF Types, Fields, OthersKeepTitle, Look, Go, At, Undisturbed
    <3>2. Told(e)'
      BY <1>6, <1>t, <1>e, <2>4 DEF Types, Fields, Told, Look, Go, At, Undisturbed
    <3> QED BY <1>o, <3>1, <3>2
  <2> QED BY <1>6, <2>1, <2>2, <2>3, <2>4 DEF Look
<1>7. CASE BreakLock(e)
  <2>1. CASE lock = Free
    <3>1. OthersKeepTitle(e)
      BY <1>7, <1>t, <2>1 DEF Types, Fields, OthersKeepTitle, BreakLock, Unlinked, At
    <3>2. Told(e)'
      BY <1>7, <1>t, <1>e, <2>1, ZenonT(30) DEF Types, Fields, Told, BreakLock, Unlinked, At
    <3> QED BY <1>o, <3>1, <3>2
  <2>2. CASE ed' = [Unlinked(ed) EXCEPT ![e].at = "lock"]
    <3>1. OthersKeepTitle(e)
      BY <1>7, <1>t, <2>2 DEF Types, Fields, OthersKeepTitle, BreakLock, Unlinked, At
    <3>2. Told(e)'
      BY <1>7, <1>t, <1>e, <2>2 DEF Types, Fields, Told, BreakLock, Unlinked, At
    <3> QED BY <1>o, <3>1, <3>2
  <2> QED BY <1>7, <2>1, <2>2 DEF BreakLock
<1>8. CASE Ask(e)
  <2>1. CASE Go(e, "steal")
    <3>1. OthersKeepTitle(e)
      BY <1>8, <1>t, <2>1 DEF Types, Fields, OthersKeepTitle, Ask, Go, Done, At
    <3>2. Told(e)'
      BY <1>8, <1>t, <1>e, <2>1 DEF Types, Fields, Told, Ask, Go, Done, At
    <3> QED BY <1>o, <3>1, <3>2
  <2>2. CASE ed' = [ed EXCEPT ![e].title = "waived", ![e].at = "locked"]
    <3>1. OthersKeepTitle(e)
      BY <1>8, <1>t, <2>2 DEF Types, Fields, OthersKeepTitle, Ask, Go, Done, At
    <3>2. Told(e)'
      BY <1>8, <1>t, <1>e, <2>2 DEF Types, Fields, Told, Ask, Go, Done, At
    <3> QED BY <1>o, <3>1, <3>2
  <2>3. CASE ed' = [ed EXCEPT ![e] = Done(e, @)]
    <3>1. OthersKeepTitle(e)
      BY <1>8, <1>t, <2>3 DEF Types, Fields, OthersKeepTitle, Ask, Go, Done, At
    <3>2. Told(e)'
      BY <1>8, <1>t, <1>e, <2>3 DEF Types, Fields, Told, Ask, Go, Done, At
    <3> QED BY <1>o, <3>1, <3>2
  <2> QED BY <1>8, <2>1, <2>2, <2>3 DEF Ask
<1>9. CASE BeginSteal(e)
  <2>1. OthersKeepTitle(e)
    BY <1>9, <1>t DEF Types, Fields, OthersKeepTitle, BeginSteal, LockSuperlock, Go, At
  <2>2. Told(e)'
    BY <1>9, <1>t, <1>e DEF Types, Fields, Told, BeginSteal, LockSuperlock, Go, At
  <2> QED BY <1>o, <2>1, <2>2
<1>10. CASE Attack(e)
  <2>1. CASE lock = Free
    <3>1. OthersKeepTitle(e)
      BY <1>10, <1>t, <2>1 DEF Types, Fields, OthersKeepTitle, Attack, At
    <3>2. Told(e)'
      BY <1>10, <1>t, <1>e, <2>1, ZenonT(30) DEF Types, Fields, Told, Attack, At
    <3> QED BY <1>o, <3>1, <3>2
  <2>2. CASE ed' = [ed EXCEPT ![e].fd = "linked", ![e].at = "overwrite"]
    <3>1. OthersKeepTitle(e)
      BY <1>10, <1>t, <2>2 DEF Types, Fields, OthersKeepTitle, Attack, At
    <3>2. Told(e)'
      BY <1>10, <1>t, <1>e, <2>2 DEF Types, Fields, Told, Attack, At
    <3> QED BY <1>o, <3>1, <3>2
  <2> QED BY <1>10, <2>1, <2>2 DEF Attack
<1>11. CASE Overwrite(e)
  <2>1. OthersKeepTitle(e)
    BY <1>11, <1>t DEF Types, Fields, OthersKeepTitle, Overwrite, At
  <2>2. Told(e)'
    BY <1>11, <1>t, <1>e DEF Types, Fields, Told, Overwrite, At
  <2> QED BY <1>o, <2>1, <2>2
<1>12. CASE LetGo(e)
  <2>1. OthersKeepTitle(e)
    BY <1>12, <1>t DEF Types, Fields, OthersKeepTitle, LetGo, Go, At, Undisturbed
  <2>2. Told(e)'
    BY <1>12, <1>t, <1>e DEF Types, Fields, Told, LetGo, Go, At, Undisturbed
  <2> QED BY <1>o, <2>1, <2>2
<1>13. CASE Modify(e)
  <2>1. CASE ed' = [ed EXCEPT ![e] = [Done(e, @) EXCEPT !.text = ed[e].text \cup {e}, !.modified = TRUE]]
    <3>1. OthersKeepTitle(e)
      BY <1>13, <1>t, <2>1 DEF Types, Fields, OthersKeepTitle, Modify, Done, At, Undisturbed
    <3>2. Told(e)'
      BY <1>13, <1>t, <1>e, <2>1 DEF Types, Fields, Told, Modify, Done, At, Undisturbed
    <3> QED BY <1>o, <3>1, <3>2
  <2>2. CASE ed' = [ed EXCEPT ![e] = Done(e, @)]
    <3>1. OthersKeepTitle(e)
      BY <1>13, <1>t, <2>2 DEF Types, Fields, OthersKeepTitle, Modify, Done, At, Undisturbed
    <3>2. Told(e)'
      BY <1>13, <1>t, <1>e, <2>2 DEF Types, Fields, Told, Modify, Done, At, Undisturbed
    <3> QED BY <1>o, <3>1, <3>2
  <2> QED BY <1>13, <2>1, <2>2 DEF Modify
<1>14. CASE Truncate(e)
  <2>1. OthersKeepTitle(e)
    BY <1>14, <1>t, ZenonT(30) DEF Types, Fields, OthersKeepTitle, Truncate, Writes, OutOfDate, At
  <2>2. Told(e)'
    BY <1>14, <1>t, <1>e, ZenonT(30) DEF Types, Fields, Told, Truncate, Writes, OutOfDate, At
  <2> QED BY <1>o, <2>1, <2>2
<1>15. CASE Write(e)
  <2>1. CASE ed' = [OutOfDate(ed, e) EXCEPT ![e].at = "stat", ![e].failed = FALSE]
    <3>1. OthersKeepTitle(e)
      BY <1>15, <1>t, <2>1 DEF Types, Fields, OthersKeepTitle, Write, OutOfDate, At
    <3>2. Told(e)'
      BY <1>15, <1>t, <1>e, <2>1, ZenonT(30) DEF Types, Fields, Told, Write, OutOfDate, At
    <3> QED BY <1>o, <3>1, <3>2
  <2>2. CASE ed' = [ed EXCEPT ![e].at = "stat", ![e].failed = TRUE]
    <3>1. OthersKeepTitle(e)
      BY <1>15, <1>t, <2>2 DEF Types, Fields, OthersKeepTitle, Write, OutOfDate, At
    <3>2. Told(e)'
      BY <1>15, <1>t, <1>e, <2>2 DEF Types, Fields, Told, Write, OutOfDate, At
    <3> QED BY <1>o, <3>1, <3>2
  <2> QED BY <1>15, <2>1, <2>2 DEF Write
<1>16. CASE Stat(e)
  <2>1. OthersKeepTitle(e)
    BY <1>16, <1>t DEF Types, Fields, OthersKeepTitle, Stat, At, Undisturbed
  <2>2. Told(e)'
    BY <1>16, <1>t, <1>e DEF Types, Fields, Told, Stat, At, Undisturbed
  <2> QED BY <1>o, <2>1, <2>2
<1>17. CASE Visit(e)
  <2>1. OthersKeepTitle(e)
    BY <1>17, <1>t DEF Types, Fields, OthersKeepTitle, Visit, At, Undisturbed
  <2>2. Told(e)'
    BY <1>17, <1>t, <1>e DEF Types, Fields, Told, Visit, At, Undisturbed
  <2> QED BY <1>o, <2>1, <2>2
<1>18. CASE Read(e)
  <2>1. OthersKeepTitle(e)
    BY <1>18, <1>t DEF Types, Fields, OthersKeepTitle, Read, At, Undisturbed
  <2>2. Told(e)'
    BY <1>18, <1>t, <1>e DEF Types, Fields, Told, Read, At, Undisturbed
  <2> QED BY <1>o, <2>1, <2>2
<1>19. CASE KillBuffer(e)
  <2>1. CASE ed[e].modified
    <3>1. OthersKeepTitle(e)
      BY <1>19, <1>t, <2>1 DEF Types, Fields, OthersKeepTitle, KillBuffer, Abandoned, Closed, Idle, At, Undisturbed
    <3>2. Told(e)'
      BY <1>19, <1>t, <1>e, <2>1 DEF Types, Fields, Told, KillBuffer, Abandoned, Closed, Idle, At, Undisturbed
    <3> QED BY <1>o, <3>1, <3>2
  <2>2. CASE ~ed[e].modified
    <3>1. OthersKeepTitle(e)
      BY <1>19, <1>t, <2>2 DEF Types, Fields, OthersKeepTitle, KillBuffer, Abandoned, Closed, Idle, At, Undisturbed
    <3>2. Told(e)'
      BY <1>19, <1>t, <1>e, <2>2 DEF Types, Fields, Told, KillBuffer, Abandoned, Closed, Idle, At, Undisturbed
    <3> QED BY <1>o, <3>1, <3>2
  <2> QED BY <1>19, <2>1, <2>2 DEF KillBuffer
<1>20. CASE ShutDown(e)
  <2>1. CASE ed[e].modified
    <3>1. OthersKeepTitle(e)
      BY <1>20, <1>t, <2>1 DEF Types, Fields, OthersKeepTitle, ShutDown, Corpse, Idle, Alive, At, Undisturbed
    <3>2. Told(e)'
      BY <1>20, <1>t, <1>e, <2>1 DEF Types, Fields, Told, ShutDown, Corpse, Idle, Alive, At, Undisturbed
    <3> QED BY <1>o, <3>1, <3>2
  <2>2. CASE ~ed[e].modified
    <3>1. OthersKeepTitle(e)
      BY <1>20, <1>t, <2>2 DEF Types, Fields, OthersKeepTitle, ShutDown, Corpse, Idle, Alive, At, Undisturbed
    <3>2. Told(e)'
      BY <1>20, <1>t, <1>e, <2>2 DEF Types, Fields, Told, ShutDown, Corpse, Idle, Alive, At, Undisturbed
    <3> QED BY <1>o, <3>1, <3>2
  <2> QED BY <1>20, <2>1, <2>2 DEF ShutDown
<1>21. CASE Crash(e)
  <2>1. OthersKeepTitle(e)
    BY <1>21, <1>t DEF Types, Fields, OthersKeepTitle, Crash, Corpse, Idle, Alive, At, Undisturbed
  <2>2. Told(e)'
    BY <1>21, <1>t, <1>e DEF Types, Fields, Told, Crash, Corpse, Idle, Alive, At, Undisturbed
  <2> QED BY <1>o, <2>1, <2>2
<1>22. CASE BeginUnlock(e)
  <2>1. OthersKeepTitle(e)
    BY <1>22, <1>t DEF Types, Fields, OthersKeepTitle, BeginUnlock, LockSuperlock, Go, At
  <2>2. Told(e)'
    BY <1>22, <1>t, <1>e DEF Types, Fields, Told, BeginUnlock, LockSuperlock, Go, At
  <2> QED BY <1>o, <2>1, <2>2
<1>23. CASE CheckOwn(e)
  <2>1. OthersKeepTitle(e)
    BY <1>23, <1>t DEF Types, Fields, OthersKeepTitle, CheckOwn, Go, At, Undisturbed
  <2>2. Told(e)'
    BY <1>23, <1>t, <1>e DEF Types, Fields, Told, CheckOwn, Go, At, Undisturbed
  <2> QED BY <1>o, <2>1, <2>2
<1>24. CASE Unlink(e)
  <2>1. OthersKeepTitle(e)
    BY <1>24, <1>t DEF Types, Fields, OthersKeepTitle, Unlink, Unlinked, At
  <2>2. Told(e)'
    BY <1>24, <1>t, <1>e DEF Types, Fields, Told, Unlink, Unlinked, At
  <2> QED BY <1>o, <2>1, <2>2
<1>25. CASE Conclude(e)
  <2>1. OthersKeepTitle(e)
    BY <1>25, <1>t DEF Types, Fields, OthersKeepTitle, Conclude, Concluded, Done, Closed, Corpse, Idle, At, Undisturbed
  <2>2. Told(e)'
    BY <1>25, <1>t, <1>e DEF Types, Fields, Told, Conclude, Concluded, Done, Closed, Corpse, Idle, At, Undisturbed
  <2> QED BY <1>o, <2>1, <2>2
<1> QED
  BY <1>1, <1>2, <1>3, <1>4, <1>5, <1>6, <1>7, <1>8, <1>9, <1>10, <1>11, <1>12, <1>13, <1>14, <1>15, <1>16, <1>17, <1>18, <1>19, <1>20, <1>21, <1>22, <1>23, <1>24, <1>25
     DEF Step

\* A user whose buffer is modified has the lock, or was asked, or lost it to
\* another user or to write-region (ask-user-about-lock, write-region).
THEOREM ModifiedMeansToldSoHolds == Spec => []ModifiedMeansToldSo
<1>1. Init => ToldInv
  <2> SUFFICES ASSUME Init PROVE ToldInv
    OBVIOUS
  <2>1. Types
    BY DEF Init, Types, Fields, Idle
  <2>2. \A e \in Editors : ~ed[e].modified /\ ed[e].at = "idle"
    BY DEF Init, Idle
  <2> QED BY <2>1, <2>2 DEF ToldInv, Told
<1>2. ToldInv /\ [Next]_vars => ToldInv'
  <2>1. ASSUME ToldInv, NEW e \in Editors, Step(e) PROVE ToldInv'
    BY <2>1, ToldStep
  <2>2. ASSUME ToldInv, UNCHANGED vars PROVE ToldInv'
    BY <2>2 DEF ToldInv, Types, Told, vars
  <2> QED BY <2>1, <2>2 DEF Next
<1>3. ToldInv => ModifiedMeansToldSo
  BY DEF ToldInv, Told, ModifiedMeansToldSo
<1> QED BY <1>1, <1>2, <1>3, PTL DEF Spec

(***************************************************************************)
(* What a buffer has of the file.  The text of an editor that writes is    *)
(* nobody else's business: writers own the lock.                           *)
(***************************************************************************)
Elsewhere == {"read", "write", "stat", "closed", "dead"}
Giving == {"unlock", "own?", "unlink", "unlocked"}

\* Nobody was asked, so nobody steals, and who gets past the lock has it.
TakesLock(e) ==
  /\ ed[e].at \notin {"steal", "attack", "overwrite", "let go"}
  /\ ed[e].at \in {"locked", "write", "stat"} => ed[e].title = "taken"
  /\ ed[e].task = "exit" => ed[e].at \in Giving

\* A buffer that claims the time of the file has all that is in the file,
\* and nothing else unless it is modified or could not be written.
HasFile(e) ==
  /\ ed[e].at \notin Elsewhere /\ ed[e].task # "exit" /\ ed[e].match =>
       /\ disk \subseteq ed[e].text
       /\ ~ed[e].failed /\ (~ed[e].modified
                              \/ (ed[e].task = "save" /\ ed[e].at \in Giving))
            => disk = ed[e].text
  /\ ed[e].at = "write" => disk = {}
  /\ ed[e].at = "stat" => /\ disk \subseteq ed[e].text
                          /\ ~ed[e].failed => disk = ed[e].text

\* On its way to the lock it still has it, unless it was overtaken.
HasFileStill(e) ==
  ed[e].at \in BeforeLock \cup {"locked"} /\ ~ed[e].overtaken
    => disk \subseteq ed[e].text

FileOf(e) == TakesLock(e) /\ HasFile(e) /\ HasFileStill(e)
FileInv == LockInv /\ (~raced /\ ~warned => \A e \in Editors : FileOf(e))

\* What a step of e does to the others.
SameBuffer(e) ==
  \A f \in Editors \ {e} :
    /\ ed'[f].at = ed[f].at /\ ed'[f].task = ed[f].task
    /\ ed'[f].title = ed[f].title /\ ed'[f].text = ed[f].text
    /\ ed'[f].modified = ed[f].modified /\ ed'[f].failed = ed[f].failed
SameTime(e) ==
  \A f \in Editors \ {e} :
    /\ ed'[f].match = ed[f].match /\ ed'[f].overtaken = ed[f].overtaken
NewTime(e) ==
  \A f \in Editors \ {e} :
    /\ ~ed'[f].match
    /\ ~ed'[f].overtaken => ~ed[f].overtaken /\ ed[f].at \notin BeforeLock

\* The text of e, and what else it knows of the file.
KeepsText(e) ==
  /\ ed'[e].text = ed[e].text /\ ed'[e].modified = ed[e].modified
  /\ ed'[e].match = ed[e].match /\ ed'[e].failed = ed[e].failed

\* A step that leaves the file alone.
LEMMA FileAlone ==
  ASSUME \A f \in Editors : FileOf(f), NEW e \in Editors,
         disk' = disk, SameBuffer(e), SameTime(e), FileOf(e)'
  PROVE  \A f \in Editors : FileOf(f)'
<1> SUFFICES ASSUME NEW f \in Editors \ {e} PROVE FileOf(f)'
  OBVIOUS
<1>1. FileOf(f)
  OBVIOUS
<1>2. TakesLock(f)'
  BY <1>1 DEF FileOf, TakesLock, SameBuffer
<1>3. HasFile(f)'
  BY <1>1 DEF FileOf, HasFile, SameBuffer, SameTime
<1>4. HasFileStill(f)'
  BY <1>1 DEF FileOf, HasFileStill, SameBuffer, SameTime
<1> QED BY <1>2, <1>3, <1>4 DEF FileOf

\* A write to the file is by the editor that has the lock, so by no other.
LEMMA FileWritten ==
  ASSUME \A f \in Editors : FileOf(f) /\ Knows(f), NEW e \in Editors,
         ed[e].at \in {"locked", "write"}, SameBuffer(e), NewTime(e), FileOf(e)'
  PROVE  \A f \in Editors : FileOf(f)'
<1> SUFFICES ASSUME NEW f \in Editors \ {e} PROVE FileOf(f)'
  OBVIOUS
<1>1. FileOf(f) /\ Knows(f) /\ FileOf(e) /\ Knows(e)
  OBVIOUS
<1>2. TakesLock(f)'
  BY <1>1 DEF FileOf, TakesLock, SameBuffer
<1>3. lock = e
  BY <1>1 DEF FileOf, TakesLock, Knows, Settled
<1>4. ed[f].at \notin {"locked", "write", "stat"}
  BY <1>1, <1>3 DEF FileOf, TakesLock, Knows, Settled
<1>5. HasFile(f)'
  BY <1>4 DEF HasFile, SameBuffer, NewTime
<1>6. HasFileStill(f)'
  BY <1>4 DEF HasFileStill, SameBuffer, NewTime
<1> QED BY <1>2, <1>5, <1>6 DEF FileOf

\* Nothing makes up for a race or an answer.
LEMMA NoWayBack ==
  ASSUME NEW e \in Editors, Step(e), ~raced', ~warned'
  PROVE  ~raced /\ ~warned
<1>1. CASE Edit(e)
  BY <1>1 DEF Edit, LockFile
<1>2. CASE WriteRegion(e)
  BY <1>2 DEF WriteRegion, LockFile
<1>3. CASE Supersede(e)
  BY <1>3 DEF Supersede
<1>4. CASE CreateLock(e)
  BY <1>4 DEF CreateLock, Undisturbed
<1>5. CASE WritePid(e)
  BY <1>5 DEF WritePid, Undisturbed
<1>6. CASE Look(e)
  BY <1>6 DEF Look, Undisturbed
<1>7. CASE BreakLock(e)
  BY <1>7 DEF BreakLock
<1>8. CASE Ask(e)
  BY <1>8 DEF Ask
<1>9. CASE BeginSteal(e)
  BY <1>9 DEF BeginSteal, LockSuperlock
<1>10. CASE Attack(e)
  BY <1>10 DEF Attack
<1>11. CASE Overwrite(e)
  BY <1>11 DEF Overwrite
<1>12. CASE LetGo(e)
  BY <1>12 DEF LetGo, Undisturbed
<1>13. CASE Modify(e)
  BY <1>13 DEF Modify, Undisturbed
<1>14. CASE Truncate(e)
  BY <1>14 DEF Truncate
<1>15. CASE Write(e)
  BY <1>15 DEF Write
<1>16. CASE Stat(e)
  BY <1>16 DEF Stat, Undisturbed
<1>17. CASE Visit(e)
  BY <1>17 DEF Visit, Undisturbed
<1>18. CASE Read(e)
  BY <1>18 DEF Read, Undisturbed
<1>19. CASE KillBuffer(e)
  BY <1>19 DEF KillBuffer, Undisturbed
<1>20. CASE ShutDown(e)
  BY <1>20 DEF ShutDown, Undisturbed
<1>21. CASE Crash(e)
  BY <1>21 DEF Crash, Undisturbed
<1>22. CASE BeginUnlock(e)
  BY <1>22 DEF BeginUnlock, LockSuperlock
<1>23. CASE CheckOwn(e)
  BY <1>23 DEF CheckOwn, Undisturbed
<1>24. CASE Unlink(e)
  BY <1>24 DEF Unlink
<1>25. CASE Conclude(e)
  BY <1>25 DEF Conclude, Undisturbed
<1> QED
  BY <1>1, <1>2, <1>3, <1>4, <1>5, <1>6, <1>7, <1>8, <1>9, <1>10, <1>11, <1>12, <1>13,
     <1>14, <1>15, <1>16, <1>17, <1>18, <1>19, <1>20, <1>21, <1>22, <1>23, <1>24, <1>25
     DEF Step

LEMMA FileStep ==
  ASSUME FileInv, NEW e \in Editors, Step(e)
  PROVE  FileInv'
<1>1. LockInv'
  BY LockStep DEF FileInv
<1> SUFFICES ASSUME ~raced', ~warned' PROVE \A f \in Editors : FileOf(f)'
  BY <1>1 DEF FileInv
<1>2. ~raced /\ ~warned
  BY NoWayBack
<1>t. Types
  BY DEF FileInv, LockInv
<1>f. \A f \in Editors : FileOf(f) /\ Knows(f)
  BY <1>2 DEF FileInv, LockInv
<1>e. TakesLock(e) /\ HasFile(e) /\ HasFileStill(e)
  BY <1>f DEF FileOf
<1>3. CASE Edit(e)
  <2>1. CASE ed[e].match
    <3>1. disk' = disk /\ SameTime(e) /\ SameBuffer(e)
      BY <1>3, <2>1, <1>t DEF Types, Fields, SameTime, SameBuffer, Edit, LockFile, At
    <3>2. /\ ed[e].at = "idle" /\ ed'[e].at = "lock" /\ ed'[e].task = "edit"
          /\ ed'[e].overtaken = ed[e].overtaken /\ KeepsText(e)
          /\ ed[e].match
      BY <1>3, <2>1, <1>t DEF Types, Fields, KeepsText, Edit, LockFile, At
    <3>3. TakesLock(e)'
      BY <1>e, <3>1, <3>2 DEF TakesLock, Giving
    <3>4. HasFile(e)'
      BY <1>e, <3>1, <3>2 DEF TakesLock, HasFile, KeepsText, Elsewhere, Giving
    <3>5. HasFileStill(e)'
      BY <1>e, <3>1, <3>2
         DEF TakesLock, HasFile, HasFileStill, KeepsText, BeforeLock, Elsewhere, Giving
    <3> QED
      BY <1>f, <3>1, <3>3, <3>4, <3>5, FileAlone DEF FileOf
  <2>2. CASE ~ed[e].match
    <3>1. disk' = disk /\ SameTime(e) /\ SameBuffer(e)
      BY <1>3, <2>2, <1>t DEF Types, Fields, SameTime, SameBuffer, Edit, LockFile, At
    <3>2. /\ ed[e].at = "idle" /\ ed'[e].at = "threat"
          /\ ed'[e].task = "edit" /\ ed'[e].overtaken = ed[e].overtaken
          /\ KeepsText(e) /\ ~ed[e].match
      BY <1>3, <2>2, <1>t DEF Types, Fields, KeepsText, Edit, LockFile, At
    <3>3. TakesLock(e)'
      BY <1>e, <3>1, <3>2 DEF TakesLock, Giving
    <3>4. HasFile(e)'
      BY <1>e, <3>1, <3>2 DEF TakesLock, HasFile, KeepsText, Elsewhere, Giving
    <3>5. HasFileStill(e)'
      BY <1>e, <3>1, <3>2
         DEF TakesLock, HasFile, HasFileStill, KeepsText, BeforeLock, Elsewhere, Giving
    <3> QED
      BY <1>f, <3>1, <3>3, <3>4, <3>5, FileAlone DEF FileOf
  <2> QED BY <1>3, <2>1, <2>2 DEF Edit
<1>4. CASE WriteRegion(e)
  <2>1. CASE ed[e].match
    <3>1. disk' = disk /\ SameTime(e) /\ SameBuffer(e)
      BY <1>4, <2>1, <1>t DEF Types, Fields, SameTime, SameBuffer, WriteRegion, LockFile, At
    <3>2. /\ ed[e].at = "idle" /\ ed'[e].at = "lock" /\ ed'[e].task = "save"
          /\ ed'[e].overtaken = ed[e].overtaken /\ KeepsText(e)
          /\ ed[e].match
      BY <1>4, <2>1, <1>t DEF Types, Fields, KeepsText, WriteRegion, LockFile, At
    <3>3. TakesLock(e)'
      BY <1>e, <3>1, <3>2 DEF TakesLock, Giving
    <3>4. HasFile(e)'
      BY <1>e, <3>1, <3>2 DEF TakesLock, HasFile, KeepsText, Elsewhere, Giving
    <3>5. HasFileStill(e)'
      BY <1>e, <3>1, <3>2
         DEF TakesLock, HasFile, HasFileStill, KeepsText, BeforeLock, Elsewhere, Giving
    <3> QED
      BY <1>f, <3>1, <3>3, <3>4, <3>5, FileAlone DEF FileOf
  <2>2. CASE ~ed[e].match
    <3>1. disk' = disk /\ SameTime(e) /\ SameBuffer(e)
      BY <1>4, <2>2, <1>t DEF Types, Fields, SameTime, SameBuffer, WriteRegion, LockFile, At
    <3>2. /\ ed[e].at = "idle" /\ ed'[e].at = "threat"
          /\ ed'[e].task = "save" /\ ed'[e].overtaken = ed[e].overtaken
          /\ KeepsText(e) /\ ~ed[e].match
      BY <1>4, <2>2, <1>t DEF Types, Fields, KeepsText, WriteRegion, LockFile, At
    <3>3. TakesLock(e)'
      BY <1>e, <3>1, <3>2 DEF TakesLock, Giving
    <3>4. HasFile(e)'
      BY <1>e, <3>1, <3>2 DEF TakesLock, HasFile, KeepsText, Elsewhere, Giving
    <3>5. HasFileStill(e)'
      BY <1>e, <3>1, <3>2
         DEF TakesLock, HasFile, HasFileStill, KeepsText, BeforeLock, Elsewhere, Giving
    <3> QED
      BY <1>f, <3>1, <3>3, <3>4, <3>5, FileAlone DEF FileOf
  <2> QED BY <1>4, <2>1, <2>2 DEF WriteRegion
<1>5. CASE Supersede(e)
  <2>0. ed[e].at = "threat" /\ disk' = disk /\ ed' = [ed EXCEPT ![e] = Done(e, @)]
    BY <1>5 DEF Supersede, Go, Done, At
  <2>1. disk' = disk /\ SameTime(e) /\ SameBuffer(e)
    BY <2>0, <1>t DEF Types, Fields, SameTime, SameBuffer, Unlinked, Done, Closed, Corpse, Idle
  <2>2. /\ ed[e].at = "threat" /\ ed'[e].at = "idle"
        /\ ed'[e].task = "edit" /\ KeepsText(e)
    BY <2>0, <1>t DEF Types, Fields, KeepsText, Unlinked, Done, Closed, Corpse, Idle
  <2>3. TakesLock(e)'
    BY <1>e, <2>1, <2>2 DEF TakesLock, Giving
  <2>4. HasFile(e)'
    BY <1>e, <2>1, <2>2 DEF TakesLock, HasFile, KeepsText, Elsewhere, Giving
  <2>5. HasFileStill(e)'
    BY <1>e, <2>1, <2>2
       DEF TakesLock, HasFile, HasFileStill, KeepsText, BeforeLock, Elsewhere, Giving
  <2> QED
    BY <1>f, <2>1, <2>3, <2>4, <2>5, FileAlone DEF FileOf
<1>6. CASE CreateLock(e)
  <2>1. CASE lock = Free
    <3>0. ed[e].at = "lock" /\ disk' = disk
      /\ ed' = [ed EXCEPT ![e].fd = "linked", ![e].at = "write pid"]
      BY <1>6, <2>1 DEF CreateLock, Go, At, Undisturbed
    <3>1. disk' = disk /\ SameTime(e) /\ SameBuffer(e)
      BY <3>0, <1>t DEF Types, Fields, SameTime, SameBuffer, Unlinked, Done, Closed, Corpse, Idle
    <3>2. /\ ed[e].at = "lock" /\ ed'[e].at = "write pid"
          /\ ed'[e].task = ed[e].task /\ ed'[e].overtaken = ed[e].overtaken
          /\ KeepsText(e)
      BY <3>0, <1>t DEF Types, Fields, KeepsText, Unlinked, Done, Closed, Corpse, Idle
    <3>3. TakesLock(e)'
      BY <1>e, <3>1, <3>2 DEF TakesLock, Giving
    <3>4. HasFile(e)'
      BY <1>e, <3>1, <3>2 DEF TakesLock, HasFile, KeepsText, Elsewhere, Giving
    <3>5. HasFileStill(e)'
      BY <1>e, <3>1, <3>2
         DEF TakesLock, HasFile, HasFileStill, KeepsText, BeforeLock, Elsewhere, Giving
    <3> QED
      BY <1>f, <3>1, <3>3, <3>4, <3>5, FileAlone DEF FileOf
  <2>2. CASE lock # Free
    <3>1. disk' = disk /\ SameTime(e) /\ SameBuffer(e)
      BY <1>6, <2>2, <1>t DEF Types, Fields, SameTime, SameBuffer, CreateLock, Go, At, Undisturbed
    <3>2. /\ ed[e].at = "lock" /\ ed'[e].at = "look"
          /\ ed'[e].task = ed[e].task /\ ed'[e].overtaken = ed[e].overtaken
          /\ KeepsText(e)
      BY <1>6, <2>2, <1>t DEF Types, Fields, KeepsText, CreateLock, Go, At, Undisturbed
    <3>3. TakesLock(e)'
      BY <1>e, <3>1, <3>2 DEF TakesLock, Giving
    <3>4. HasFile(e)'
      BY <1>e, <3>1, <3>2 DEF TakesLock, HasFile, KeepsText, Elsewhere, Giving
    <3>5. HasFileStill(e)'
      BY <1>e, <3>1, <3>2
         DEF TakesLock, HasFile, HasFileStill, KeepsText, BeforeLock, Elsewhere, Giving
    <3> QED
      BY <1>f, <3>1, <3>3, <3>4, <3>5, FileAlone DEF FileOf
  <2> QED BY <1>6, <2>1, <2>2 DEF CreateLock
<1>7. CASE WritePid(e)
  <2>1. disk' = disk /\ SameTime(e) /\ SameBuffer(e)
    BY <1>7, <1>t DEF Types, Fields, SameTime, SameBuffer, WritePid, At, Undisturbed
  <2>2. /\ ed[e].at = "write pid" /\ ed'[e].at = "locked"
        /\ ed'[e].task = ed[e].task /\ ed'[e].title = "taken"
        /\ ed'[e].overtaken = ed[e].overtaken /\ KeepsText(e)
    BY <1>7, <1>t DEF Types, Fields, KeepsText, WritePid, At, Undisturbed
  <2>3. TakesLock(e)'
    BY <1>e, <2>1, <2>2 DEF TakesLock, Giving
  <2>4. HasFile(e)'
    BY <1>e, <2>1, <2>2 DEF TakesLock, HasFile, KeepsText, Elsewhere, Giving
  <2>5. HasFileStill(e)'
    BY <1>e, <2>1, <2>2
       DEF TakesLock, HasFile, HasFileStill, KeepsText, BeforeLock, Elsewhere, Giving
  <2> QED
    BY <1>f, <2>1, <2>3, <2>4, <2>5, FileAlone DEF FileOf
<1>8. CASE Look(e)
  <2>1. CASE Go(e, "lock")
    <3>1. disk' = disk /\ SameTime(e) /\ SameBuffer(e)
      BY <1>8, <2>1, <1>t DEF Types, Fields, SameTime, SameBuffer, Look, Go, At, Undisturbed
    <3>2. /\ ed[e].at = "look" /\ ed'[e].at = "lock"
          /\ ed'[e].task = ed[e].task /\ ed'[e].overtaken = ed[e].overtaken
          /\ KeepsText(e)
      BY <1>8, <2>1, <1>t DEF Types, Fields, KeepsText, Look, Go, At, Undisturbed
    <3>3. TakesLock(e)'
      BY <1>e, <3>1, <3>2 DEF TakesLock, Giving
    <3>4. HasFile(e)'
      BY <1>e, <3>1, <3>2 DEF TakesLock, HasFile, KeepsText, Elsewhere, Giving
    <3>5. HasFileStill(e)'
      BY <1>e, <3>1, <3>2
         DEF TakesLock, HasFile, HasFileStill, KeepsText, BeforeLock, Elsewhere, Giving
    <3> QED
      BY <1>f, <3>1, <3>3, <3>4, <3>5, FileAlone DEF FileOf
  <2>2. CASE ed' = [ed EXCEPT ![e].title = "taken", ![e].at = "locked"]
    <3>1. disk' = disk /\ SameTime(e) /\ SameBuffer(e)
      BY <1>8, <2>2, <1>t DEF Types, Fields, SameTime, SameBuffer, Look, Go, At, Undisturbed
    <3>2. /\ ed[e].at = "look" /\ ed'[e].at = "locked"
          /\ ed'[e].task = ed[e].task /\ ed'[e].title = "taken"
          /\ ed'[e].overtaken = ed[e].overtaken /\ KeepsText(e)
      BY <1>8, <2>2, <1>t DEF Types, Fields, KeepsText, Look, Go, At, Undisturbed
    <3>3. TakesLock(e)'
      BY <1>e, <3>1, <3>2 DEF TakesLock, Giving
    <3>4. HasFile(e)'
      BY <1>e, <3>1, <3>2 DEF TakesLock, HasFile, KeepsText, Elsewhere, Giving
    <3>5. HasFileStill(e)'
      BY <1>e, <3>1, <3>2
         DEF TakesLock, HasFile, HasFileStill, KeepsText, BeforeLock, Elsewhere, Giving
    <3> QED
      BY <1>f, <3>1, <3>3, <3>4, <3>5, FileAlone DEF FileOf
  <2>3. CASE Go(e, "ask")
    <3>1. disk' = disk /\ SameTime(e) /\ SameBuffer(e)
      BY <1>8, <2>3, <1>t DEF Types, Fields, SameTime, SameBuffer, Look, Go, At, Undisturbed
    <3>2. /\ ed[e].at = "look" /\ ed'[e].at = "ask"
          /\ ed'[e].task = ed[e].task /\ KeepsText(e)
      BY <1>8, <2>3, <1>t DEF Types, Fields, KeepsText, Look, Go, At, Undisturbed
    <3>3. TakesLock(e)'
      BY <1>e, <3>1, <3>2 DEF TakesLock, Giving
    <3>4. HasFile(e)'
      BY <1>e, <3>1, <3>2 DEF TakesLock, HasFile, KeepsText, Elsewhere, Giving
    <3>5. HasFileStill(e)'
      BY <1>e, <3>1, <3>2
         DEF TakesLock, HasFile, HasFileStill, KeepsText, BeforeLock, Elsewhere, Giving
    <3> QED
      BY <1>f, <3>1, <3>3, <3>4, <3>5, FileAlone DEF FileOf
  <2>4. CASE Go(e, "break")
    <3>1. disk' = disk /\ SameTime(e) /\ SameBuffer(e)
      BY <1>8, <2>4, <1>t DEF Types, Fields, SameTime, SameBuffer, Look, Go, At, Undisturbed
    <3>2. /\ ed[e].at = "look" /\ ed'[e].at = "break"
          /\ ed'[e].task = ed[e].task /\ ed'[e].overtaken = ed[e].overtaken
          /\ KeepsText(e)
      BY <1>8, <2>4, <1>t DEF Types, Fields, KeepsText, Look, Go, At, Undisturbed
    <3>3. TakesLock(e)'
      BY <1>e, <3>1, <3>2 DEF TakesLock, Giving
    <3>4. HasFile(e)'
      BY <1>e, <3>1, <3>2 DEF TakesLock, HasFile, KeepsText, Elsewhere, Giving
    <3>5. HasFileStill(e)'
      BY <1>e, <3>1, <3>2
         DEF TakesLock, HasFile, HasFileStill, KeepsText, BeforeLock, Elsewhere, Giving
    <3> QED
      BY <1>f, <3>1, <3>3, <3>4, <3>5, FileAlone DEF FileOf
  <2> QED BY <1>8, <2>1, <2>2, <2>3, <2>4 DEF Look
<1>9. CASE BreakLock(e)
  <2>1. CASE lock = Free
    <3>0. ed[e].at = "break" /\ disk' = disk
      /\ ed' = [ed EXCEPT ![e].title = "taken", ![e].at = "locked"]
      BY <1>9, <2>1 DEF BreakLock, Unlinked, At
    <3>1. disk' = disk /\ SameTime(e) /\ SameBuffer(e)
      BY <3>0, <1>t DEF Types, Fields, SameTime, SameBuffer, Unlinked, Done, Closed, Corpse, Idle
    <3>2. /\ ed[e].at = "break" /\ ed'[e].at = "locked"
          /\ ed'[e].task = ed[e].task /\ ed'[e].title = "taken"
          /\ ed'[e].overtaken = ed[e].overtaken /\ KeepsText(e)
      BY <3>0, <1>t DEF Types, Fields, KeepsText, Unlinked, Done, Closed, Corpse, Idle
    <3>3. TakesLock(e)'
      BY <1>e, <3>1, <3>2 DEF TakesLock, Giving
    <3>4. HasFile(e)'
      BY <1>e, <3>1, <3>2 DEF TakesLock, HasFile, KeepsText, Elsewhere, Giving
    <3>5. HasFileStill(e)'
      BY <1>e, <3>1, <3>2
         DEF TakesLock, HasFile, HasFileStill, KeepsText, BeforeLock, Elsewhere, Giving
    <3> QED
      BY <1>f, <3>1, <3>3, <3>4, <3>5, FileAlone DEF FileOf
  <2>2. CASE lock # Free
    <3>0. ed[e].at = "break" /\ disk' = disk
      /\ ed' = [Unlinked(ed) EXCEPT ![e].at = "lock"]
      BY <1>9, <2>2 DEF BreakLock, Unlinked, At
    <3>1. disk' = disk /\ SameTime(e) /\ SameBuffer(e)
      BY <3>0, <1>t DEF Types, Fields, SameTime, SameBuffer, Unlinked, Done, Closed, Corpse, Idle
    <3>2. /\ ed[e].at = "break" /\ ed'[e].at = "lock"
          /\ ed'[e].task = ed[e].task /\ ed'[e].overtaken = ed[e].overtaken
          /\ KeepsText(e)
      BY <3>0, <1>t DEF Types, Fields, KeepsText, Unlinked, Done, Closed, Corpse, Idle
    <3>3. TakesLock(e)'
      BY <1>e, <3>1, <3>2 DEF TakesLock, Giving
    <3>4. HasFile(e)'
      BY <1>e, <3>1, <3>2 DEF TakesLock, HasFile, KeepsText, Elsewhere, Giving
    <3>5. HasFileStill(e)'
      BY <1>e, <3>1, <3>2
         DEF TakesLock, HasFile, HasFileStill, KeepsText, BeforeLock, Elsewhere, Giving
    <3> QED
      BY <1>f, <3>1, <3>3, <3>4, <3>5, FileAlone DEF FileOf
  <2> QED BY <1>9, <2>1, <2>2 DEF BreakLock
<1>10. CASE Ask(e)
  <2>0. ed[e].at = "ask" /\ disk' = disk /\ ed' = [ed EXCEPT ![e] = Done(e, @)]
    BY <1>10 DEF Ask, Go, Done, At
  <2>1. disk' = disk /\ SameTime(e) /\ SameBuffer(e)
    BY <2>0, <1>t DEF Types, Fields, SameTime, SameBuffer, Unlinked, Done, Closed, Corpse, Idle
  <2>2. /\ ed[e].at = "ask" /\ ed'[e].at = "idle" /\ ed'[e].task = "edit"
        /\ KeepsText(e)
    BY <2>0, <1>t DEF Types, Fields, KeepsText, Unlinked, Done, Closed, Corpse, Idle
  <2>3. TakesLock(e)'
    BY <1>e, <2>1, <2>2 DEF TakesLock, Giving
  <2>4. HasFile(e)'
    BY <1>e, <2>1, <2>2 DEF TakesLock, HasFile, KeepsText, Elsewhere, Giving
  <2>5. HasFileStill(e)'
    BY <1>e, <2>1, <2>2
       DEF TakesLock, HasFile, HasFileStill, KeepsText, BeforeLock, Elsewhere, Giving
  <2> QED
    BY <1>f, <2>1, <2>3, <2>4, <2>5, FileAlone DEF FileOf
<1>11. CASE BeginSteal(e)
  BY <1>11, <1>e DEF TakesLock, BeginSteal, LockSuperlock, Go, At
<1>12. CASE Attack(e)
  BY <1>12, <1>e DEF TakesLock, Attack, At
<1>13. CASE Overwrite(e)
  BY <1>13, <1>e DEF TakesLock, Overwrite, At
<1>14. CASE LetGo(e)
  BY <1>14, <1>e DEF TakesLock, LetGo, Go, At, Undisturbed
<1>15. CASE Modify(e)
  <2>1. CASE ed' = [ed EXCEPT ![e] = [Done(e, @) EXCEPT !.text = ed[e].text \cup {e}, !.modified = TRUE]]
    <3>1. disk' = disk /\ SameTime(e) /\ SameBuffer(e)
      BY <1>15, <2>1, <1>t DEF Types, Fields, SameTime, SameBuffer, Modify, Done, At, Undisturbed
    <3>2. /\ ed[e].at = "locked" /\ ed'[e].at = "idle"
          /\ ed'[e].task = "edit" /\ ed'[e].text = ed[e].text \cup {e}
          /\ ed'[e].modified /\ ed'[e].match = ed[e].match
      BY <1>15, <2>1, <1>t DEF Types, Fields, KeepsText, Modify, Done, At, Undisturbed
    <3>3. TakesLock(e)'
      BY <1>e, <3>1, <3>2 DEF TakesLock, Giving
    <3>4. HasFile(e)'
      BY <1>e, <3>1, <3>2 DEF TakesLock, HasFile, KeepsText, Elsewhere, Giving
    <3>5. HasFileStill(e)'
      BY <1>e, <3>1, <3>2
         DEF TakesLock, HasFile, HasFileStill, KeepsText, BeforeLock, Elsewhere, Giving
    <3> QED
      BY <1>f, <3>1, <3>3, <3>4, <3>5, FileAlone DEF FileOf
  <2>2. CASE ed' = [ed EXCEPT ![e] = Done(e, @)]
    <3>1. disk' = disk /\ SameTime(e) /\ SameBuffer(e)
      BY <1>15, <2>2, <1>t DEF Types, Fields, SameTime, SameBuffer, Modify, Done, At, Undisturbed
    <3>2. /\ ed[e].at = "locked" /\ ed'[e].at = "idle"
          /\ ed'[e].task = "edit" /\ KeepsText(e)
      BY <1>15, <2>2, <1>t DEF Types, Fields, KeepsText, Modify, Done, At, Undisturbed
    <3>3. TakesLock(e)'
      BY <1>e, <3>1, <3>2 DEF TakesLock, Giving
    <3>4. HasFile(e)'
      BY <1>e, <3>1, <3>2 DEF TakesLock, HasFile, KeepsText, Elsewhere, Giving
    <3>5. HasFileStill(e)'
      BY <1>e, <3>1, <3>2
         DEF TakesLock, HasFile, HasFileStill, KeepsText, BeforeLock, Elsewhere, Giving
    <3> QED
      BY <1>f, <3>1, <3>3, <3>4, <3>5, FileAlone DEF FileOf
  <2> QED BY <1>15, <2>1, <2>2 DEF Modify
<1>16. CASE Truncate(e)
  <2>1. CASE disk' = {} /\ ed' = [OutOfDate(ed, e) EXCEPT ![e].at = "write"]
    <3>0. ed[e].at = "locked" /\ disk' = {}
      /\ ed' = [OutOfDate(ed, e) EXCEPT ![e].at = "write"]
      BY <1>16, <2>1 DEF Truncate, Writes, OutOfDate, At
    <3>1. NewTime(e) /\ SameBuffer(e)
      BY <3>0, <1>t DEF Types, Fields, NewTime, SameBuffer, OutOfDate, BeforeLock
    <3>2. /\ ed[e].at = "locked" /\ ed'[e].at = "write"
          /\ ed'[e].task = ed[e].task /\ ed'[e].title = ed[e].title
          /\ disk' = {}
      BY <3>0, <1>t DEF Types, Fields, KeepsText, OutOfDate
    <3>3. TakesLock(e)'
      BY <1>e, <3>1, <3>2 DEF TakesLock, Giving
    <3>4. HasFile(e)'
      BY <1>e, <3>1, <3>2 DEF TakesLock, HasFile, KeepsText, Elsewhere, Giving
    <3>5. HasFileStill(e)'
      BY <1>e, <3>1, <3>2
         DEF TakesLock, HasFile, HasFileStill, KeepsText, BeforeLock, Elsewhere, Giving
    <3> QED
      BY <1>f, <3>1, <3>2, <3>3, <3>4, <3>5, FileWritten DEF FileOf
  <2>2. CASE disk' = disk /\ ed' = [ed EXCEPT ![e].at = "unlock", ![e].failed = TRUE]
    <3>1. disk' = disk /\ SameTime(e) /\ SameBuffer(e)
      BY <1>16, <2>2, <1>t DEF Types, Fields, SameTime, SameBuffer, Truncate, Writes, OutOfDate, At
    <3>2. /\ ed[e].at = "locked" /\ ed'[e].at = "unlock"
          /\ ed'[e].task = ed[e].task /\ ed'[e].text = ed[e].text
          /\ ed'[e].match = ed[e].match /\ ed'[e].failed
      BY <1>16, <2>2, <1>t DEF Types, Fields, KeepsText, Truncate, Writes, OutOfDate, At
    <3>3. TakesLock(e)'
      BY <1>e, <3>1, <3>2 DEF TakesLock, Giving
    <3>4. HasFile(e)'
      BY <1>e, <3>1, <3>2 DEF TakesLock, HasFile, KeepsText, Elsewhere, Giving
    <3>5. HasFileStill(e)'
      BY <1>e, <3>1, <3>2
         DEF TakesLock, HasFile, HasFileStill, KeepsText, BeforeLock, Elsewhere, Giving
    <3> QED
      BY <1>f, <3>1, <3>3, <3>4, <3>5, FileAlone DEF FileOf
  <2> QED BY <1>16, <2>1, <2>2 DEF Truncate
<1>17. CASE Write(e)
  <2>1. CASE disk' = ed[e].text /\ ed' = [OutOfDate(ed, e) EXCEPT ![e].at = "stat", ![e].failed = FALSE]
    <3>1. NewTime(e) /\ SameBuffer(e)
      BY <1>17, <2>1, <1>t, ZenonT(30) DEF Types, Fields, NewTime, SameBuffer, Write, OutOfDate, At, BeforeLock
    <3>2. /\ ed[e].at = "write" /\ ed'[e].at = "stat"
          /\ ed'[e].task = ed[e].task /\ ed'[e].title = ed[e].title
          /\ disk' = ed[e].text /\ ed'[e].text = ed[e].text
      BY <1>17, <2>1, <1>t, ZenonT(30) DEF Types, Fields, KeepsText, Write, OutOfDate, At
    <3>3. TakesLock(e)'
      BY <1>e, <3>1, <3>2 DEF TakesLock, Giving
    <3>4. HasFile(e)'
      BY <1>e, <3>1, <3>2 DEF TakesLock, HasFile, KeepsText, Elsewhere, Giving
    <3>5. HasFileStill(e)'
      BY <1>e, <3>1, <3>2
         DEF TakesLock, HasFile, HasFileStill, KeepsText, BeforeLock, Elsewhere, Giving
    <3> QED
      BY <1>f, <3>1, <3>2, <3>3, <3>4, <3>5, FileWritten DEF FileOf
  <2>2. CASE disk' = disk /\ ed' = [ed EXCEPT ![e].at = "stat", ![e].failed = TRUE]
    <3>1. disk' = disk /\ SameTime(e) /\ SameBuffer(e)
      BY <1>17, <2>2, <1>t DEF Types, Fields, SameTime, SameBuffer, Write, OutOfDate, At
    <3>2. /\ ed[e].at = "write" /\ ed'[e].at = "stat"
          /\ ed'[e].task = ed[e].task /\ ed'[e].title = ed[e].title
          /\ ed'[e].failed
      BY <1>17, <2>2, <1>t DEF Types, Fields, KeepsText, Write, OutOfDate, At
    <3>3. TakesLock(e)'
      BY <1>e, <3>1, <3>2 DEF TakesLock, Giving
    <3>4. HasFile(e)'
      BY <1>e, <3>1, <3>2 DEF TakesLock, HasFile, KeepsText, Elsewhere, Giving
    <3>5. HasFileStill(e)'
      BY <1>e, <3>1, <3>2
         DEF TakesLock, HasFile, HasFileStill, KeepsText, BeforeLock, Elsewhere, Giving
    <3> QED
      BY <1>f, <3>1, <3>3, <3>4, <3>5, FileAlone DEF FileOf
  <2> QED BY <1>17, <2>1, <2>2 DEF Write
<1>18. CASE Stat(e)
  <2>1. disk' = disk /\ SameTime(e) /\ SameBuffer(e)
    BY <1>18, <1>t DEF Types, Fields, SameTime, SameBuffer, Stat, At, Undisturbed
  <2>2. /\ ed[e].at = "stat" /\ ed'[e].at = "unlock"
        /\ ed'[e].task = ed[e].task /\ ed'[e].text = ed[e].text
        /\ ed'[e].failed = ed[e].failed
    BY <1>18, <1>t DEF Types, Fields, KeepsText, Stat, At, Undisturbed
  <2>3. TakesLock(e)'
    BY <1>e, <2>1, <2>2 DEF TakesLock, Giving
  <2>4. HasFile(e)'
    BY <1>e, <2>1, <2>2 DEF TakesLock, HasFile, KeepsText, Elsewhere, Giving
  <2>5. HasFileStill(e)'
    BY <1>e, <2>1, <2>2
       DEF TakesLock, HasFile, HasFileStill, KeepsText, BeforeLock, Elsewhere, Giving
  <2> QED
    BY <1>f, <2>1, <2>3, <2>4, <2>5, FileAlone DEF FileOf
<1>19. CASE Visit(e)
  <2>1. disk' = disk /\ SameTime(e) /\ SameBuffer(e)
    BY <1>19, <1>t DEF Types, Fields, SameTime, SameBuffer, Visit, At, Undisturbed
  <2>2. /\ ed'[e].at = "read" /\ ed'[e].task = "visit"
    BY <1>19, <1>t DEF Types, Fields, KeepsText, Visit, At, Undisturbed
  <2>3. TakesLock(e)'
    BY <1>e, <2>1, <2>2 DEF TakesLock, Giving
  <2>4. HasFile(e)'
    BY <1>e, <2>1, <2>2 DEF TakesLock, HasFile, KeepsText, Elsewhere, Giving
  <2>5. HasFileStill(e)'
    BY <1>e, <2>1, <2>2
       DEF TakesLock, HasFile, HasFileStill, KeepsText, BeforeLock, Elsewhere, Giving
  <2> QED
    BY <1>f, <2>1, <2>3, <2>4, <2>5, FileAlone DEF FileOf
<1>20. CASE Read(e)
  <2>1. disk' = disk /\ SameTime(e) /\ SameBuffer(e)
    BY <1>20, <1>t DEF Types, Fields, SameTime, SameBuffer, Read, At, Undisturbed
  <2>2. /\ ed[e].at = "read" /\ ed'[e].at = "unlock"
        /\ ed'[e].task = ed[e].task /\ ed'[e].text = disk
    BY <1>20, <1>t DEF Types, Fields, KeepsText, Read, At, Undisturbed
  <2>3. TakesLock(e)'
    BY <1>e, <2>1, <2>2 DEF TakesLock, Giving
  <2>4. HasFile(e)'
    BY <1>e, <2>1, <2>2 DEF TakesLock, HasFile, KeepsText, Elsewhere, Giving
  <2>5. HasFileStill(e)'
    BY <1>e, <2>1, <2>2
       DEF TakesLock, HasFile, HasFileStill, KeepsText, BeforeLock, Elsewhere, Giving
  <2> QED
    BY <1>f, <2>1, <2>3, <2>4, <2>5, FileAlone DEF FileOf
<1>21. CASE KillBuffer(e)
  <2>1. CASE ed[e].modified
    <3>1. disk' = disk /\ SameTime(e) /\ SameBuffer(e)
      BY <1>21, <2>1, <1>t DEF Types, Fields, SameTime, SameBuffer, KillBuffer, Abandoned, Closed, Idle, At, Undisturbed
    <3>2. /\ ed[e].at = "idle" /\ ed'[e].at = "unlock"
          /\ ed'[e].task = "kill" /\ KeepsText(e)
      BY <1>21, <2>1, <1>t DEF Types, Fields, KeepsText, KillBuffer, Abandoned, Closed, Idle, At, Undisturbed
    <3>3. TakesLock(e)'
      BY <1>e, <3>1, <3>2 DEF TakesLock, Giving
    <3>4. HasFile(e)'
      BY <1>e, <3>1, <3>2 DEF TakesLock, HasFile, KeepsText, Elsewhere, Giving
    <3>5. HasFileStill(e)'
      BY <1>e, <3>1, <3>2
         DEF TakesLock, HasFile, HasFileStill, KeepsText, BeforeLock, Elsewhere, Giving
    <3> QED
      BY <1>f, <3>1, <3>3, <3>4, <3>5, FileAlone DEF FileOf
  <2>2. CASE ~ed[e].modified
    <3>1. disk' = disk /\ SameTime(e) /\ SameBuffer(e)
      BY <1>21, <2>2, <1>t DEF Types, Fields, SameTime, SameBuffer, KillBuffer, Abandoned, Closed, Idle, At, Undisturbed
    <3>2. /\ ed[e].at = "idle" /\ ed'[e].at = "closed"
          /\ ed'[e].task = "edit"
      BY <1>21, <2>2, <1>t DEF Types, Fields, KeepsText, KillBuffer, Abandoned, Closed, Idle, At, Undisturbed
    <3>3. TakesLock(e)'
      BY <1>e, <3>1, <3>2 DEF TakesLock, Giving
    <3>4. HasFile(e)'
      BY <1>e, <3>1, <3>2 DEF TakesLock, HasFile, KeepsText, Elsewhere, Giving
    <3>5. HasFileStill(e)'
      BY <1>e, <3>1, <3>2
         DEF TakesLock, HasFile, HasFileStill, KeepsText, BeforeLock, Elsewhere, Giving
    <3> QED
      BY <1>f, <3>1, <3>3, <3>4, <3>5, FileAlone DEF FileOf
  <2> QED BY <1>21, <2>1, <2>2 DEF KillBuffer
<1>22. CASE ShutDown(e)
  <2>1. CASE ed[e].modified
    <3>1. disk' = disk /\ SameTime(e) /\ SameBuffer(e)
      BY <1>22, <2>1, <1>t DEF Types, Fields, SameTime, SameBuffer, ShutDown, Corpse, Idle, Alive, At, Undisturbed
    <3>2. /\ ed'[e].at = "unlock" /\ ed'[e].task = "exit"
      BY <1>22, <2>1, <1>t DEF Types, Fields, KeepsText, ShutDown, Corpse, Idle, Alive, At, Undisturbed
    <3>3. TakesLock(e)'
      BY <1>e, <3>1, <3>2 DEF TakesLock, Giving
    <3>4. HasFile(e)'
      BY <1>e, <3>1, <3>2 DEF TakesLock, HasFile, KeepsText, Elsewhere, Giving
    <3>5. HasFileStill(e)'
      BY <1>e, <3>1, <3>2
         DEF TakesLock, HasFile, HasFileStill, KeepsText, BeforeLock, Elsewhere, Giving
    <3> QED
      BY <1>f, <3>1, <3>3, <3>4, <3>5, FileAlone DEF FileOf
  <2>2. CASE ~ed[e].modified
    <3>1. disk' = disk /\ SameTime(e) /\ SameBuffer(e)
      BY <1>22, <2>2, <1>t DEF Types, Fields, SameTime, SameBuffer, ShutDown, Corpse, Idle, Alive, At, Undisturbed
    <3>2. /\ ed'[e].at = "dead" /\ ed'[e].task = "edit"
      BY <1>22, <2>2, <1>t DEF Types, Fields, KeepsText, ShutDown, Corpse, Idle, Alive, At, Undisturbed
    <3>3. TakesLock(e)'
      BY <1>e, <3>1, <3>2 DEF TakesLock, Giving
    <3>4. HasFile(e)'
      BY <1>e, <3>1, <3>2 DEF TakesLock, HasFile, KeepsText, Elsewhere, Giving
    <3>5. HasFileStill(e)'
      BY <1>e, <3>1, <3>2
         DEF TakesLock, HasFile, HasFileStill, KeepsText, BeforeLock, Elsewhere, Giving
    <3> QED
      BY <1>f, <3>1, <3>3, <3>4, <3>5, FileAlone DEF FileOf
  <2> QED BY <1>22, <2>1, <2>2 DEF ShutDown
<1>23. CASE Crash(e)
  <2>1. disk' = disk /\ SameTime(e) /\ SameBuffer(e)
    BY <1>23, <1>t DEF Types, Fields, SameTime, SameBuffer, Crash, Corpse, Idle, Alive, At, Undisturbed
  <2>2. /\ ed'[e].at = "dead" /\ ed'[e].task = "edit"
    BY <1>23, <1>t DEF Types, Fields, KeepsText, Crash, Corpse, Idle, Alive, At, Undisturbed
  <2>3. TakesLock(e)'
    BY <1>e, <2>1, <2>2 DEF TakesLock, Giving
  <2>4. HasFile(e)'
    BY <1>e, <2>1, <2>2 DEF TakesLock, HasFile, KeepsText, Elsewhere, Giving
  <2>5. HasFileStill(e)'
    BY <1>e, <2>1, <2>2
       DEF TakesLock, HasFile, HasFileStill, KeepsText, BeforeLock, Elsewhere, Giving
  <2> QED
    BY <1>f, <2>1, <2>3, <2>4, <2>5, FileAlone DEF FileOf
<1>24. CASE BeginUnlock(e)
  <2>1. disk' = disk /\ SameTime(e) /\ SameBuffer(e)
    BY <1>24, <1>t DEF Types, Fields, SameTime, SameBuffer, BeginUnlock, LockSuperlock, Go, At
  <2>2. /\ ed[e].at = "unlock" /\ ed'[e].at = "own?"
        /\ ed'[e].task = ed[e].task /\ KeepsText(e)
    BY <1>24, <1>t DEF Types, Fields, KeepsText, BeginUnlock, LockSuperlock, Go, At
  <2>3. TakesLock(e)'
    BY <1>e, <2>1, <2>2 DEF TakesLock, Giving
  <2>4. HasFile(e)'
    BY <1>e, <2>1, <2>2 DEF TakesLock, HasFile, KeepsText, Elsewhere, Giving
  <2>5. HasFileStill(e)'
    BY <1>e, <2>1, <2>2
       DEF TakesLock, HasFile, HasFileStill, KeepsText, BeforeLock, Elsewhere, Giving
  <2> QED
    BY <1>f, <2>1, <2>3, <2>4, <2>5, FileAlone DEF FileOf
<1>25. CASE CheckOwn(e)
  <2>1. CASE lock = e
    <3>1. disk' = disk /\ SameTime(e) /\ SameBuffer(e)
      BY <1>25, <2>1, <1>t DEF Types, Fields, SameTime, SameBuffer, CheckOwn, Go, At, Undisturbed
    <3>2. /\ ed[e].at = "own?" /\ ed'[e].at = "unlink"
          /\ ed'[e].task = ed[e].task /\ KeepsText(e)
      BY <1>25, <2>1, <1>t DEF Types, Fields, KeepsText, CheckOwn, Go, At, Undisturbed
    <3>3. TakesLock(e)'
      BY <1>e, <3>1, <3>2 DEF TakesLock, Giving
    <3>4. HasFile(e)'
      BY <1>e, <3>1, <3>2 DEF TakesLock, HasFile, KeepsText, Elsewhere, Giving
    <3>5. HasFileStill(e)'
      BY <1>e, <3>1, <3>2
         DEF TakesLock, HasFile, HasFileStill, KeepsText, BeforeLock, Elsewhere, Giving
    <3> QED
      BY <1>f, <3>1, <3>3, <3>4, <3>5, FileAlone DEF FileOf
  <2>2. CASE lock # e
    <3>1. disk' = disk /\ SameTime(e) /\ SameBuffer(e)
      BY <1>25, <2>2, <1>t DEF Types, Fields, SameTime, SameBuffer, CheckOwn, Go, At, Undisturbed
    <3>2. /\ ed[e].at = "own?" /\ ed'[e].at = "unlocked"
          /\ ed'[e].task = ed[e].task /\ KeepsText(e)
      BY <1>25, <2>2, <1>t DEF Types, Fields, KeepsText, CheckOwn, Go, At, Undisturbed
    <3>3. TakesLock(e)'
      BY <1>e, <3>1, <3>2 DEF TakesLock, Giving
    <3>4. HasFile(e)'
      BY <1>e, <3>1, <3>2 DEF TakesLock, HasFile, KeepsText, Elsewhere, Giving
    <3>5. HasFileStill(e)'
      BY <1>e, <3>1, <3>2
         DEF TakesLock, HasFile, HasFileStill, KeepsText, BeforeLock, Elsewhere, Giving
    <3> QED
      BY <1>f, <3>1, <3>3, <3>4, <3>5, FileAlone DEF FileOf
  <2> QED BY <1>25, <2>1, <2>2 DEF CheckOwn
<1>26. CASE Unlink(e)
  <2>1. disk' = disk /\ SameTime(e) /\ SameBuffer(e)
    BY <1>26, <1>t DEF Types, Fields, SameTime, SameBuffer, Unlink, Unlinked, At
  <2>2. /\ ed[e].at = "unlink" /\ ed'[e].at = "unlocked"
        /\ ed'[e].task = ed[e].task /\ KeepsText(e)
    BY <1>26, <1>t DEF Types, Fields, KeepsText, Unlink, Unlinked, At
  <2>3. TakesLock(e)'
    BY <1>e, <2>1, <2>2 DEF TakesLock, Giving
  <2>4. HasFile(e)'
    BY <1>e, <2>1, <2>2 DEF TakesLock, HasFile, KeepsText, Elsewhere, Giving
  <2>5. HasFileStill(e)'
    BY <1>e, <2>1, <2>2
       DEF TakesLock, HasFile, HasFileStill, KeepsText, BeforeLock, Elsewhere, Giving
  <2> QED
    BY <1>f, <2>1, <2>3, <2>4, <2>5, FileAlone DEF FileOf
<1>27. CASE Conclude(e)
  <2>1. CASE ed[e].task = "kill"
    <3>0. ed[e].at = "unlocked" /\ disk' = disk /\ ed' = [ed EXCEPT ![e] = Closed]
      <4>1. Concluded(e) = Closed
        BY <2>1 DEF Concluded
      <4> QED BY <1>27, <4>1 DEF Conclude, At, Undisturbed
    <3>1. disk' = disk /\ SameTime(e) /\ SameBuffer(e)
      BY <3>0, <1>t DEF Types, Fields, SameTime, SameBuffer, Unlinked, Done, Closed, Corpse, Idle
    <3>2. /\ ed[e].at = "unlocked" /\ ed'[e].at = "closed"
          /\ ed'[e].task = "edit"
      BY <3>0, <1>t DEF Types, Fields, KeepsText, Unlinked, Done, Closed, Corpse, Idle
    <3>3. TakesLock(e)'
      BY <1>e, <3>1, <3>2, <2>1 DEF TakesLock, Giving
    <3>4. HasFile(e)'
      BY <1>e, <3>1, <3>2, <2>1 DEF TakesLock, HasFile, KeepsText, Elsewhere, Giving
    <3>5. HasFileStill(e)'
      BY <1>e, <3>1, <3>2, <2>1
         DEF TakesLock, HasFile, HasFileStill, KeepsText, BeforeLock, Elsewhere, Giving
    <3> QED
      BY <1>f, <3>1, <3>3, <3>4, <3>5, FileAlone DEF FileOf
  <2>2. CASE ed[e].task = "exit"
    <3>0. ed[e].at = "unlocked" /\ disk' = disk /\ ed' = [ed EXCEPT ![e] = Corpse]
      <4>1. Concluded(e) = Corpse
        BY <2>2 DEF Concluded
      <4> QED BY <1>27, <4>1 DEF Conclude, At, Undisturbed
    <3>1. disk' = disk /\ SameTime(e) /\ SameBuffer(e)
      BY <3>0, <1>t DEF Types, Fields, SameTime, SameBuffer, Unlinked, Done, Closed, Corpse, Idle
    <3>2. /\ ed[e].at = "unlocked" /\ ed'[e].at = "dead"
          /\ ed'[e].task = "edit"
      BY <3>0, <1>t DEF Types, Fields, KeepsText, Unlinked, Done, Closed, Corpse, Idle
    <3>3. TakesLock(e)'
      BY <1>e, <3>1, <3>2, <2>2 DEF TakesLock, Giving
    <3>4. HasFile(e)'
      BY <1>e, <3>1, <3>2, <2>2 DEF TakesLock, HasFile, KeepsText, Elsewhere, Giving
    <3>5. HasFileStill(e)'
      BY <1>e, <3>1, <3>2, <2>2
         DEF TakesLock, HasFile, HasFileStill, KeepsText, BeforeLock, Elsewhere, Giving
    <3> QED
      BY <1>f, <3>1, <3>3, <3>4, <3>5, FileAlone DEF FileOf
  <2>3. CASE ed[e].task \notin {"kill", "exit"} /\ ((ed[e].task = "save" /\ ~ed[e].failed) \/ ~ed[e].modified)
    <3>1. disk' = disk /\ SameTime(e) /\ SameBuffer(e)
      BY <1>27, <2>3, <1>t DEF Types, Fields, SameTime, SameBuffer, Conclude, Concluded, Done, Closed, Corpse, Idle, At, Undisturbed
    <3>2. /\ ed[e].at = "unlocked" /\ ed'[e].at = "idle"
          /\ ed'[e].task = "edit" /\ ed'[e].text = ed[e].text
          /\ ed'[e].match = ed[e].match /\ ed'[e].failed = ed[e].failed
      BY <1>27, <2>3, <1>t DEF Types, Fields, KeepsText, Conclude, Concluded, Done, Closed, Corpse, Idle, At, Undisturbed
    <3>3. TakesLock(e)'
      BY <1>e, <3>1, <3>2, <2>3 DEF TakesLock, Giving
    <3>4. HasFile(e)'
      BY <1>e, <3>1, <3>2, <2>3 DEF TakesLock, HasFile, KeepsText, Elsewhere, Giving
    <3>5. HasFileStill(e)'
      BY <1>e, <3>1, <3>2, <2>3
         DEF TakesLock, HasFile, HasFileStill, KeepsText, BeforeLock, Elsewhere, Giving
    <3> QED
      BY <1>f, <3>1, <3>3, <3>4, <3>5, FileAlone DEF FileOf
  <2>4. CASE ed[e].task \notin {"kill", "exit"} /\ ~((ed[e].task = "save" /\ ~ed[e].failed) \/ ~ed[e].modified)
    <3>1. disk' = disk /\ SameTime(e) /\ SameBuffer(e)
      BY <1>27, <2>4, <1>t DEF Types, Fields, SameTime, SameBuffer, Conclude, Concluded, Done, Closed, Corpse, Idle, At, Undisturbed
    <3>2. /\ ed[e].at = "unlocked" /\ ed'[e].at = "idle"
          /\ ed'[e].task = "edit" /\ KeepsText(e)
      BY <1>27, <2>4, <1>t DEF Types, Fields, KeepsText, Conclude, Concluded, Done, Closed, Corpse, Idle, At, Undisturbed
    <3>3. TakesLock(e)'
      BY <1>e, <3>1, <3>2, <2>4 DEF TakesLock, Giving
    <3>4. HasFile(e)'
      BY <1>e, <3>1, <3>2, <2>4 DEF TakesLock, HasFile, KeepsText, Elsewhere, Giving
    <3>5. HasFileStill(e)'
      BY <1>e, <3>1, <3>2, <2>4
         DEF TakesLock, HasFile, HasFileStill, KeepsText, BeforeLock, Elsewhere, Giving
    <3> QED
      BY <1>f, <3>1, <3>3, <3>4, <3>5, FileAlone DEF FileOf
  <2> QED BY <1>27, <2>1, <2>2, <2>3, <2>4 DEF Conclude
<1> QED
  BY <1>3, <1>4, <1>5, <1>6, <1>7, <1>8, <1>9, <1>10, <1>11, <1>12, <1>13, <1>14, <1>15, <1>16, <1>17, <1>18, <1>19, <1>20, <1>21, <1>22, <1>23, <1>24, <1>25, <1>26, <1>27
     DEF Step

THEOREM FileInvariant == Spec => []FileInv
<1>1. Init => FileInv
  <2> SUFFICES ASSUME Init PROVE FileInv
    OBVIOUS
  <2>1. \A e \in Editors : ed[e] = Idle
    BY DEF Init
  <2>2. \A e \in Editors : FileOf(e)
    BY <2>1 DEF Init, Idle, FileOf, TakesLock, HasFile, HasFileStill, BeforeLock,
                Elsewhere, Giving
  <2> QED BY <2>2, LockInit DEF FileInv
<1>2. FileInv /\ [Next]_vars => FileInv'
  <2>1. ASSUME FileInv, NEW e \in Editors, Step(e) PROVE FileInv'
    BY <2>1, FileStep
  <2>2. ASSUME FileInv, UNCHANGED vars PROVE FileInv'
    BY <2>2 DEF FileInv, LockInv, Types, OneWriter, Knows, FileOf, TakesLock, HasFile,
                HasFileStill, vars
  <2> QED BY <2>1, <2>2 DEF Next
<1> QED BY <1>1, <1>2, PTL DEF Spec

\* What verify-visited-file-modtime promises: with the time of the file, an
\* unmodified buffer has its text.
THEOREM UnmodifiedMeansOnDiskHolds == Spec => []UnmodifiedMeansOnDisk
<1>1. FileInv => UnmodifiedMeansOnDisk
  BY DEF FileInv, FileOf, TakesLock, HasFile, Elsewhere, Giving, UnmodifiedMeansOnDisk, At
<1> QED BY <1>1, FileInvariant, PTL

\* Unasked, write-region replaces nothing that another editor has saved since
\* the buffer was read, but for a save that overtook it on its way to the lock.
THEOREM SaveLosesNothingHolds == Spec => []SaveLosesNothing
<1>1. FileInv => SaveLosesNothing
  BY DEF FileInv, FileOf, HasFileStill, SaveLosesNothing, Writes, At
<1> QED BY <1>1, FileInvariant, PTL
===============================================================================
