------------------------------ MODULE Windows ------------------------------
(***************************************************************************)
(* The tree of windows (window.c): leaves show buffers, combinations stack *)
(* their children ("v") or set them side by side ("h"), and the edges and  *)
(* sizes are kept in every window.  The minibuffer's window is below the   *)
(* root and trades lines with it.                                          *)
(*                                                                         *)
(* Points, window starts, scrolling and the choice of display-buffer are   *)
(* left out; the screen keeps its size.                                    *)
(***************************************************************************)
EXTENDS Integers, Sequences, SequencesExt, FiniteSets, TLC

CONSTANTS
  ShownBuffers,
  ScreenHeight, ScreenWidth, WindowMinHeight, WindowMinWidth,
  MaxWindows, MaxSaved, \* bounds: windows shown, and in a configuration
  Deltas                \* by how much a window is enlarged

WindowsAssumption ==
  /\ WindowMinHeight \in 2 .. ScreenHeight - 1
  /\ WindowMinWidth \in 1 .. ScreenWidth
  /\ MaxWindows \in Nat /\ MaxSaved \in Nat /\ Deltas \subseteq Int

VARIABLES
  root,    \* the tree
  mini,    \* height of the minibuffer's window
  live,    \* buffers not killed
  saved,   \* a window configuration
  lost,    \* the selected window went with a combination that was deleted
  garbled  \* a resizing went wrong, see Broken

windowVars == <<root, mini, live, saved, lost, garbled>>

(***************************************************************************)
(* A window: of its kids a leaf has none, and only leaves have a buffer    *)
(* and can be selected.                                                    *)
(***************************************************************************)
NoBuffer == "nil"
Leaf(b) == [dir |-> "leaf", kids |-> <<>>, buffer |-> b, selected |-> FALSE,
            top |-> 0, left |-> 0, height |-> 0, width |-> 0]
Placed(w, like) == [w EXCEPT !.top = like.top, !.left = like.left,
                             !.height = like.height, !.width = like.width]

Along(axis) == IF axis = "height" THEN "v" ELSE "h"
Across(dir) == IF dir = "v" THEN "height" ELSE "width"
Edge(axis) == IF axis = "height" THEN "top" ELSE "left"
MinSize(axis) == IF axis = "height" THEN WindowMinHeight ELSE WindowMinWidth

-----------------------------------------------------------------------------
\* Windows are found by their path from the root.
RECURSIVE Paths(_)
Paths(w) ==
  {<<>>} \cup UNION {{<<i>> \o p : p \in Paths(w.kids[i])} : i \in DOMAIN w.kids}
RECURSIVE At(_, _)
At(w, p) == IF p = <<>> THEN w ELSE At(w.kids[Head(p)], Tail(p))
RECURSIVE With(_, _, _)
With(w, p, new) ==
  IF p = <<>> THEN new
  ELSE [w EXCEPT !.kids[Head(p)] = With(@, Tail(p), new)]

RECURSIVE Leaves(_)
Leaves(w) ==
  IF w.dir = "leaf" THEN {<<>>}
  ELSE UNION {{<<i>> \o p : p \in Leaves(w.kids[i])} : i \in DOMAIN w.kids}
Parent(p) == Front(p)
RECURSIVE Windows(_)
Windows(w) == {w} \cup UNION {Windows(w.kids[i]) : i \in DOMAIN w.kids}

(***************************************************************************)
(* Deleting and resizing follow the pointers of struct window, also those  *)
(* of windows that have just been deleted: links[p] is the window that had *)
(* the path p when the command began.                                      *)
(***************************************************************************)
None == <<-1>>
Mini == <<0>>  \* minibuf_window

Linked ==
  LET Beside(p, n) ==
        IF p # <<>> /\ Last(p) + n \in DOMAIN At(root, Parent(p)).kids
        THEN Append(Parent(p), Last(p) + n) ELSE None
      Node(w, next, prev, parent, first) ==
        [dir |-> w.dir, buffer |-> w.buffer, selected |-> w.selected,
         top |-> w.top, left |-> w.left, height |-> w.height, width |-> w.width,
         next |-> next, prev |-> prev, parent |-> parent, first |-> first,
         dead |-> FALSE]
  IN Mini :> Node([Leaf(NoBuffer) EXCEPT !.height = mini], None, <<>>, None, None)
     @@ [p \in Paths(root) |->
           Node(At(root, p), IF p = <<>> THEN Mini ELSE Beside(p, 1),
                Beside(p, 0 - 1), IF p = <<>> THEN None ELSE Parent(p),
                IF At(root, p).kids = <<>> THEN None ELSE Append(p, 1))]

RECURSIVE Tree(_, _)
RECURSIVE Kids(_, _)
Tree(links, p) ==
  LET w == links[p]
  IN [Placed(Leaf(w.buffer), w) EXCEPT !.dir = w.dir, !.selected = w.selected,
                                       !.kids = Kids(links, w.first)]
Kids(links, p) ==
  IF p = None THEN <<>> ELSE <<Tree(links, p)>> \o Kids(links, links[p].next)

Put(links, p, field, value) ==
  IF p = None THEN links ELSE [links EXCEPT ![p][field] = value]

\* What the windows are then is not modelled: an arithmetic error has left the
\* sizes half done, or a window has been deleted twice.
Broken == <<>>
Then(links, Op(_)) == IF links = Broken THEN Broken ELSE Op(links)

\* replace_window: a combination of one.
Replaced(links, old, new) ==
  LET o == links[old]
      up == o.parent
      moved == [links EXCEPT
        ![new] = [Placed(@, o) EXCEPT !.next = o.next, !.prev = o.prev,
                                      !.parent = up]]
      beside == Put(Put(moved, o.next, "prev", new), o.prev, "next", new)
  IN IF up # None /\ links[up].first = old THEN Put(beside, up, "first", new)
     ELSE beside

\* next-window
RECURSIVE Following(_, _)
Following(links, p) ==
  IF links[p].next \notin {None, Mini} THEN links[p].next
  ELSE IF links[p].parent = None THEN p ELSE Following(links, links[p].parent)
RECURSIVE FirstLeaf(_, _)
FirstLeaf(links, p) ==
  IF links[p].first = None THEN p ELSE FirstLeaf(links, links[p].first)

\* Plausible bug: the selected window is deleted and no other selected.
SelectNoNext(links, p) == links

SelectNext(links, p) ==
  [links EXCEPT ![p].selected = FALSE,
                ![FirstLeaf(links, Following(links, p))].selected = TRUE]

(***************************************************************************)
(* set_window_height and set_window_width.  Children along the axis share  *)
(* the size in proportion; when the old size is 0 that divides by 0, and   *)
(* SIGFPE is an error of Lisp (data.c:1631).  Without nodelete, children   *)
(* that are now too small are deleted by a second walk.                    *)
(*                                                                         *)
(* A walk goes on with the next of the window it was at, whatever that has *)
(* become.  When the first of two children has been deleted, the other has *)
(* its parent's next, so that the walk runs on over the siblings of their  *)
(* parent; and the walk over these, which is still at the parent, goes on  *)
(* with the parent's next, which may have been deleted in between.         *)
(***************************************************************************)
RECURSIVE SetSize(_, _, _, _, _)
RECURSIVE Spread(_, _, _, _, _, _, _, _)
RECURSIVE SetEach(_, _, _, _, _, _)
RECURSIVE Prune(_, _, _)
RECURSIVE DeleteFrom(_, _)

SetSize(links, p, size, axis, nodelete) ==
  LET w == links[p]
      sized == [links EXCEPT ![p][axis] = size]
  IN IF ~nodelete /\ w.parent # None /\ size < MinSize(axis)
       THEN DeleteFrom(links, p)
     ELSE IF w.dir # Along(axis)
       THEN SetEach(sized, w.first, p, size, axis, nodelete)
     ELSE IF w[axis] = 0 THEN Broken
     ELSE Then(Spread(sized, w.first, p, w[axis], size, 0, 0, axis),
               LAMBDA spread : IF nodelete THEN spread
                               ELSE Prune(spread, spread[p].first, axis))

SetEach(links, kid, p, size, axis, nodelete) ==
  IF kid = None THEN links
  ELSE Then(SetSize([links EXCEPT ![kid][Edge(axis)] = links[p][Edge(axis)]],
                    kid, size, axis, nodelete),
            LAMBDA set : SetEach(set, set[kid].next, p, size, axis, nodelete))

\* was and is: where the child before ended, and where it ends now.
Spread(links, kid, p, osize, size, was, is, axis) ==
  IF kid = None THEN links
  ELSE LET opos == was + links[kid][axis]
           pos == (2 * opos * size + osize) \div (2 * osize)
       IN Then(SetSize([links EXCEPT ![kid][Edge(axis)] = links[p][Edge(axis)] + is],
                       kid, pos - is, axis, TRUE),
               LAMBDA set : Spread(set, set[kid].next, p, osize, size, opos, pos, axis))

\* Plausible bug: they are never deleted.
PruneNothing(links, kid, axis) == links

Prune(links, kid, axis) ==
  IF kid = None THEN links
  ELSE Then(SetSize(links, kid, links[kid][axis], axis, FALSE),
            LAMBDA set : Prune(set, set[kid].next, axis))

(***************************************************************************)
(* Fdelete_window: its siblings take its space, and one that is left alone *)
(* takes the place of the combination.  To delete a window again aborts,   *)
(* as its markers are gone, or takes the size of a combination off twice.  *)
(***************************************************************************)
DeleteFrom(links, p) ==
  LET w == links[p]
      par == w.parent
      axis == Across(links[par].dir)
      chosen == IF w.selected THEN SelectNext(links, p) ELSE links
      unlinked ==
        [Put(Put(chosen, w.next, "prev", w.prev), w.prev, "next", w.next)
           EXCEPT ![par].first = IF @ = p THEN w.next ELSE @,
                  ![par][axis] = @ - w[axis],
                  ![p].dead = TRUE]
  IN IF w.dead THEN Broken
     ELSE Then(SetSize(unlinked, par, links[par][axis], axis, TRUE),
               LAMBDA set : LET left == set[par].first
                            IN IF set[left].next # None THEN set
                               ELSE Replaced(set, par, left))

\* The windows as they are after a command.  A combination that is deleted was
\* not itself the selected window; if that was inside, it stays selected and is
\* no longer shown.
Install(links) ==
  IF links = Broken THEN garbled' = TRUE /\ UNCHANGED <<root, mini, lost>>
  ELSE \E w \in {Tree(links, links[Mini].prev)} :
         /\ root' = w /\ mini' = links[Mini].height
         /\ lost' = /\ \A p \in Leaves(w) : ~At(w, p).selected
                    /\ lost \/ \E p \in DOMAIN links :
                                 links[p].dead /\ links[p].first # None
         /\ UNCHANGED garbled

\* select-window
Selecting(w, p) ==
  LET RECURSIVE Clear(_)
      Clear(v) == [v EXCEPT !.selected = FALSE,
                            !.kids = [i \in DOMAIN @ |-> Clear(@[i])]]
  IN With(Clear(w), p, [At(w, p) EXCEPT !.selected = TRUE])

-----------------------------------------------------------------------------
WindowInit ==
  /\ \E b \in ShownBuffers :
       root = [Leaf(b) EXCEPT !.selected = TRUE, !.width = ScreenWidth,
                              !.height = ScreenHeight - 1]
  /\ mini = 1 /\ live = ShownBuffers /\ lost = FALSE /\ garbled = FALSE
  /\ saved = [root |-> root, mini |-> mini]

SelectWindow(p) ==
  /\ root' = Selecting(root, p) /\ lost' = FALSE
  /\ UNCHANGED <<mini, live, saved, garbled>>

SplitWindow(p, dir) ==
  /\ LET o == At(root, p)
         axis == Across(dir)
         Half(edge, size) == [o EXCEPT ![Edge(axis)] = edge, ![axis] = size]
     IN \E size \in MinSize(axis) .. o[axis] - MinSize(axis) :
          LET pair == <<Half(o[Edge(axis)], size),
                        [Half(o[Edge(axis)] + size, o[axis] - size)
                           EXCEPT !.selected = FALSE]>>
              up == At(root, Parent(p))
          IN /\ Cardinality(Leaves(root)) < MaxWindows
             /\ root' =
               IF p # <<>> /\ up.dir = dir
               THEN With(root, Parent(p),
                 [up EXCEPT !.kids = SubSeq(@, 1, Last(p) - 1) \o pair
                                       \o SubSeq(@, Last(p) + 1, Len(@))])
               ELSE With(root, p, [Placed(Leaf(NoBuffer), o) EXCEPT
                                     !.dir = dir, !.kids = pair])
  /\ UNCHANGED <<mini, live, saved, lost, garbled>>

DeleteWindow(p) ==
  /\ p # <<>>
  /\ Install(DeleteFrom(Linked, p))
  /\ UNCHANGED <<live, saved>>

DeleteOtherWindows(p) ==
  /\ root' = [Placed(At(root, p), root) EXCEPT !.selected = ~lost]
  /\ UNCHANGED <<mini, live, saved, lost, garbled>>

(***************************************************************************)
(* change_window_height, of the window p: of the selected one, or of the   *)
(* nearest combination around it that has siblings in that direction.  The *)
(* root has the minibuffer's window for a sibling.                         *)
(***************************************************************************)
Enlarged(links, p, delta, axis) ==
  LET w == links[p]
      up == w.parent
      size == w[axis]
      Least(q) == IF q = Mini THEN 1 ELSE MinSize(axis)
      maxdelta == IF up # None THEN links[up][axis] - size
                  ELSE links[w.next][axis] - Least(w.next)
      d == IF delta > maxdelta THEN maxdelta ELSE delta
      Fits(q) == q # None /\ links[q][axis] - d >= Least(q)
      Grown(l, q, n) == Then(l, LAMBDA m : SetSize(m, q, m[q][axis] + n, axis, FALSE))
      Moved(l, q, n) == Then(l, LAMBDA m : [m EXCEPT ![q][Edge(axis)] = @ + n])
      all == links[up][axis]
      more == IF all <= size + d THEN all * all * 2
              ELSE (d * all * 100) \div ((all - size - d) * 100)
  IN IF size + delta < MinSize(axis) THEN DeleteFrom(links, p)
     ELSE IF Fits(w.next)
       THEN Then(Grown(Grown(links, w.next, 0 - d), p, d),
                 LAMBDA m : Grown(Moved(m, m[p].next, d), m[p].next, 0))
     ELSE IF Fits(w.prev)
       THEN Grown(Moved(Grown(links, w.prev, 0 - d), p, 0 - d), p, d)
     ELSE Then(Grown([links EXCEPT ![up][axis] = all + more], p, more),
               LAMBDA m : SetSize(m, up, all, axis, FALSE))

EnlargeWindow(delta, axis) ==
  /\ ~lost
  /\ LET p == CHOOSE q \in Leaves(root) : At(root, q).selected
         Inside == {n \in 1 .. Len(p) :
                      At(root, SubSeq(p, 1, n - 1)).dir = Along(axis)}
         window == SubSeq(p, 1, CHOOSE n \in {0} \cup Inside : \A k \in Inside : k <= n)
     IN /\ window = <<>> => /\ axis = "height"
                            /\ root.height + delta >= WindowMinHeight
        /\ Install(Enlarged(Linked, window, delta, axis))
  /\ UNCHANGED <<live, saved>>

SetWindowBuffer(p, b) ==
  /\ b \in live
  /\ root' = With(root, p, [At(root, p) EXCEPT !.buffer = b])
  /\ UNCHANGED <<mini, live, saved, lost, garbled>>

\* A buffer killed is replaced in the windows that are shown.
RECURSIVE Replacing(_, _, _)
Replacing(w, bad, b) ==
  [w EXCEPT !.buffer = IF @ \in bad THEN b ELSE @,
            !.kids = [i \in DOMAIN @ |-> Replacing(@[i], bad, b)]]

KillBuffer(b) ==
  /\ b \in live /\ live # {b}
  /\ live' = live \ {b}
  /\ \E other \in live' : root' = Replacing(root, {b}, other)
  /\ UNCHANGED <<mini, saved, lost, garbled>>

SaveConfiguration ==
  /\ ~lost /\ Cardinality(Leaves(root)) <= MaxSaved
  /\ saved' = [root |-> root, mini |-> mini]
  /\ UNCHANGED <<root, mini, live, lost, garbled>>

\* Plausible bug: the buffers are those that were saved.
SetSavedConfiguration ==
  /\ root' = saved.root /\ mini' = saved.mini /\ lost' = FALSE
  /\ UNCHANGED <<live, saved, garbled>>

\* Where a saved buffer has been killed, the window keeps the live buffer that
\* it showed last, or gets one.
SetWindowConfiguration ==
  /\ \E b \in live :
       root' = Replacing(saved.root, ShownBuffers \ live, b)
  /\ mini' = saved.mini /\ lost' = FALSE
  /\ UNCHANGED <<live, saved, garbled>>

WindowNext ==
  /\ ~garbled
  /\ \/ \E p \in Leaves(root) :
            \/ SelectWindow(p) \/ DeleteWindow(p) \/ DeleteOtherWindows(p)
            \/ \E dir \in {"v", "h"} : SplitWindow(p, dir)
            \/ \E b \in ShownBuffers : SetWindowBuffer(p, b)
     \/ \E delta \in Deltas, axis \in {"height", "width"} :
          EnlargeWindow(delta, axis)
     \/ \E b \in ShownBuffers : KillBuffer(b)
     \/ SaveConfiguration \/ SetWindowConfiguration

WindowSpec == WindowInit /\ [][WindowNext]_windowVars
-----------------------------------------------------------------------------
RECURSIVE SizeOf(_, _)
SizeOf(kids, axis) ==
  IF kids = <<>> THEN 0 ELSE Head(kids)[axis] + SizeOf(Tail(kids), axis)

(***************************************************************************)
(* The windows cover the screen: in a combination of two or more, each     *)
(* begins where the one before it ends, and all have its other measures.   *)
(* So it is after every command that leaves in order: one that divides by  *)
(* 0, or deletes a window twice, leaves it otherwise (see Broken).         *)
(***************************************************************************)
Covered(w) ==
  LET axis == Across(w.dir)
      across == IF axis = "height" THEN "width" ELSE "height"
  IN /\ Len(w.kids) > 1
     /\ SizeOf(w.kids, axis) = w[axis]
     /\ \A i \in DOMAIN w.kids :
          /\ w.kids[i][across] = w[across]
          /\ w.kids[i][Edge(across)] = w[Edge(across)]
          /\ w.kids[i][Edge(axis)] =
               w[Edge(axis)] + SizeOf(SubSeq(w.kids, 1, i - 1), axis)

Tiled ==
  /\ root.top = 0 /\ root.left = 0 /\ root.width = ScreenWidth
  /\ root.height + mini = ScreenHeight
  /\ \A w \in Windows(root) : w.dir # "leaf" => Covered(w)

\* No window is smaller than the user allows, however the sizes were shared out.
BigEnough ==
  \A w \in Windows(root) :
    w.height >= WindowMinHeight /\ w.width >= WindowMinWidth

(***************************************************************************)
(* Exactly one window that is shown is the selected one, after whatever    *)
(* deletions; but for shrink-window, which may delete the combination that *)
(* the selected window is in, and leaves it selected.                      *)
(***************************************************************************)
OneIsSelected ==
  Cardinality({p \in Leaves(root) : At(root, p).selected}) = IF lost THEN 0 ELSE 1

\* Every window shows a buffer that is alive, whatever was killed since the
\* configuration was saved.
ShowsLiveBuffers ==
  \A w \in Windows(root) : w.dir = "leaf" => w.buffer \in live
=============================================================================
