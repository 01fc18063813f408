------------------------------- MODULE Panes -------------------------------
(***************************************************************************)
(* A tab's split tree and where it puts its panes on the screen: package   *)
(* domain's layout.go.  A tree is the function from the paths of its nodes *)
(* (type Path: false leads to First, true to Second) to the nodes.  The    *)
(* state machine applies its operations to one tree; what they compute is  *)
(* compared with a plain list of the panes and with the cells of the       *)
(* screen.                                                                 *)
(***************************************************************************)
EXTENDS Integers, Sequences, FiniteSets, SequencesExt

CONSTANTS
  Contents,  \* what panes show: sessions, and Blank
  Blank,     \* the empty pane, whose session is ""
  Areas,     \* sizes of the pane area, as <<width, height>>
  MaxNudges  \* bound: changes of a ratio

ASSUME PanesAssumption == Areas \subseteq Int \X Int /\ MaxNudges \in Nat

Steps == {2, 8}  \* cells that a key, plain or with shift, resizes by

VARIABLES
  tree,    \* the root Pane
  area,    \* the Rect it is drawn in
  panes,   \* the sessions of the leaves as a list, by list operations alone
  nudges

paneVars == <<tree, area, panes, nudges>>

Leaf(s) == [leaf |-> TRUE, session |-> s]
Node(dir, num, den) == [leaf |-> FALSE, dir |-> dir, num |-> num, den |-> den]
Rect(x, y, w, h) == [x |-> x, y |-> y, w |-> w, h |-> h]
Splits == {"right", "down"}
Dirs == {"left", "right", "up", "down"}

Root == <<>>
LeafPaths(t) == {p \in DOMAIN t : t[p].leaf}
Shown(t) == {t[p].session : p \in LeafPaths(t)}
PathOf(t, s) == CHOOSE p \in LeafPaths(t) : t[p].session = s

\* The leaf p becomes a split with the leaf and a new one.
SplitAt(t, p, dir, s) ==
  [q \in DOMAIN t \cup {Append(p, FALSE), Append(p, TRUE)} |->
     CASE q = p -> Node(dir, 1, 2)
       [] q = Append(p, FALSE) -> t[p]
       [] q = Append(p, TRUE) -> Leaf(s)
       [] OTHER -> t[q]]

\* The sibling of the leaf p takes the place of their parent: its nodes, that are
\* reached by an extra turn in t, lose it.
Sibling(p) == Append(Front(p), ~Last(p))
Lifted(p, q) == Front(p) \o SubSeq(q, Len(p) + 1, Len(q))
Lowered(p, q) == IF IsPrefix(Front(p), q) THEN Sibling(p) \o SubSeq(q, Len(p), Len(q)) ELSE q
CloseAt(t, p) ==
  [q \in {q \in DOMAIN t : ~IsPrefix(Front(p), q)}
           \cup {Lifted(p, q) : q \in {q \in DOMAIN t : IsPrefix(Sibling(p), q)}}
     |-> t[Lowered(p, q)]]

ReplaceSession(t, p, s) == [t EXCEPT ![p] = Leaf(s)]

\* p is read before q: left of it, or above.
Before(p, q) ==
  \E i \in DOMAIN p \cap DOMAIN q :
    ~p[i] /\ q[i] /\ \A j \in 1..(i - 1) : p[j] = q[j]

\* The list l is what Leaves returns for t.
ListsLeaves(t, l) ==
  /\ Range(l) = Shown(t)
  /\ \A i, j \in DOMAIN l : i < j => Before(PathOf(t, l[i]), PathOf(t, l[j]))

-----------------------------------------------------------------------------
(* Geometry.                                                               *)

Lesser(a, b) == IF a < b THEN a ELSE b
Larger(a, b) == IF a < b THEN b ELSE a

\* First's share of n cells, rounded to the nearest: int(n*ratio + 0.5).
Share(p, n) == (2 * n * p.num + p.den) \div (2 * p.den)

HalvesUndivided(p, r) ==  \* mutant: no column for the divider
  IF p.dir = "right"
    THEN LET w == Lesser(Larger(Share(p, r.w - 1), 1), r.w - 2)
         IN <<Rect(r.x, r.y, w, r.h), Rect(r.x + w, r.y, r.w - w, r.h)>>
    ELSE LET h == Lesser(Larger(Share(p, r.h), 1), r.h - 1)
         IN <<Rect(r.x, r.y, r.w, h), Rect(r.x, r.y + h, r.w, r.h - h)>>

Halves(p, r) ==
  IF p.dir = "right"
    THEN LET w == Lesser(Larger(Share(p, r.w - 1), 1), r.w - 2)
         IN <<Rect(r.x, r.y, w, r.h), Rect(r.x + w + 1, r.y, r.w - w - 1, r.h)>>
    ELSE LET h == Lesser(Larger(Share(p, r.h), 1), r.h - 1)
         IN <<Rect(r.x, r.y, r.w, h), Rect(r.x, r.y + h, r.w, r.h - h)>>

\* Where the walk over the tree puts every node.
Places(t, r) ==
  LET place[p \in DOMAIN t] ==
        IF p = Root THEN r
        ELSE Halves(t[Front(p)], place[Front(p)])[IF Last(p) THEN 2 ELSE 1]
  IN place

Rects(t, r) == [s \in Shown(t) |-> Places(t, r)[PathOf(t, s)]]

Overlap(a, la, b, lb) == Lesser(a + la, b + lb) - Larger(a, b)

\* How far c lies from f in direction d, and how much of the edge they share.
Distance(f, c, d) ==
  CASE d = "left" -> f.x - (c.x + c.w)
    [] d = "right" -> c.x - (f.x + f.w)
    [] d = "up" -> f.y - (c.y + c.h)
    [] d = "down" -> c.y - (f.y + f.h)
Shared(f, c, d) ==
  IF d \in {"left", "right"} THEN Overlap(f.y, f.h, c.y, c.h) ELSE Overlap(f.x, f.w, c.x, c.w)

NearerUntied(f, b, c, d) ==  \* mutant: ties depend on map order
  LET n == Distance(f, b, d)  m == Distance(f, c, d)
  IN n < m \/ (n = m /\ Shared(f, b, d) > Shared(f, c, d))
\* The order Neighbor prefers its candidates in.
Nearer(f, b, c, d) ==
  LET n == Distance(f, b, d)  m == Distance(f, c, d)
      o == Shared(f, b, d)    q == Shared(f, c, d)
  IN \/ n < m
     \/ n = m /\ o > q
     \/ n = m /\ o = q /\ (b.y < c.y \/ (b.y = c.y /\ b.x < c.x))

Candidates(rects, from, d) ==
  {s \in DOMAIN rects \ {from} : Distance(rects[from], rects[s], d) >= 0
                                  /\ Shared(rects[from], rects[s], d) > 0}

\* The candidates that no other is preferred to.
Nearest(rects, from, d) ==
  LET near == Candidates(rects, from, d)
  IN {s \in near : \A t \in near : ~Nearer(rects[from], rects[t], rects[s], d)}

\* What Neighbor may return, in whatever order it meets the candidates.  The id of
\* the empty pane, "", is also its mark for "none found yet": the empty pane is
\* never the answer, and meeting it forgets what lies behind it.  (When all of them
\* lie behind it, Neighbor may also find none.)
Neighbors(rects, from, d) ==
  LET near == Candidates(rects, from, d)
      others == near \ {Blank}
      behind == {s \in others : Blank \in near
                                  /\ Nearer(rects[from], rects[Blank], rects[s], d)}
  IN {s \in others : \A t \in others :
        Nearer(rects[from], rects[t], rects[s], d) => t \in behind}

\* A ratio between 10% and 90%.
Clamped(p, num, den) ==
  CASE 10 * num < den -> [p EXCEPT !.num = 1, !.den = 10]
    [] 10 * num > 9 * den -> [p EXCEPT !.num = 9, !.den = 10]
    [] OTHER -> [p EXCEPT !.num = num, !.den = den]
WithRatio(t, path, num, den) == [t EXCEPT ![path] = Clamped(@, num, den)]

\* The nodes that the search for the divider at (x, y) may pass, and of these the
\* splits that have it; the search ends at the first.
Passed(t, r, x, y) ==
  LET second(p) == LET b == Halves(t[p], Places(t, r)[p])[2] IN x >= b.x /\ y >= b.y
  IN {p \in DOMAIN t : \A i \in DOMAIN p : p[i] = second(SubSeq(p, 1, i - 1))}
HasDivider(n, r, x, y) ==
  LET a == Halves(n, r)[1]
      b == Halves(n, r)[2]
  IN \/ n.dir = "right" /\ x = a.x + a.w /\ y \in r.y..(r.y + r.h - 1)
     \/ n.dir = "down" /\ y = b.y /\ x \in r.x..(r.x + r.w - 1)
DividersAt(t, r, x, y) ==
  LET hits == {p \in Passed(t, r, x, y) : ~t[p].leaf /\ HasDivider(t[p], Places(t, r)[p], x, y)}
  IN {p \in hits : \A q \in hits : Len(p) <= Len(q)}

\* Where in r the point is along the axis n divides, and how many cells there are.
Along(n, r, x, y) == IF n.dir = "right" THEN x - r.x ELSE y - r.y
Size(n, r) == IF n.dir = "right" THEN r.w - 1 ELSE r.h

DragToFlush(t, path, r, x, y) ==  \* mutant: the ratio is of the whole width
  LET n == t[path]
      nr == Places(t, r)[path]
  IN WithRatio(t, path, Along(n, nr, x, y), Larger(IF n.dir = "right" THEN nr.w ELSE nr.h, 1))
DragTo(t, path, r, x, y) ==
  LET n == t[path]
      nr == Places(t, r)[path]
  IN WithRatio(t, path, Along(n, nr, x, y), Larger(Size(n, nr), 1))

Axis(d) == IF d \in {"left", "right"} THEN "right" ELSE "down"
Forward(d) == d \in {"right", "down"}

\* The ancestors of the leaf p that divide along d's axis, by depth, and of these
\* the ones whose divider moving toward d makes the leaf larger.
Dividing(t, p, d) == {i \in 0..(Len(p) - 1) : t[SubSeq(p, 1, i)].dir = Axis(d)}
Growing(t, p, d) == {i \in Dividing(t, p, d) : (~p[i + 1]) = Forward(d)}
Deepest(S) == CHOOSE i \in S : \A j \in S : j <= i

Resize(t, s, d, n, r) ==
  LET p == PathOf(t, s)
      on == IF Growing(t, p, d) # {} THEN Growing(t, p, d) ELSE Dividing(t, p, d)
      path == SubSeq(p, 1, Deepest(on))
      size == Larger(Size(t[path], Places(t, r)[path]), 1)
      delta == IF Forward(d) THEN n ELSE -n
  IN IF on = {} THEN t
     ELSE WithRatio(t, path, t[path].num * size + delta * t[path].den, t[path].den * size)

-----------------------------------------------------------------------------
PanesInit ==
  /\ \E s \in Contents : tree = [p \in {Root} |-> Leaf(s)] /\ panes = <<s>>
  /\ \E a \in Areas : area = Rect(0, 0, a[1], a[2])
  /\ nudges = 0

IndexOf(l, s) == CHOOSE i \in DOMAIN l : l[i] = s

SplitLeaf(t, dir, s) ==
  /\ t \in Range(panes) /\ s \notin Range(panes)
  /\ tree' = SplitAt(tree, PathOf(tree, t), dir, s)
  /\ panes' = InsertAt(panes, IndexOf(panes, t) + 1, s)
  /\ UNCHANGED <<area, nudges>>

CloseLeaf(t) ==
  /\ t \in Range(panes) /\ Len(panes) > 1
  /\ tree' = CloseAt(tree, PathOf(tree, t))
  /\ panes' = RemoveAt(panes, IndexOf(panes, t))
  /\ UNCHANGED <<area, nudges>>

ReplaceLeaf(t, s) ==
  /\ t \in Range(panes) /\ s \notin Range(panes)
  /\ tree' = ReplaceSession(tree, PathOf(tree, t), s)
  /\ panes' = ReplaceAll(panes, t, s)
  /\ UNCHANGED <<area, nudges>>

\* A press on a divider and where the mouse is then.
DragDivider(path, to) ==
  /\ nudges < MaxNudges
  /\ tree' = DragTo(tree, path, area, to[1], to[2])
  /\ nudges' = nudges + 1
  /\ UNCHANGED <<area, panes>>

ResizeLeaf(s, d, n) ==
  /\ nudges < MaxNudges /\ s \in Range(panes)
  /\ tree' = Resize(tree, s, d, n, area)
  /\ nudges' = nudges + 1
  /\ UNCHANGED <<area, panes>>

ResizeWindow(a) ==
  /\ area' = Rect(0, 0, a[1], a[2])
  /\ UNCHANGED <<tree, panes, nudges>>

Cells == (0..(area.w - 1)) \X (0..(area.h - 1))
Dividers == UNION {DividersAt(tree, area, c[1], c[2]) : c \in Cells}

PanesNext ==
  \/ \E t, s \in Contents, dir \in Splits : SplitLeaf(t, dir, s)
  \/ \E t \in Contents : CloseLeaf(t)
  \/ \E t, s \in Contents : ReplaceLeaf(t, s)
  \/ \E path \in Dividers, to \in Cells : DragDivider(path, to)
  \/ \E s \in Contents, d \in Dirs, n \in Steps : ResizeLeaf(s, d, n)
  \/ \E a \in Areas : ResizeWindow(a)

PanesSpec == PanesInit /\ [][PanesNext]_paneVars

-----------------------------------------------------------------------------
(* Properties.                                                             *)

\* The operations on the tree do to its leaves what the same operations do to a
\* list, in the order the panes are read.  (Workbench stands on this.)
LeavesInOrder ==
  /\ ListsLeaves(tree, panes) /\ IsInjective(panes)
  /\ \A p, q \in LeafPaths(tree) : tree[p].session = tree[q].session => p = q

\* Every split is drawn in a place that has room for both sides.
Roomy ==
  /\ area.w >= 1 /\ area.h >= 1
  /\ \A p \in DOMAIN tree \ LeafPaths(tree) :
       LET r == Places(tree, area)[p]
       IN IF tree[p].dir = "right" THEN r.w >= 3 ELSE r.h >= 2

Covers(r, c) == c[1] \in r.x..(r.x + r.w - 1) /\ c[2] \in r.y..(r.y + r.h - 1)

\* With room, every cell of the area is in one pane or on one column that divides
\* panes, and no pane is empty.
Tiled ==
  Roomy =>
    LET rects == Rects(tree, area) IN
    /\ \A s \in DOMAIN rects : rects[s].w >= 1 /\ rects[s].h >= 1
    /\ \A c \in Cells :
         LET over == {s \in DOMAIN rects : Covers(rects[s], c)}
             divs == DividersAt(tree, area, c[1], c[2])
         IN /\ \A s, u \in over : s = u
            /\ over = {} => divs # {}
            /\ \A p \in divs : tree[p].dir = "right" => over = {}

\* With room, a move has one destination, whatever order the panes are looked at
\* ("so ties don't depend on map order"), unless what is nearest is the empty pane.
OneNeighbor ==
  Roomy => LET rects == Rects(tree, area)
           IN \A s \in Range(panes), d \in Dirs : Blank \notin Nearest(rects, s, d) =>
                \A t, u \in Neighbors(rects, s, d) : t = u

\* With room, the arrows lead from every pane to every other: where they lead from
\* some panes, there they lead from all.  With an empty pane among them, they lead
\* out of it.
AllReachable ==
  Roomy => LET rects == Rects(tree, area)
               Closed(S) == \A s \in S, d \in Dirs : Neighbors(rects, s, d) \subseteq S
           IN /\ Blank \notin Range(panes) =>
                   \A S \in SUBSET Range(panes) : S # {} /\ Closed(S) => S = Range(panes)
              /\ Blank \in Range(panes) /\ Closed({Blank}) => Range(panes) = {Blank}

\* A divider dragged with the mouse is where the mouse is, between the limits.
DragFollows ==
  \A path \in Dividers, to \in Cells :
       (DragDivider(path, to) /\ Roomy) =>
         LET n == tree[path]
             r == Places(tree, area)[path]
             at == Along(n, r, to[1], to[2])
             size == Size(n, r)
             half == Halves(tree'[path], Places(tree', area)[path])[1]
         IN (10 * at >= size /\ 10 * at <= 9 * size /\ at >= 1 /\ at <= size - 1) =>
              at = IF n.dir = "right" THEN half.w ELSE half.h

\* A resize toward a side grows the pane if it has a divider on that side, and
\* never grows it otherwise.
ResizeGrows ==
  \A s \in Range(panes), d \in Dirs, n \in Steps :
       (ResizeLeaf(s, d, n) /\ Roomy) =>
         LET old == Rects(tree, area)[s]
             new == Rects(tree', area)[s]
             grows == IF Axis(d) = "right" THEN new.w - old.w ELSE new.h - old.h
         IN IF Growing(tree, PathOf(tree, s), d) # {} THEN grows >= 0 ELSE grows <= 0

\* Read in order the tree is a list; drawn, it is its area.
TreeTiles == LeavesInOrder /\ Tiled
Navigable == OneNeighbor /\ AllReachable

\* Dividers go where the user moves them.
DividersFollow == [][DragFollows /\ ResizeGrows]_paneVars
=============================================================================
