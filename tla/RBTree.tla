------------------------------- MODULE RBTree -------------------------------
(***************************************************************************)
(* The red-black tree of the hash ring (lib/rbtree.js), operation by       *)
(* operation: insertion and removal in one pass from the root down, the    *)
(* bounds, and the iterator with its stack of ancestors.                   *)
(*                                                                         *)
(* A tree is a record: root is a value or Nil, size is RBTree.size, and    *)
(* nodes maps each value in the tree to its node.  A node is named by its  *)
(* value, so that an assignment through a reference is an EXCEPT of nodes. *)
(* A direction is a Boolean, TRUE for right, as the code passes it.        *)
(***************************************************************************)
EXTENDS Integers, Sequences, FiniteSets

Nil  == -1      \* null
FakeRoot == -2      \* the fake node above the root

NewNode(str) == [str |-> str, left |-> Nil, right |-> Nil, red |-> TRUE]

EmptyTree == [root |-> Nil, size |-> 0, nodes |-> [v \in {} |-> NewNode(v)]]

\* The nodes with one more: h is a heap of nodes, as below.
WithNode(h, v, node) == [x \in DOMAIN h \cup {v} |-> IF x = v THEN node ELSE h[x]]
WithoutNode(h, v) == [x \in DOMAIN h \ {v} |-> h[x]]

Child(h, v, dir) == IF dir THEN h[v].right ELSE h[v].left

SetChild(h, v, dir, c) ==
  IF dir THEN [h EXCEPT ![v].right = c] ELSE [h EXCEPT ![v].left = c]

Paint(h, v, red) == [h EXCEPT ![v].red = red]

IsRed(h, v) == v # Nil /\ h[v].red

----------------------------------------------------------------------------
(* Rotations.  The new root of the rotated subtree is SingleTop, DoubleTop. *)

SingleTop(h, v, dir) == Child(h, v, ~dir)

\* Fault: the nodes keep their colours.
SingleRotatePlain(h, v, dir) ==
  LET save == SingleTop(h, v, dir)
  IN  SetChild(SetChild(h, v, ~dir, Child(h, save, dir)), save, dir, v)

SingleRotate(h, v, dir) ==
  LET save == SingleTop(h, v, dir)
      h1   == SetChild(SetChild(h, v, ~dir, Child(h, save, dir)), save, dir, v)
  IN  Paint(Paint(h1, v, TRUE), save, FALSE)

DoubleTop(h, v, dir) == SingleTop(h, Child(h, v, ~dir), ~dir)

DoubleRotate(h, v, dir) ==
  LET save == Child(h, v, ~dir)
      h1   == SetChild(SingleRotate(h, save, ~dir), v, ~dir, SingleTop(h, save, ~dir))
  IN  SingleRotate(h1, v, dir)

\* Both rotations under parent q, whose child v is replaced by the new root.
SingleUnder(h, q, qdir, v, dir) ==
  SetChild(SingleRotate(h, v, dir), q, qdir, SingleTop(h, v, dir))
DoubleUnder(h, q, qdir, v, dir) ==
  SetChild(DoubleRotate(h, v, dir), q, qdir, DoubleTop(h, v, dir))

----------------------------------------------------------------------------
(* insert(val, str) *)

\* What happens at v on the way down: the new node is linked in where the
\* path ends, and a node with two red children takes their red.
Arrive(h, s, val, str) ==
  IF s.node = Nil
    THEN SetChild(WithNode(h, val, NewNode(str)), s.p, s.dir, val)
  ELSE IF IsRed(h, h[s.node].left) /\ IsRed(h, h[s.node].right)
    THEN Paint(Paint(Paint(h, s.node, TRUE), h[s.node].left, FALSE),
               h[s.node].right, FALSE)
  ELSE h

\* A red node below a red parent is rotated away, at the grandparent.
FixRed(h, s, v) ==
  IF ~(IsRed(h, v) /\ IsRed(h, s.p)) THEN h
  ELSE LET qdir == h[s.ggp].right = s.gp
       IN  IF v = Child(h, s.p, s.last)
             THEN SingleUnder(h, s.ggp, qdir, s.gp, ~s.last)
             ELSE DoubleUnder(h, s.ggp, qdir, s.gp, ~s.last)

RECURSIVE InsertLoop(_, _, _, _)
InsertLoop(h, s, val, str) ==
  LET v  == IF s.node = Nil THEN val ELSE s.node
      h1 == FixRed(Arrive(h, s, val, str), s, v)
      d  == v < val
  IN  IF v = val THEN h1
      ELSE InsertLoop(h1,
             [node |-> Child(h1, v, d), p |-> v, gp |-> s.p,
              ggp |-> IF s.gp # Nil THEN s.gp ELSE s.ggp,
              dir |-> d, last |-> s.dir],
             val, str)

\* The nodes with the fake root, and the tree that is left below it: black.
AddFakeRoot(t) ==
  WithNode(t.nodes, FakeRoot, [NewNode(FakeRoot) EXCEPT !.right = t.root])
BelowFakeRoot(h, size) ==
  LET root == h[FakeRoot].right
      rest == WithoutNode(h, FakeRoot)
  IN  [root |-> root, size |-> size,
       nodes |-> IF root = Nil THEN rest ELSE Paint(rest, root, FALSE)]

Insert(t, val, str) ==
  IF t.root = Nil
    THEN [root |-> val, size |-> t.size + 1,
          nodes |-> Paint(WithNode(t.nodes, val, NewNode(str)), val, FALSE)]
    ELSE BelowFakeRoot(
           InsertLoop(AddFakeRoot(t),
             [node |-> t.root, p |-> Nil, gp |-> Nil, ggp |-> FakeRoot,
              dir |-> FALSE, last |-> FALSE], val, str),
           IF val \in DOMAIN t.nodes THEN t.size ELSE t.size + 1)

----------------------------------------------------------------------------
(* remove(val) *)

\* The sibling lends its red: a rotation at the parent p, towards v.
Borrow(h, s, v, sibling) ==
  LET pdir == h[s.gp].right = s.p
      h1   == IF IsRed(h, Child(h, sibling, s.last))
                THEN DoubleUnder(h, s.gp, pdir, s.p, s.last)
                ELSE SingleUnder(h, s.gp, pdir, s.p, s.last)
      top  == Child(h1, s.gp, pdir)
      h2   == Paint(Paint(h1, top, TRUE), v, TRUE)
  IN  Paint(Paint(h2, h2[top].left, FALSE), h2[top].right, FALSE)

Merge(h, s, v, sibling) ==
  Paint(Paint(Paint(h, s.p, FALSE), sibling, TRUE), v, TRUE)

\* Pushes red down to v, whose next child lies in direction d; the parent of
\* v is another node afterwards if v was rotated.
PushRed(h, s, v, d) ==
  LET sibling == Child(h, s.p, ~s.last)
      same    == [h |-> h, p |-> s.p]
  IN  IF IsRed(h, v) \/ IsRed(h, Child(h, v, d)) THEN same
      ELSE IF IsRed(h, Child(h, v, ~d))
        THEN [h |-> SingleUnder(h, s.p, s.last, v, d), p |-> SingleTop(h, v, d)]
      ELSE IF sibling = Nil THEN same
      ELSE IF ~IsRed(h, h[sibling].left) /\ ~IsRed(h, h[sibling].right)
        THEN [same EXCEPT !.h = Merge(h, s, v, sibling)]
        ELSE [same EXCEPT !.h = Borrow(h, s, v, sibling)]

\* The loop of remove: the last node on the way down, with its parent.
RECURSIVE RemoveLoop(_, _, _)
RemoveLoop(h, s, val) ==
  IF Child(h, s.node, s.dir) = Nil THEN [h |-> h, node |-> s.node, p |-> s.p]
  ELSE LET v == Child(h, s.node, s.dir)
           d == val > v
           r == PushRed(h, [gp |-> s.p, p |-> s.node, last |-> s.dir], v, d)
       IN  RemoveLoop(r.h, [node |-> v, p |-> r.p, dir |-> d], val)

\* Fault: the value that is removed is lost without its successor's.
SpliceBottom(h, p, v, found) ==
  WithoutNode(SetChild(h, p, h[p].right = v, Child(h, v, h[v].left = Nil)), v)

\* found.val = node.val: the last node v leaves its place, and takes over
\* the links and the colour of the node that was found.
Splice(h, p, v, found) ==
  LET h1 == SetChild(h, p, h[p].right = v, Child(h, v, h[v].left = Nil))
      h2 == WithNode(h1, v, [h1[found] EXCEPT !.str = h1[v].str])
      To(x) == IF x = found THEN v ELSE x
  IN  IF found = v THEN WithoutNode(h1, v)
      ELSE [x \in DOMAIN h2 \ {found} |->
              [h2[x] EXCEPT !.left = To(@), !.right = To(@)]]

Remove(t, val) ==
  IF t.root = Nil THEN t
  ELSE LET r == RemoveLoop(AddFakeRoot(t),
                           [node |-> FakeRoot, p |-> Nil, dir |-> TRUE], val)
       IN  IF val \in DOMAIN t.nodes
             THEN BelowFakeRoot(Splice(r.h, r.p, r.node, val), t.size - 1)
             ELSE BelowFakeRoot(r.h, t.size)

----------------------------------------------------------------------------
(* Iterators: a cursor and the stack of its ancestors that are still needed *)
(* to go on.                                                                *)

NullIterator == [cursor |-> Nil, ancestors |-> <<>>]

RECURSIVE MinNode(_, _, _)
MinNode(h, v, stack) ==
  IF h[v].left = Nil THEN [cursor |-> v, ancestors |-> stack]
                     ELSE MinNode(h, h[v].left, Append(stack, v))

\* From a right child up to the first ancestor that is no right parent.
RECURSIVE Climb(_, _, _)
Climb(h, v, stack) ==
  IF stack = <<>> THEN NullIterator
  ELSE LET up   == stack[Len(stack)]
           rest == SubSeq(stack, 1, Len(stack) - 1)
       IN  IF h[up].right = v THEN Climb(h, up, rest)
           ELSE [cursor |-> up, ancestors |-> rest]

IterNext(t, iter) ==
  IF iter.cursor = Nil
    THEN IF t.root = Nil THEN iter ELSE MinNode(t.nodes, t.root, iter.ancestors)
  ELSE IF t.nodes[iter.cursor].right = Nil
    THEN Climb(t.nodes, iter.cursor, iter.ancestors)
    ELSE MinNode(t.nodes, t.nodes[iter.cursor].right,
                 Append(iter.ancestors, iter.cursor))

TreeMin(t) ==
  IF t.root = Nil THEN Nil ELSE MinNode(t.nodes, t.root, <<>>).cursor

RECURSIVE Descend(_, _, _, _)
Descend(h, v, val, stack) ==
  IF v = Nil \/ v = val THEN [cursor |-> v, ancestors |-> stack]
  ELSE Descend(h, Child(h, v, val > v), val, Append(stack, v))

\* Fault: a path that ends in a right child ends the iteration.
LowerBoundNoClimb(t, val) == Descend(t.nodes, t.root, val, <<>>)

LowerBound(t, val) ==
  LET end    == Descend(t.nodes, t.root, val, <<>>)
      later  == {i \in DOMAIN end.ancestors : val < end.ancestors[i]}
      last   == CHOOSE i \in later : \A j \in later : j <= i
  IN  IF end.cursor # Nil THEN end
      ELSE IF later = {} THEN NullIterator
      ELSE [cursor |-> end.ancestors[last],
            ancestors |-> SubSeq(end.ancestors, 1, last - 1)]

\* Moves on while the cursor is before val.
RECURSIVE SkipTo(_, _, _)
SkipTo(t, iter, val) ==
  IF iter.cursor # Nil /\ iter.cursor < val THEN SkipTo(t, IterNext(t, iter), val)
                                            ELSE iter

\* Despite its name, the node at or after val.
UpperBound(t, val) == SkipTo(t, LowerBound(t, val), val)

----------------------------------------------------------------------------
(* What a red-black tree promises. *)

Contents(t) == [v \in DOMAIN t.nodes |-> t.nodes[v].str]

RECURSIVE Below(_, _)
Below(h, v) ==
  IF v = Nil THEN {} ELSE {v} \cup Below(h, h[v].left) \cup Below(h, h[v].right)

RECURSIVE BlackHeight(_, _)
BlackHeight(h, v) ==
  IF v = Nil THEN 1
  ELSE BlackHeight(h, h[v].left) + (IF h[v].red THEN 0 ELSE 1)

IsSearchTree(t) ==
  /\ Below(t.nodes, t.root) = DOMAIN t.nodes
  /\ \A v \in DOMAIN t.nodes :
       /\ \A x \in Below(t.nodes, t.nodes[v].left) : x < v
       /\ \A x \in Below(t.nodes, t.nodes[v].right) : v < x

IsRedBlack(t) ==
  /\ ~IsRed(t.nodes, t.root)
  /\ \A v \in DOMAIN t.nodes :
       LET l == t.nodes[v].left
           r == t.nodes[v].right
       IN  /\ t.nodes[v].red => ~IsRed(t.nodes, l) /\ ~IsRed(t.nodes, r)
           /\ BlackHeight(t.nodes, l) = BlackHeight(t.nodes, r)
=============================================================================
