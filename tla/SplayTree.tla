------------------------------ MODULE SplayTree ------------------------------
(***************************************************************************)
(* The splay tree of splay-tree.h as the large object space uses it: nodes *)
(* are known by spans of addresses, which do not overlap, and are found by *)
(* any address in their span.  A tree is Null or a record of its root.     *)
(***************************************************************************)
EXTENDS Integers, SequencesExt

CONSTANT Null

Node(key, left, right) == [key |-> key, left |-> left, right |-> right]

COMPARE(addr, span) ==
  IF addr < span.addr THEN -1 ELSE IF addr - span.addr < span.size THEN 0 ELSE 1

RotateRight(c) == [c.left EXCEPT !.right = [c EXCEPT !.left = c.left.right]]
RotateLeft(c) == [c.right EXCEPT !.left = [c EXCEPT !.right = c.right.left]]

\* The descent of tree_splay, which links the nodes it leaves behind to one of two chains:
\* lefts, by their right children, and rights, by their left ones.
RECURSIVE Descend(_, _, _, _)
Descend(current, addr, lefts, rights) ==
  LET order == COMPARE(addr, current.key)
      Stop(c) == [at |-> c, lefts |-> lefts, rights |-> rights]
  IN CASE order = -1 /\ current.left # Null ->
            LET zigzig == COMPARE(addr, current.left.key) < 0
                c == IF zigzig THEN RotateRight(current) ELSE current
            IN IF c.left = Null THEN Stop(c)
               ELSE Descend(c.left, addr, lefts, Append(rights, c))
       [] order = 1 /\ current.right # Null ->
            LET zigzig == COMPARE(addr, current.right.key) > 0
                c == IF zigzig THEN RotateLeft(current) ELSE current
            IN IF c.right = Null THEN Stop(c)
               ELSE Descend(c.right, addr, Append(lefts, c), rights)
       [] OTHER -> Stop(current)

tree_splay(tree, addr) ==
  LET d == Descend(tree, addr, <<>>, <<>>)
      LinkRight(n, t) == [n EXCEPT !.left = t]
      LinkLeft(n, t) == [n EXCEPT !.right = t]
  IN IF tree = Null THEN Null
     ELSE Node(d.at.key, FoldRight(LinkLeft, d.lefts, d.at.left),
                         FoldRight(LinkRight, d.rights, d.at.right))

\* The node found is the root of the tree that a lookup leaves.
tree_contains(tree, addr) ==
  tree # Null /\ COMPARE(addr, tree_splay(tree, addr).key) = 0

tree_insert(tree, span) ==
  LET t == tree_splay(tree, span.addr) IN
  IF tree = Null THEN Node(span, Null, Null)
  ELSE CASE COMPARE(span.addr, t.key) = -1 -> Node(span, t.left, [t EXCEPT !.left = Null])
         [] COMPARE(span.addr, t.key) = 0 -> t
         [] OTHER -> Node(span, [t EXCEPT !.right = Null], t.right)

\* Mutant: the left subtree is not splayed before it takes over the right one.
remove_unsplayed(tree, addr) ==
  LET t == tree_splay(tree, addr) IN
  IF t.left = Null THEN t.right ELSE [t.left EXCEPT !.right = t.right]

tree_remove(tree, addr) ==
  LET t == tree_splay(tree, addr) IN
  IF t.left = Null THEN t.right
  ELSE [tree_splay(t.left, addr) EXCEPT !.right = t.right]

\* An object from the quarantine that is longer than asked for is cut where it is in the
\* tree, and its tail is added.
RECURSIVE Resized(_, _, _)
Resized(tree, addr, size) ==
  CASE addr < tree.key.addr -> [tree EXCEPT !.left = Resized(@, addr, size)]
    [] addr = tree.key.addr -> [tree EXCEPT !.key.size = size]
    [] OTHER -> [tree EXCEPT !.right = Resized(@, addr, size)]

\* The spans of a tree, as large_object_append_extent visits them.
RECURSIVE InOrder(_)
InOrder(tree) ==
  IF tree = Null THEN <<>> ELSE InOrder(tree.left) \o <<tree.key>> \o InOrder(tree.right)
================================================================================
