-------------------------------- MODULE Tree --------------------------------
(***************************************************************************)
(* The red-black trees of src/tree.c, which hold the library's nodes by    *)
(* address or by size.  Links are as in the code: every node has a parent, *)
(* two children and a colour, and all leaves are one sentinel node, whose  *)
(* own children are NULL and whose parent is borrowed by a removal.        *)
(*                                                                         *)
(* The code treats left and right alike, in two copies with the sides      *)
(* swapped; here the side is a parameter.                                  *)
(***************************************************************************)
EXTENDS Integers, Sequences, FiniteSets

CONSTANTS
    NODES,      \* bound: the nodes there are, as positive numbers
    KEYS        \* the key that each node is inserted with

ASSUME NodesAssumption == NODES \subseteq Nat \ {0} /\ KEYS \in [NODES -> Nat]

VARIABLE tree   \* the treeroot, and the fields of all nodes

\* Larger than any key.
MaxKey == 1 + CHOOSE k \in {KEYS[n] : n \in NODES} : \A n \in NODES : KEYS[n] <= k

NULL == -1
Leaf == 0       \* &t->null

Sides == {"left", "right"}
Other(side) == IF side = "left" THEN "right" ELSE "left"

IsNode(t, n) == t.left[n] # NULL
Child(t, side, n) == IF side = "left" THEN t.left[n] ELSE t.right[n]
SideOf(t, n) == IF n = t.left[t.parent[n]] THEN "left" ELSE "right"

SetChild(t, side, n, c) ==
    IF side = "left" THEN [t EXCEPT !.left[n] = c] ELSE [t EXCEPT !.right[n] = c]
SetParent(t, n, p) == [t EXCEPT !.parent[n] = p]
Paint(t, n, red) == [t EXCEPT !.red[n] = red]
PaintRoot(t) == Paint(t, t.root, FALSE)

\* Whatever n was a child of, or the root, gets m instead; m may be the sentinel.
Supplant(t, n, m) ==
    LET up == t.parent[n]
        u  == SetParent(t, m, up)
    IN  IF up = NULL THEN [u EXCEPT !.root = m]
        ELSE SetChild(u, SideOf(t, n), up, m)

\* __mp_newtree()
NewTree ==
    LET none == [n \in NODES \cup {Leaf} |-> NULL]
    IN  [root |-> Leaf, parent |-> none, left |-> none, right |-> none,
         key |-> [n \in NODES \cup {Leaf} |-> 0],
         red |-> [n \in NODES \cup {Leaf} |-> FALSE], size |-> 0]

\* rotateleft() and rotateright(): the child on the other side comes up and n
\* goes down on the given side.
Rotate(t, n, side) ==
    LET up == Child(t, Other(side), n)
        inner == Child(t, side, up)
        u == SetChild(Supplant(t, n, up), Other(side), n, inner)
        v == IF IsNode(t, inner) THEN SetParent(u, inner, n) ELSE u
    IN  IF up = NULL THEN t ELSE SetParent(SetChild(v, side, up, n), n, up)

\* Node b is to be known as its parent by c, or by a if that was a child of n.
Claim(t, c, b) == IF IsNode(t, c) THEN SetParent(t, c, b) ELSE t
ClaimFrom(t, n, a, b) == IF t.parent[a] = n THEN SetParent(t, a, b) ELSE t

TakeOver(t, n, b) ==
    [t EXCEPT !.left[b] = t.left[n], !.right[b] = t.right[n], !.red[b] = t.red[n]]

\* Node b, which has been taken out with a coming up for it, goes where n was.
Replace(t, n, b, a) ==
    LET v == TakeOver(Supplant(t, n, b), n, b)
    IN  ClaimFrom(Claim(Claim(v, t.left[n], b), t.right[n], b), n, a, b)

-----------------------------------------------------------------------------
(***************************************************************************)
(* Searching                                                               *)
(***************************************************************************)
RECURSIVE Down(_, _, _)
Down(t, n, side) ==
    IF IsNode(t, Child(t, side, n)) THEN Down(t, Child(t, side, n), side) ELSE n

\* __mp_minimum() for the left side, __mp_maximum() for the right one.
Outermost(t, n, side) == IF IsNode(t, n) THEN Down(t, n, side) ELSE NULL

RECURSIVE Up(_, _, _)
Up(t, n, side) ==
    LET a == t.parent[n]
    IN  IF a # NULL /\ n = Child(t, side, a) THEN Up(t, a, side) ELSE a

\* __mp_predecessor() for the left side, __mp_successor() for the right one.
Neighbour(t, n, side) ==
    IF ~IsNode(t, n) THEN NULL
    ELSE IF IsNode(t, Child(t, side, n))
    THEN Outermost(t, Child(t, side, n), Other(side))
    ELSE Up(t, n, side)

RECURSIVE Descend(_, _, _, _)
Descend(t, a, n, k) ==
    IF ~IsNode(t, n) \/ k = t.key[n] THEN <<a, n>>
    ELSE Descend(t, n, IF k < t.key[n] THEN t.left[n] ELSE t.right[n], k)

\* __mp_search()
Search(t, k) ==
    LET n == Descend(t, t.root, t.root, k)[2]
    IN  IF IsNode(t, n) THEN n ELSE NULL

\* Does not go on from the last node that was seen.
Bug_SearchLower(t, k) ==
    LET d == Descend(t, t.root, t.root, k)
    IN  IF IsNode(t, d[2]) THEN d[2]
        ELSE IF IsNode(t, d[1]) /\ k > t.key[d[1]] THEN d[1] ELSE NULL

\* __mp_searchlower()
SearchLower(t, k) ==
    LET d == Descend(t, t.root, t.root, k)
    IN  IF IsNode(t, d[2]) THEN d[2]
        ELSE IF IsNode(t, d[1]) /\ k > t.key[d[1]] THEN d[1]
        ELSE Neighbour(t, d[1], "left")

\* __mp_searchhigher()
SearchHigher(t, k) ==
    LET d == Descend(t, t.root, t.root, k)
    IN  IF IsNode(t, d[2]) THEN d[2]
        ELSE IF IsNode(t, d[1]) /\ k < t.key[d[1]] THEN d[1]
        ELSE Neighbour(t, d[1], "right")

-----------------------------------------------------------------------------
(***************************************************************************)
(* Insertion                                                               *)
(***************************************************************************)
RECURSIVE InsertionPoint(_, _, _, _)
InsertionPoint(t, b, a, k) ==
    IF ~IsNode(t, a) THEN b
    ELSE InsertionPoint(t, a, IF k < t.key[a] THEN t.left[a] ELSE t.right[a], k)

\* Paints or rotates upwards as long as a red node has a red parent.
RECURSIVE InsertFixup(_, _)
InsertFixup(t, n) ==
    LET p == t.parent[n]
        g == t.parent[p]
        side == SideOf(t, p)
        uncle == Child(t, Other(side), g)
        inner == n = Child(t, Other(side), p)
        m == IF inner THEN p ELSE n
        u == IF inner THEN Rotate(t, p, side) ELSE t
        v == Paint(Paint(u, u.parent[m], FALSE), g, TRUE)
    IN  IF n = t.root \/ ~t.red[p] THEN t
        ELSE IF t.red[uncle]
        THEN InsertFixup(Paint(Paint(Paint(t, uncle, FALSE), p, FALSE), g, TRUE), g)
        ELSE InsertFixup(Rotate(v, g, Other(side)), m)

\* __mp_treeinsert()
TreeInsert(t, n, k) ==
    LET b == InsertionPoint(t, NULL, t.root, k)
        u == [t EXCEPT !.parent[n] = b, !.left[n] = Leaf, !.right[n] = Leaf,
                       !.key[n] = k, !.red[n] = TRUE, !.size = @ + 1]
        v == IF b = NULL THEN [u EXCEPT !.root = n]
             ELSE SetChild(u, IF k < t.key[b] THEN "left" ELSE "right", b, n)
    IN  PaintRoot(InsertFixup(v, n))

-----------------------------------------------------------------------------
(***************************************************************************)
(* Removal                                                                 *)
(***************************************************************************)
\* The child of p away from the side given comes up in its colour.
RotateUp(t, p, side) ==
    LET c == Child(t, Other(side), p)
    IN  Rotate(Paint(Paint(Paint(t, c, t.red[p]), p, FALSE),
                     Child(t, Other(side), c), FALSE), p, side)

\* There is a black node too few on the side given of p, and the sibling b there
\* has a red child: the black one is made from that.
Borrow(t, p, b, side) ==
    LET inner == Child(t, side, b)
        turn == ~t.red[Child(t, Other(side), b)]
    IN  RotateUp(IF turn THEN Rotate(Paint(Paint(t, b, TRUE), inner, FALSE), b,
                                     Other(side))
                 ELSE t, p, side)

\* A red sibling of the node on the side given of p is rotated upwards.
BlackSibling(t, p, side) ==
    LET b == Child(t, Other(side), p)
    IN  IF t.red[b] THEN Rotate(Paint(Paint(t, b, FALSE), p, TRUE), p, side) ELSE t

\* The subtree at a, which may be the sentinel, has one black node too few on the
\* way to it; its sibling is made black before it is looked at.
RECURSIVE RemoveFixup(_, _), FixupAt(_, _, _)
RemoveFixup(t, a) ==
    LET p == t.parent[a]
    IN  IF a = t.root \/ t.red[a] THEN Paint(t, a, FALSE)
        ELSE FixupAt(BlackSibling(t, p, SideOf(t, a)), p, SideOf(t, a))
FixupAt(t, p, side) ==
    LET b == Child(t, Other(side), p)
    IN  IF ~t.red[t.left[b]] /\ ~t.red[t.right[b]]
        THEN RemoveFixup(Paint(t, b, TRUE), p)
        ELSE PaintRoot(Borrow(t, p, b, side))

\* Leaves the fields of a node that is in no tree with one value: nobody reads them.
Forget(t, n) ==
    [t EXCEPT !.parent[n] = NULL, !.left[n] = NULL, !.right[n] = NULL,
              !.key[n] = 0, !.red[n] = FALSE]

\* __mp_treeremove(): of n, or of its successor b which then takes its place.
TreeRemove(t, n) ==
    LET b == IF ~IsNode(t, t.left[n]) \/ ~IsNode(t, t.right[n]) THEN n
             ELSE Neighbour(t, n, "right")
        a == IF IsNode(t, t.left[b]) THEN t.left[b] ELSE t.right[b]
        w == IF b = n THEN Supplant(t, b, a) ELSE Replace(Supplant(t, b, a), n, b, a)
        x == IF t.red[b] THEN w ELSE RemoveFixup(w, a)
    IN  [Forget([x EXCEPT !.parent[Leaf] = NULL], n) EXCEPT !.size = @ - 1]

-----------------------------------------------------------------------------
TreeInit == tree = NewTree

InsertNode(n) == /\ ~IsNode(tree, n)
                 /\ tree' = TreeInsert(tree, n, KEYS[n])

RemoveNode(n) == /\ IsNode(tree, n)
                 /\ tree' = TreeRemove(tree, n)

TreeNext == \E n \in NODES : InsertNode(n) \/ RemoveNode(n)

-----------------------------------------------------------------------------
(***************************************************************************)
(* Properties                                                              *)
(***************************************************************************)
Members == {n \in NODES : IsNode(tree, n)}

\* The nodes of the subtree at n, in order.
RECURSIVE Inorder(_, _)
Inorder(t, n) ==
    IF ~IsNode(t, n) THEN <<>>
    ELSE Inorder(t, t.left[n]) \o <<n>> \o Inorder(t, t.right[n])

\* The number of black nodes on each way down from n, the sentinel's included.
RECURSIVE BlackHeights(_, _)
BlackHeights(t, n) ==
    IF ~IsNode(t, n) THEN {1}
    ELSE {h + (IF t.red[n] THEN 0 ELSE 1) :
              h \in BlackHeights(t, t.left[n]) \cup BlackHeights(t, t.right[n])}

\* After any inserts and removals the nodes that have been inserted and not
\* removed are in the tree, each once and in the order of their keys; the way
\* back up is that down; and the tree is balanced: no red node has a red child, and
\* each way down has as many black nodes. The sentinel is as it was.
TreeIsRedBlack ==
    LET order == Inorder(tree, tree.root)
    IN  /\ Len(order) = Cardinality(Members) /\ tree.size = Len(order)
        /\ {order[k] : k \in 1..Len(order)} = Members
        /\ \A k \in 1..Len(order) - 1 : tree.key[order[k]] <= tree.key[order[k + 1]]
        /\ \A n \in Members : \A c \in {tree.left[n], tree.right[n]} :
               IsNode(tree, c) => /\ tree.parent[c] = n
                                  /\ ~(tree.red[n] /\ tree.red[c])
        /\ Cardinality(BlackHeights(tree, tree.root)) = 1
        /\ ~tree.red[tree.root] /\ tree.parent[tree.root] = NULL
        /\ tree.parent[Leaf] = NULL /\ ~tree.red[Leaf] /\ ~IsNode(tree, Leaf)

\* The searches find what is asked for, or its nearest neighbour on the side asked
\* for, whatever the shape of the tree, and the walks from either end by neighbours
\* meet every node in order. A tree may hold a key more than once.
SearchesFind ==
    LET keys == {tree.key[n] : n \in Members}
        order == Inorder(tree, tree.root)
        KeyOf(n) == IF n = NULL THEN NULL ELSE tree.key[n]
        Best(S, Better(_, _)) ==
            IF S = {} THEN NULL ELSE CHOOSE x \in S : \A y \in S : x = y \/ Better(x, y)
    IN  /\ \A k \in 0..MaxKey :
             /\ KeyOf(Search(tree, k)) = IF k \in keys THEN k ELSE NULL
             /\ KeyOf(SearchLower(tree, k))
                   = Best({x \in keys : x <= k}, LAMBDA x, y : x > y)
             /\ KeyOf(SearchHigher(tree, k))
                   = Best({x \in keys : x >= k}, LAMBDA x, y : x < y)
        /\ order # <<>> =>
             /\ Outermost(tree, tree.root, "left") = order[1]
             /\ Outermost(tree, tree.root, "right") = order[Len(order)]
        /\ \A k \in 1..Len(order) :
             /\ Neighbour(tree, order[k], "left")
                   = IF k = 1 THEN NULL ELSE order[k - 1]
             /\ Neighbour(tree, order[k], "right")
                   = IF k = Len(order) THEN NULL ELSE order[k + 1]

\* Both: the trees of the library are in order and are searched as such.
TreesWork == TreeIsRedBlack /\ SearchesFind
=============================================================================
