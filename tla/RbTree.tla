------------------------------- MODULE RbTree -------------------------------
(***************************************************************************)
(* The red-black tree of rbtree.c, in which a block device keeps its       *)
(* buffers by block number.  The cache calls rb_insert and rb_erase with   *)
(* bd_bh_root_lock held, so calls do not overlap; a step is the descent    *)
(* and link of an insertion, the unlinking of an erasure, or one round of  *)
(* a rebalancing loop.                                                     *)
(*                                                                         *)
(* The code has every case twice, for the left and for the right side;     *)
(* here a side is a parameter.  A node that has been erased is freed at    *)
(* once by the cache, and what its fields were is forgotten.               *)
(***************************************************************************)
EXTENDS Naturals, Sequences, FiniteSets

CONSTANTS Nodes,       \* the rb_nodes there are
          Key          \* the block number of each

Nil == 0               \* NULL

ASSUME NodesAssumption ==
    /\ Nodes \subseteq Nat \ {Nil} /\ IsFiniteSet(Nodes)
    /\ Key \in [Nodes -> Nat]

VARIABLES
    t,        \* the tree: rb_parent, rb_left and rb_right of each node, the
              \* set of red nodes, and rb_node of the root
    ends,     \* rb_leftmost and rb_rightmost of the root
    pc,
    node, parent    \* locals of rb_insert_color and __rb_erase_color

vars == <<t, ends, pc, node, parent>>

Sides    == {"left", "right"}
Other(s) == CHOOSE x \in Sides : x # s

\* A node that is not in the tree has no links.
Empty == [up    |-> [n \in Nodes |-> Nil],
          left  |-> [n \in Nodes |-> Nil],
          right |-> [n \in Nodes |-> Nil],
          red   |-> {},
          root  |-> Nil]

\* The nodes in order; the walk that every traversal of the tree stands for.
InOrder(u) ==
    LET walk[x \in Nodes \cup {Nil}] ==
            IF x = Nil THEN <<>> ELSE walk[u.left[x]] \o <<x>> \o walk[u.right[x]]
    IN  walk[u.root]

Linked(u, n) == n = u.root \/ u.up[n] # Nil

-----------------------------------------------------------------------------
(* Links.                                                                    *)

\* rb_set_parent, of a node that may be NULL
SetParent(u, n, p) == IF n = Nil THEN u ELSE [u EXCEPT !.up[n] = p]

\* The link to old from its parent p, or from the root, becomes a link to new.
Replace(u, p, old, new) ==
    IF p = Nil THEN [u EXCEPT !.root = new]
    ELSE IF u.left[p] = old THEN [u EXCEPT !.left[p] = new]
    ELSE [u EXCEPT !.right[p] = new]

\* __rb_rotate_left and __rb_rotate_right: n goes down on side s, its child on
\* the other side takes its place.
Rotate(u, n, s) ==
    LET c  == u[Other(s)][n]
        g  == u[s][c]
        u1 == SetParent([u EXCEPT ![Other(s)][n] = g, ![s][c] = n], g, n)
    IN  SetParent(Replace(SetParent(u1, c, u.up[n]), u.up[n], n, c), n, c)

IsRed(u, n)   == n \in u.red
IsBlack(u, n) == n \notin u.red       \* or NULL

\* As far as possible from x to side s.
Down(u, x, s) ==
    LET go[y \in Nodes] == IF u[s][y] = Nil THEN y ELSE go[u[s][y]]
    IN  go[x]

\* rb_first and rb_last
Outermost(u, s) == IF u.root = Nil THEN Nil ELSE Down(u, u.root, s)

\* Seeded fault: from a node without a child on the side, only one step up.
Neighbour_parent(u, n, s) ==
    IF u[s][n] # Nil THEN Down(u, u[s][n], Other(s)) ELSE u.up[n]

\* rb_next, with side right, and rb_prev, with side left
Neighbour(u, n, s) ==
    LET climb[x \in Nodes] ==
            IF u.up[x] # Nil /\ x = u[s][u.up[x]] THEN climb[u.up[x]] ELSE u.up[x]
    IN  IF u[s][n] # Nil THEN Down(u, u[s][n], Other(s)) ELSE climb[n]

-----------------------------------------------------------------------------
(* rb_insert                                                                 *)

\* The way down for node n: where it ends, on which side, and the sides taken.
Descent(u, n) ==
    LET down[w \in Nodes \X SUBSET Sides] ==
            LET x     == w[1]
                taken == w[2]
                s     == IF Key[n] < Key[x] THEN "left" ELSE "right"
            IN  IF Key[n] = Key[x] THEN [at |-> x, side |-> "none", taken |-> taken]
                ELSE IF u[s][x] = Nil THEN [at |-> x, side |-> s, taken |-> taken \cup {s}]
                ELSE down[<<u[s][x], taken \cup {s}>>]
    IN  IF u.root = Nil THEN [at |-> Nil, side |-> "root", taken |-> {}]
        ELSE down[<<u.root, {}>>]

\* rb_link_node: the new node is a red leaf.
LinkNode(u, n, p, s) ==
    LET v == [u EXCEPT !.up[n] = p, !.left[n] = Nil, !.right[n] = Nil, !.red = @ \cup {n}]
    IN  IF s = "root" THEN [v EXCEPT !.root = n] ELSE [v EXCEPT ![s][p] = n]

Insert(n) ==
    /\ pc = "idle" /\ ~Linked(t, n)
    /\ LET d == Descent(t, n)
       IN  /\ d.side # "none"
           /\ t' = LinkNode(t, n, d.at, d.side)
           /\ ends' = [s \in Sides |-> IF Other(s) \notin d.taken THEN n ELSE ends[s]]
    /\ pc' = "insert_color" /\ node' = n
    /\ UNCHANGED parent

\* The key is in the tree: the node is not put in, and nobody is told.
RefuseInsert(n) ==
    /\ pc = "idle" /\ ~Linked(t, n)
    /\ Descent(t, n).side = "none"
    /\ UNCHANGED vars

Done ==
    /\ pc' = "idle" /\ node' = Nil /\ parent' = Nil

\* A round of rb_insert_color: parent is red, and its parent's child on side s.
InsertRound(s) ==
    /\ pc = "insert_color"
    /\ t.up[node] # Nil /\ IsRed(t, t.up[node])
    /\ t[s][t.up[t.up[node]]] = t.up[node]

\* Seeded fault: the grandparent stays black.
RecolorUncle_black(s) ==
    /\ InsertRound(s)
    /\ LET p == t.up[node]
           g == t.up[p]
           uncle == t[Other(s)][g]
       IN  /\ IsRed(t, uncle)
           /\ t' = [t EXCEPT !.red = @ \ {uncle, p}]
           /\ node' = g
    /\ UNCHANGED <<ends, pc, parent>>

RecolorUncle(s) ==
    /\ InsertRound(s)
    /\ LET p == t.up[node]
           g == t.up[p]
           uncle == t[Other(s)][g]
       IN  /\ IsRed(t, uncle)
           /\ t' = [t EXCEPT !.red = (@ \ {uncle, p}) \cup {g}]
           /\ node' = g
    /\ UNCHANGED <<ends, pc, parent>>

\* An inner node is first rotated to the outside.
RotateGrandparent(s) ==
    /\ InsertRound(s)
    /\ LET p     == t.up[node]
           g     == t.up[p]
           inner == t[Other(s)][p] = node
           u     == IF inner THEN Rotate(t, p, s) ELSE t
           top   == IF inner THEN node ELSE p
       IN  /\ IsBlack(t, t[Other(s)][g])
           /\ t' = Rotate([u EXCEPT !.red = (@ \ {top}) \cup {g}], g, Other(s))
           /\ node' = IF inner THEN p ELSE node
    /\ UNCHANGED <<ends, pc, parent>>

EndInsert ==
    /\ pc = "insert_color"
    /\ IsBlack(t, t.up[node])
    /\ t' = [t EXCEPT !.red = @ \ {t.root}]
    /\ Done
    /\ UNCHANGED ends

-----------------------------------------------------------------------------
(* rb_erase                                                                  *)

\* The node is out of the tree, and freed.
Freed(u, n) ==
    [u EXCEPT !.up[n] = Nil, !.left[n] = Nil, !.right[n] = Nil, !.red = @ \ {n}]

\* Seeded fault: a child on the right is forgotten.
Unlink_left(u, n) ==
    LET c == u.left[n]
        p == u.up[n]
    IN  [tree   |-> Replace(SetParent(u, c, p), p, n, c),
         child  |-> c, parent |-> p, black |-> IsBlack(u, n)]

\* __rb_erase of a node with at most one child.
Unlink(u, n) ==
    LET c == IF u.left[n] = Nil THEN u.right[n] ELSE u.left[n]
        p == u.up[n]
    IN  [tree   |-> Replace(SetParent(u, c, p), p, n, c),
         child  |-> c, parent |-> p, black |-> IsBlack(u, n)]

\* __rb_erase of a node with two: its successor m takes its place and colour.
Supplant(u, n) ==
    LET m  == Down(u, u.right[n], "left")
        c  == u.right[m]
        p  == u.up[m]
        u1 == Replace(u, u.up[n], n, m)
        u2 == IF p = n THEN u1
              ELSE SetParent([SetParent(u1, c, p) EXCEPT
                                 !.left[p] = c, !.right[m] = u.right[n]], u.right[n], m)
        u3 == [u2 EXCEPT !.up[m] = u.up[n], !.left[m] = u.left[n],
                         !.red = IF IsRed(u, n) THEN @ \cup {m} ELSE @ \ {m}]
    IN  [tree   |-> SetParent(u3, u.left[n], m),
         child  |-> c, parent |-> IF p = n THEN m ELSE p, black |-> IsBlack(u, m)]

Erase(n) ==
    /\ pc = "idle" /\ Linked(t, n)
    /\ ends' = [s \in Sides |-> IF ends[s] = n THEN Neighbour(t, n, Other(s)) ELSE ends[s]]
    /\ LET e == IF t.left[n] # Nil /\ t.right[n] # Nil THEN Supplant(t, n) ELSE Unlink(t, n)
       IN  /\ t' = Freed(e.tree, n)
           /\ \/ /\ e.black
                 /\ pc' = "erase_color" /\ node' = e.child /\ parent' = e.parent
              \/ /\ ~e.black
                 /\ UNCHANGED <<pc, node, parent>>

\* A round of __rb_erase_color: node lacks a black one, and is the child of
\* parent on side s.
EraseRound(s) ==
    /\ pc = "erase_color"
    /\ IsBlack(t, node) /\ node # t.root
    /\ s = IF t.left[parent] = node THEN "left" ELSE "right"

Sibling(s) == t[Other(s)][parent]

\* A red sibling goes up; the round goes on with the new one, which is black.
SiblingRed(s) ==
    /\ EraseRound(s)
    /\ IsRed(t, Sibling(s))
    /\ t' = Rotate([t EXCEPT !.red = (@ \ {Sibling(s)}) \cup {parent}], parent, s)
    /\ UNCHANGED <<ends, pc, node, parent>>

SiblingBlack(s) ==
    /\ EraseRound(s)
    /\ IsBlack(t, Sibling(s))
    /\ IsBlack(t, t.left[Sibling(s)]) /\ IsBlack(t, t.right[Sibling(s)])
    /\ t' = [t EXCEPT !.red = @ \cup {Sibling(s)}]
    /\ node' = parent /\ parent' = t.up[parent]
    /\ UNCHANGED <<ends, pc>>

\* The sibling has a red child: rotations that end the loop.
SiblingFixes(s) ==
    /\ EraseRound(s)
    /\ IsBlack(t, Sibling(s))
    /\ \E x \in {"left", "right"} : IsRed(t, t[x][Sibling(s)])
    /\ LET o  == Sibling(s)
           u  == IF IsRed(t, t[Other(s)][o]) THEN t
                 ELSE Rotate([t EXCEPT !.red = (@ \ {t[s][o]}) \cup {o}], o, Other(s))
           o1 == u[Other(s)][parent]
           v  == [u EXCEPT !.red = (IF IsRed(u, parent) THEN @ \cup {o1} ELSE @ \ {o1})
                                      \ {parent, u[Other(s)][o1]}]
           w  == Rotate(v, parent, s)
       IN  t' = [w EXCEPT !.red = @ \ {w.root}]
    /\ Done
    /\ UNCHANGED ends

EndErase ==
    /\ pc = "erase_color"
    /\ IsRed(t, node) \/ node = t.root
    /\ t' = [t EXCEPT !.red = @ \ {node}]
    /\ Done
    /\ UNCHANGED ends

-----------------------------------------------------------------------------
Init ==
    /\ t = Empty /\ ends = [s \in Sides |-> Nil]
    /\ pc = "idle" /\ node = Nil /\ parent = Nil

\* What a call does after its first step.
Rebalance ==
    \/ \E s \in Sides :
          \/ RecolorUncle(s) \/ RotateGrandparent(s)
          \/ SiblingRed(s) \/ SiblingBlack(s) \/ SiblingFixes(s)
    \/ EndInsert \/ EndErase

Next ==
    \/ \E n \in Nodes : Insert(n) \/ RefuseInsert(n) \/ Erase(n)
    \/ Rebalance

Spec == Init /\ [][Next]_vars

-----------------------------------------------------------------------------
(* Properties.                                                               *)

\* The tree holds the nodes put into it, each key once, in the order of the
\* keys, through every rotation: what the search of the buffer cache needs.
Index == INSTANCE BlockIndex WITH order <- InOrder(t)
Implements == Index!Spec

\* Between calls no red node has a red child and every way down has as many
\* black nodes, so that a search is logarithmic.
Balanced ==
    LET black[x \in Nodes \cup {Nil}] ==
            IF x = Nil THEN {0}
            ELSE {b + (IF IsRed(t, x) THEN 0 ELSE 1) : b \in black[t.left[x]] \cup black[t.right[x]]}
    IN  pc = "idle" =>
            /\ \A n \in t.red : t.up[n] # Nil /\ IsBlack(t, t.up[n])
            /\ Cardinality(black[t.root]) = 1

\* rb_leftmost, rb_rightmost, rb_first, rb_last, rb_next and rb_prev give the
\* ends and the neighbours in the order; bdev_free and rb_erase rely on them.
WalksAgree ==
    LET o == InOrder(t)
        At(k) == IF k \in 1 .. Len(o) THEN o[k] ELSE Nil
    IN  /\ ends["left"] = At(1) /\ ends["right"] = At(Len(o))
        /\ Outermost(t, "left") = At(1) /\ Outermost(t, "right") = At(Len(o))
        /\ \A k \in 1 .. Len(o) :
              Neighbour(t, o[k], "right") = At(k + 1) /\ Neighbour(t, o[k], "left") = At(k - 1)
=============================================================================
