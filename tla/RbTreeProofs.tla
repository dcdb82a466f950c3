---------------------------- MODULE RbTreeProofs ----------------------------
(***************************************************************************)
(* Proofs about RbTree, for any set of nodes and any keys: the tree        *)
(* implements BlockIndex, it is balanced between calls, and its walks      *)
(* agree with the order.                                                   *)
(*                                                                         *)
(* What the recursive functions of RbTree compute is proved by induction   *)
(* over the tree; the invariant says what the tree is by a function D,     *)
(* which gives the nodes below each node, itself included, so that a       *)
(* rotation changes D at two nodes only.                                   *)
(***************************************************************************)
EXTENDS RbTree, TLAPS, FiniteSetTheorems, SequenceTheorems, WellFoundedInduction

-----------------------------------------------------------------------------
(* The shape of the tree. *)

MaybeNode == Nodes \cup {Nil}
TreeType  == [up : [Nodes -> MaybeNode], left : [Nodes -> MaybeNode],
              right : [Nodes -> MaybeNode], red : SUBSET Nodes, root : MaybeNode]

Below(D, x)   == IF x = Nil THEN {} ELSE D[x]
Members(u, D) == Below(D, u.root)

\* x belongs on side s of y.
On(s, x, y) == IF s = "left" THEN Key[x] < Key[y] ELSE Key[y] < Key[x]

\* The nodes below x are those below its children, on their sides of x, and the
\* links up and down agree.
NodeShape(u, D, x) ==
    /\ D[x] = {x} \cup Below(D, u.left[x]) \cup Below(D, u.right[x])
    /\ \A s \in Sides : /\ \A y \in Below(D, u[s][x]) : On(s, y, x)
                        /\ u[s][x] # Nil => u[s][x] \in Members(u, D) /\ u.up[u[s][x]] = x
    /\ x # u.root => u.up[x] \in Members(u, D) /\ \E s \in Sides : u[s][u.up[x]] = x

Shape(u, D) ==
    /\ u \in TreeType /\ D \in [Nodes -> SUBSET Nodes]
    /\ u.root # Nil => u.root \in Members(u, D) /\ u.up[u.root] = Nil
    /\ \A x \in Members(u, D) : NodeShape(u, D, x)
    /\ \A x \in Nodes \ Members(u, D) :
          u.up[x] = Nil /\ u.left[x] = Nil /\ u.right[x] = Nil /\ x \notin u.red

LEMMA SidesFacts ==
    /\ Other("left") = "right" /\ Other("right") = "left"
    /\ \A s \in Sides : Other(s) \in Sides /\ Other(s) # s /\ Other(Other(s)) = s
    /\ \A s, z \in Sides : z = s \/ z = Other(s)
<1>1. Other("left") = "right" /\ Other("right") = "left"
  BY DEF Other, Sides
<1> QED BY <1>1 DEF Sides

LEMMA NilFacts == Nil \notin Nodes /\ IsFiniteSet(Nodes) /\ \A n \in Nodes : Key[n] \in Nat
BY NodesAssumption DEF Nil

\* On is an order of the nodes, one way or the other.
LEMMA OnFacts ==
    ASSUME NEW s \in Sides, NEW x \in Nodes, NEW y \in Nodes, NEW z \in Nodes
    PROVE  /\ ~On(s, x, x) /\ ~(On(s, x, y) /\ On(s, y, x))
           /\ On(s, x, y) /\ On(s, y, z) => On(s, x, z)
           /\ On(Other(s), x, y) <=> On(s, y, x)
           /\ Key[x] # Key[y] => On(s, x, y) \/ On(s, y, x)
<1>1. Key[x] \in Nat /\ Key[y] \in Nat /\ Key[z] \in Nat
  BY NilFacts
<1> QED BY <1>1, SidesFacts DEF On, Sides

LEMMA Links ==
    ASSUME NEW u \in TreeType
    PROVE  /\ \A s \in Sides : u[s] \in [Nodes -> MaybeNode]
           /\ u.left = u["left"] /\ u.right = u["right"]
           /\ u.up \in [Nodes -> MaybeNode] /\ u.red \subseteq Nodes /\ u.root \in MaybeNode
BY DEF TreeType, Sides

LEMMA Smallest ==
    ASSUME NEW S \in SUBSET Nat, S # {}
    PROVE  \E m \in S : \A j \in S : m <= j
<1>1. PICK m \in S : \A y \in S : ~(<<y, m>> \in OpToRel(<, Nat))
  BY NatLessThanWellFounded, WFMin
<1>2. \A y \in S : ~(y < m)
  BY <1>1 DEF OpToRel
<1> QED BY <1>2

\* The same for a measure.
LEMMA SmallestBy ==
    ASSUME NEW S, S # {}, NEW mu, \A x \in S : mu[x] \in Nat
    PROVE  \E x \in S : \A y \in S : mu[x] <= mu[y]
<1>1. PICK R : R = {mu[x] : x \in S}
  OBVIOUS
<1>2. R \in SUBSET Nat /\ R # {}
  BY <1>1
<1>3. PICK m \in R : \A j \in R : m <= j
  BY <1>2, Smallest
<1> QED BY <1>1, <1>3

-----------------------------------------------------------------------------
(* Moving in the tree. *)

\* The number of nodes below x.
Size(D) == [x \in Nodes |-> Cardinality(D[x])]

LEMMA MemberFacts ==
    ASSUME NEW u, NEW D, Shape(u, D), NEW x \in Members(u, D)
    PROVE  /\ x \in Nodes /\ x # Nil /\ NodeShape(u, D, x) /\ x \in D[x] /\ D[x] \subseteq Nodes
           /\ u.root \in Nodes /\ u.root \in Members(u, D) /\ Members(u, D) = D[u.root]
           /\ Members(u, D) \subseteq Nodes
           /\ Size(D)[x] \in Nat
<1>1. u.root # Nil
  BY DEF Members, Below
<1>2. u.root \in Nodes /\ u.root \in Members(u, D) /\ Members(u, D) = D[u.root]
  BY <1>1 DEF Shape, Members, Below, TreeType, MaybeNode
<1>3. D[u.root] \subseteq Nodes
  BY <1>2 DEF Shape
<1>4. x \in Nodes /\ x # Nil /\ NodeShape(u, D, x) /\ D[x] \subseteq Nodes
  BY <1>2, <1>3, NilFacts DEF Shape
<1>5. x \in D[x]
  BY <1>4 DEF NodeShape
<1>6. Size(D)[x] \in Nat
  BY <1>4, NilFacts, FS_Subset, FS_CardinalityType DEF Size
<1> QED BY <1>2, <1>3, <1>4, <1>5, <1>6

LEMMA ChildFacts ==
    ASSUME NEW u, NEW D, Shape(u, D), NEW x \in Members(u, D), NEW s \in Sides, u[s][x] # Nil
    PROVE  LET c == u[s][x]
           IN  /\ c \in Members(u, D) /\ u.up[c] = x /\ c # u.root
               /\ Below(D, c) = D[c] /\ D[c] \subseteq D[x] /\ x \notin D[c]
               /\ \A y \in D[c] : On(s, y, x)
               /\ Size(D)[c] < Size(D)[x]
<1>1. PICK c : c = u[s][x]
  OBVIOUS
<1>2. NodeShape(u, D, x) /\ x \in Nodes /\ x # Nil
  BY MemberFacts
<1>3. c \in Members(u, D) /\ u.up[c] = x /\ \A y \in Below(D, c) : On(s, y, x)
  BY <1>1, <1>2 DEF NodeShape
<1>4. c # u.root
  <2>1. u.root # Nil /\ u.root \in Members(u, D)
    BY MemberFacts, NilFacts
  <2>2. u.up[u.root] = Nil
    BY <2>1 DEF Shape
  <2> QED BY <1>2, <1>3, <2>2
<1>5. Below(D, c) = D[c]
  BY <1>1 DEF Below
<1>6. D[c] \subseteq D[x]
  <2>1. s = "left" \/ s = "right"
    BY DEF Sides
  <2>2. u \in TreeType
    BY DEF Shape
  <2>3. c = u.left[x] \/ c = u.right[x]
    BY <1>1, <2>1, <2>2, Links
  <2> QED BY <1>2, <1>5, <2>3 DEF NodeShape
<1>7. c \in Nodes /\ D[c] \subseteq Nodes /\ D[x] \subseteq Nodes /\ x \in D[x]
  BY <1>3, MemberFacts
<1>8. x \notin D[c]
  BY <1>2, <1>3, <1>5, OnFacts
<1>9. Cardinality(D[c]) < Cardinality(D[x])
  <2>1. IsFiniteSet(D[x])
    BY <1>7, NilFacts, FS_Subset
  <2>2. Cardinality(D[c]) <= Cardinality(D[x]) /\ (Cardinality(D[c]) = Cardinality(D[x]) => D[c] = D[x])
    BY <1>6, <2>1, FS_Subset
  <2>3. Cardinality(D[c]) \in Nat /\ Cardinality(D[x]) \in Nat
    BY <1>6, <2>1, FS_Subset, FS_CardinalityType
  <2> QED BY <1>7, <1>8, <2>2, <2>3
<1> QED BY <1>1, <1>2, <1>3, <1>4, <1>5, <1>6, <1>7, <1>8, <1>9 DEF Size

LEMMA ParentFacts ==
    ASSUME NEW u, NEW D, Shape(u, D), NEW x \in Members(u, D), x # u.root
    PROVE  LET p == u.up[x]
           IN  /\ p \in Members(u, D) /\ p # Nil /\ p # x
               /\ \E s \in Sides : u[s][p] = x /\ u[Other(s)][p] # x
               /\ D[x] \subseteq D[p] /\ p \notin D[x] /\ Size(D)[x] < Size(D)[p]
<1>1. PICK p : p = u.up[x]
  OBVIOUS
<1>2. NodeShape(u, D, x) /\ x # Nil /\ x \in D[x]
  BY MemberFacts
<1>3. p \in Members(u, D) /\ \E s \in Sides : u[s][p] = x
  BY <1>1, <1>2 DEF NodeShape
<1>4. PICK s \in Sides : u[s][p] = x
  BY <1>3
<1>5. p # Nil /\ p \in Nodes /\ p \in D[p] /\ x \in Nodes
  BY <1>3, MemberFacts
<1>6. D[x] \subseteq D[p] /\ p \notin D[x] /\ Size(D)[x] < Size(D)[p] /\ \A y \in D[x] : On(s, y, p)
  BY <1>2, <1>3, <1>4, ChildFacts
<1>7. u[Other(s)][p] # x
  <2> SUFFICES ASSUME u[Other(s)][p] = x PROVE FALSE
    OBVIOUS
  <2>1. Other(s) \in Sides
    BY SidesFacts
  <2>2. \A y \in D[x] : On(Other(s), y, p)
    BY <1>2, <1>3, <2>1, ChildFacts
  <2> QED BY <1>2, <1>5, <1>6, <2>2, OnFacts
<1> QED BY <1>1, <1>2, <1>3, <1>4, <1>5, <1>6, <1>7

\* Induction from the leaves to the root, and from the root to the leaves.
LEMMA BottomUp ==
    ASSUME NEW u, NEW D, Shape(u, D), NEW S,
           \A x \in Members(u, D) : (\A s \in Sides : u[s][x] # Nil => u[s][x] \in S) => x \in S
    PROVE  Members(u, D) \subseteq S
<1> SUFFICES ASSUME Members(u, D) \ S # {} PROVE FALSE
  OBVIOUS
<1>1. PICK B : B = Members(u, D) \ S
  OBVIOUS
<1>2. \A x \in B : Size(D)[x] \in Nat
  BY <1>1, MemberFacts
<1>3. PICK x \in B : \A y \in B : Size(D)[x] <= Size(D)[y]
  BY <1>1, <1>2, SmallestBy
<1>4. PICK s \in Sides : u[s][x] # Nil /\ u[s][x] \notin S
  BY <1>1
<1>5. u[s][x] \in Members(u, D) /\ Size(D)[u[s][x]] < Size(D)[x]
  BY <1>1, <1>4, ChildFacts
<1>6. u[s][x] \in B
  BY <1>1, <1>4, <1>5
<1>7. Size(D)[x] <= Size(D)[u[s][x]] /\ Size(D)[x] \in Nat /\ Size(D)[u[s][x]] \in Nat
  BY <1>2, <1>3, <1>6
<1> QED BY <1>5, <1>7

LEMMA TopDown ==
    ASSUME NEW u, NEW D, Shape(u, D), NEW S,
           u.root # Nil => u.root \in S,
           \A x \in Members(u, D) : x # u.root /\ u.up[x] \in S => x \in S
    PROVE  Members(u, D) \subseteq S
<1> SUFFICES ASSUME Members(u, D) \ S # {} PROVE FALSE
  OBVIOUS
<1>1. PICK B : B = Members(u, D) \ S
  OBVIOUS
<1>2. PICK N : N = Cardinality(Nodes) /\ N \in Nat
  BY NilFacts, FS_CardinalityType
<1>3. \A x \in B : Size(D)[x] \in Nat /\ N - Size(D)[x] \in Nat /\ x \in Nodes
  <2> SUFFICES ASSUME NEW x \in B PROVE Size(D)[x] \in Nat /\ N - Size(D)[x] \in Nat /\ x \in Nodes
    OBVIOUS
  <2>1. x \in Nodes /\ D[x] \subseteq Nodes /\ Size(D)[x] \in Nat
    BY <1>1, MemberFacts
  <2>2. Size(D)[x] <= N
    BY <1>2, <2>1, NilFacts, FS_Subset DEF Size
  <2> QED BY <1>2, <2>1, <2>2
<1>4. PICK mu : mu = [x \in Nodes |-> N - Size(D)[x]]
  OBVIOUS
<1>5. \A x \in B : mu[x] \in Nat /\ mu[x] = N - Size(D)[x]
  BY <1>3, <1>4
<1>6. PICK x \in B : \A y \in B : mu[x] <= mu[y]
  BY <1>1, <1>5, SmallestBy
<1>7. x # u.root
  BY <1>1, MemberFacts
<1>8. PICK p : p = u.up[x]
  OBVIOUS
<1>9. p \in Members(u, D) /\ Size(D)[x] < Size(D)[p]
  BY <1>1, <1>7, <1>8, ParentFacts
<1>10. p \in B
  BY <1>1, <1>7, <1>8, <1>9
<1>11. mu[x] <= mu[p] /\ mu[p] = N - Size(D)[p] /\ mu[x] = N - Size(D)[x]
       /\ Size(D)[x] \in Nat /\ Size(D)[p] \in Nat
  BY <1>3, <1>5, <1>6, <1>10
<1> QED BY <1>2, <1>9, <1>11

-----------------------------------------------------------------------------
(* How the sets D[x] lie to each other. *)

\* What lies below a child lies below the node, and what lies below a node
\* other than itself lies below a child.
LEMMA BelowFacts ==
    ASSUME NEW u, NEW D, Shape(u, D), NEW x \in Members(u, D), NEW y \in D[x]
    PROVE  /\ y = x \/ \E s \in Sides : u[s][x] # Nil /\ y \in D[u[s][x]]
           /\ y \in Nodes
<1>1. D[x] = {x} \cup Below(D, u.left[x]) \cup Below(D, u.right[x])
  BY MemberFacts DEF NodeShape
<1>2. u \in TreeType /\ D[x] \subseteq Nodes
  BY MemberFacts DEF Shape
<1>3. u.left = u["left"] /\ u.right = u["right"] /\ "left" \in Sides /\ "right" \in Sides
  BY <1>2, Links DEF Sides
<1> QED BY <1>1, <1>2, <1>3 DEF Below

LEMMA Within ==
    ASSUME NEW u, NEW D, Shape(u, D), NEW z \in Members(u, D), NEW c \in D[z]
    PROVE  /\ c \in Members(u, D) /\ D[c] \subseteq D[z]
           /\ c # z => u.up[c] \in D[z] /\ z \notin D[c]
<1>1. PICK S : S = {x \in Members(u, D) : \A y \in D[x] : y \in Members(u, D) /\ D[y] \subseteq D[x]
                        /\ (y # x => u.up[y] \in D[x] /\ x \notin D[y])}
  OBVIOUS
<1>2. ASSUME NEW x \in Members(u, D), \A s \in Sides : u[s][x] # Nil => u[s][x] \in S
      PROVE  x \in S
  <2> SUFFICES ASSUME NEW y \in D[x]
               PROVE  y \in Members(u, D) /\ D[y] \subseteq D[x]
                        /\ (y # x => u.up[y] \in D[x] /\ x \notin D[y])
    BY <1>1
  <2>1. CASE y = x
    BY <2>1
  <2>2. CASE y # x
    <3>1. PICK s \in Sides : u[s][x] # Nil /\ y \in D[u[s][x]]
      BY <2>2, BelowFacts
    <3>2. PICK d : d = u[s][x]
      OBVIOUS
    <3>3. d \in Members(u, D) /\ u.up[d] = x /\ D[d] \subseteq D[x] /\ x \notin D[d] /\ x \in D[x]
      BY <3>1, <3>2, ChildFacts, MemberFacts
    <3>4. y \in Members(u, D) /\ D[y] \subseteq D[d] /\ (y # d => u.up[y] \in D[d])
      BY <1>1, <1>2, <3>1, <3>2
    <3> QED BY <3>3, <3>4
  <2> QED BY <2>1, <2>2
<1>3. Members(u, D) \subseteq S
  BY <1>2, BottomUp
<1> QED BY <1>1, <1>3

\* A node that is not below x lies on one side of all that is.
LEMMA Apart ==
    ASSUME NEW u, NEW D, Shape(u, D), NEW x \in Members(u, D), NEW w \in Members(u, D), w \notin D[x]
    PROVE  \E s \in Sides : \A y \in D[x] : On(s, w, y)
<1>1. PICK S : S = {z \in Members(u, D) : \A v \in Members(u, D) \ D[z] :
                        \E s \in Sides : \A y \in D[z] : On(s, v, y)}
  OBVIOUS
<1>2. u.root # Nil => u.root \in S
  BY <1>1, MemberFacts
<1>3. ASSUME NEW z \in Members(u, D), z # u.root, u.up[z] \in S PROVE z \in S
  <2> SUFFICES ASSUME NEW v \in Members(u, D) \ D[z]
               PROVE  \E s \in Sides : \A y \in D[z] : On(s, v, y)
    BY <1>1
  <2>1. PICK p : p = u.up[z]
    OBVIOUS
  <2>2. p \in Members(u, D) /\ D[z] \subseteq D[p]
    BY <1>3, <2>1, ParentFacts
  <2>3. PICK s \in Sides : u[s][p] = z
    BY <1>3, <2>1, ParentFacts
  <2>4. z # Nil /\ p \in Nodes /\ v \in Nodes /\ D[z] \subseteq Nodes
    BY <2>2, MemberFacts
  <2>5. \A y \in D[z] : On(s, y, p)
    BY <2>2, <2>3, <2>4, ChildFacts
  <2>6. CASE v \notin D[p]
    BY <1>1, <1>3, <2>1, <2>2, <2>6
  <2>7. CASE v = p
    BY <2>4, <2>5, <2>7, OnFacts, SidesFacts
  <2>8. CASE v \in D[p] /\ v # p
    <3>1. PICK r \in Sides : u[r][p] # Nil /\ v \in D[u[r][p]]
      BY <2>2, <2>8, BelowFacts
    <3>2. r = Other(s)
      BY <2>3, <3>1, SidesFacts
    <3>3. On(r, v, p)
      BY <2>2, <3>1, ChildFacts
    <3>4. \A y \in D[z] : On(r, p, y)
      BY <2>4, <2>5, <3>2, OnFacts, SidesFacts
    <3>5. \A y \in D[z] : On(r, v, y)
      BY <2>4, <3>3, <3>4, OnFacts
    <3> QED BY <3>5
  <2> QED BY <2>6, <2>7, <2>8
<1>4. Members(u, D) \subseteq S
  BY <1>2, <1>3, TopDown
<1> QED BY <1>1, <1>4

-----------------------------------------------------------------------------
(* Recursion.  A function that is defined by going from node to node exists  *)
(* when something grows less on the way.                                     *)

Going(f, S, stop, base, nxt) == f = [x \in S |-> IF x \in stop THEN base[x] ELSE f[nxt[x]]]

LEMMA GoingExists ==
    ASSUME NEW S, NEW stop, NEW base, NEW nxt, NEW mu, NEW N \in Nat,
           \A x \in S : mu[x] \in 0 .. N,
           \A x \in S \ stop : nxt[x] \in S /\ mu[nxt[x]] < mu[x]
    PROVE  \E f : Going(f, S, stop, base, nxt)
<1>1. PICK G : G = {n \in Nat : \E f : \A x \in S : mu[x] < n =>
                       f[x] = IF x \in stop THEN base[x] ELSE f[nxt[x]]}
  OBVIOUS
<1>2. N + 1 \in G
  <2> SUFFICES ASSUME N + 1 \notin G PROVE FALSE
    OBVIOUS
  <2>1. PICK B : B = Nat \ G
    OBVIOUS
  <2>2. PICK n \in B : \A j \in B : n <= j
    BY <2>1, Smallest
  <2>3. 0 \in G
    BY <1>1
  <2>4. n \in Nat /\ n # 0 /\ n \notin G
    BY <2>1, <2>2, <2>3
  <2>5. PICK m : m = n - 1 /\ m \in Nat /\ m < n /\ n = m + 1
    BY <2>4
  <2>6. m \in G
    BY <2>1, <2>2, <2>5
  <2>7. PICK f : \A x \in S : mu[x] < m => f[x] = IF x \in stop THEN base[x] ELSE f[nxt[x]]
    BY <1>1, <2>6
  <2>8. PICK g : g = [x \in S |-> IF mu[x] < m THEN f[x]
                                  ELSE IF x \in stop THEN base[x] ELSE f[nxt[x]]]
    OBVIOUS
  <2>9. ASSUME NEW x \in S, mu[x] < n
        PROVE  g[x] = IF x \in stop THEN base[x] ELSE g[nxt[x]]
    <3>1. g[x] = IF x \in stop THEN base[x] ELSE f[nxt[x]]
      BY <2>7, <2>8
    <3>2. CASE x \in stop
      BY <3>1, <3>2
    <3>3. CASE x \notin stop
      <4>1. nxt[x] \in S /\ mu[nxt[x]] < mu[x] /\ mu[x] \in Nat /\ mu[nxt[x]] \in Nat
        BY <3>3
      <4>2. mu[nxt[x]] < m
        BY <2>5, <2>9, <4>1
      <4>3. g[nxt[x]] = f[nxt[x]]
        BY <2>8, <4>1, <4>2
      <4> QED BY <3>1, <3>3, <4>3
    <3> QED BY <3>2, <3>3
  <2> QED BY <1>1, <2>4, <2>9
<1>3. PICK f : \A x \in S : mu[x] < N + 1 => f[x] = IF x \in stop THEN base[x] ELSE f[nxt[x]]
  BY <1>1, <1>2
<1>4. \A x \in S : mu[x] < N + 1
  OBVIOUS
<1>5. PICK g : g = [x \in S |-> f[x]]
  OBVIOUS
<1>6. g = [x \in S |-> IF x \in stop THEN base[x] ELSE g[nxt[x]]]
  <2>1. \A x \in S : g[x] = IF x \in stop THEN base[x] ELSE g[nxt[x]]
    BY <1>3, <1>4, <1>5
  <2> QED BY <1>5, <2>1
<1> QED BY <1>6 DEF Going

\* The measures for the ways down and up.
LEMMA Measures ==
    ASSUME NEW u, NEW D, Shape(u, D)
    PROVE  \E N \in Nat : \E dn, au :
              /\ \A x \in Nodes : dn[x] \in 0 .. N /\ au[x] \in 0 .. N
              /\ \A x \in Nodes, s \in Sides : u[s][x] # Nil => u[s][x] \in Nodes /\ dn[u[s][x]] < dn[x]
              /\ \A x \in Nodes : u.up[x] # Nil => u.up[x] \in Nodes /\ au[u.up[x]] < au[x]
<1>1. PICK N : N = Cardinality(Nodes) /\ N \in Nat
  BY NilFacts, FS_CardinalityType
<1>2. PICK dn : dn = [x \in Nodes |-> IF x \in Members(u, D) THEN Size(D)[x] ELSE 0]
  OBVIOUS
<1>3. PICK au : au = [x \in Nodes |-> IF x \in Members(u, D) THEN N - Size(D)[x] ELSE 0]
  OBVIOUS
<1>4. \A x \in Members(u, D) : Size(D)[x] \in Nat /\ Size(D)[x] <= N /\ x \in Nodes
  <2> SUFFICES ASSUME NEW x \in Members(u, D) PROVE Size(D)[x] \in Nat /\ Size(D)[x] <= N /\ x \in Nodes
    OBVIOUS
  <2>1. x \in Nodes /\ D[x] \subseteq Nodes /\ Size(D)[x] \in Nat
    BY MemberFacts
  <2> QED BY <1>1, <2>1, NilFacts, FS_Subset DEF Size
<1>5. \A x \in Nodes : dn[x] \in 0 .. N /\ au[x] \in 0 .. N
  BY <1>1, <1>2, <1>3, <1>4
<1>6. ASSUME NEW x \in Nodes, NEW s \in Sides, u[s][x] # Nil
      PROVE  u[s][x] \in Nodes /\ dn[u[s][x]] < dn[x]
  <2>1. x \in Members(u, D)
    <3> SUFFICES ASSUME x \notin Members(u, D) PROVE FALSE
      OBVIOUS
    <3>1. u.left[x] = Nil /\ u.right[x] = Nil /\ u \in TreeType
      BY DEF Shape
    <3> QED BY <1>6, <3>1, Links DEF Sides
  <2>2. PICK c : c = u[s][x]
    OBVIOUS
  <2>3. c \in Members(u, D) /\ Size(D)[c] < Size(D)[x]
    BY <1>6, <2>1, <2>2, ChildFacts
  <2> QED BY <1>2, <1>4, <2>1, <2>2, <2>3
<1>7. ASSUME NEW x \in Nodes, u.up[x] # Nil
      PROVE  u.up[x] \in Nodes /\ au[u.up[x]] < au[x]
  <2>1. x \in Members(u, D) /\ x # u.root
    BY <1>7, NilFacts DEF Shape
  <2>2. PICK p : p = u.up[x]
    OBVIOUS
  <2>3. p \in Members(u, D) /\ Size(D)[x] < Size(D)[p]
    BY <2>1, <2>2, ParentFacts
  <2>4. au[x] = N - Size(D)[x] /\ au[p] = N - Size(D)[p] /\ p \in Nodes
    BY <1>3, <1>4, <2>1, <2>3
  <2> QED BY <1>1, <1>4, <2>1, <2>2, <2>3, <2>4
<1>8. \E a, b :
         /\ \A x \in Nodes : a[x] \in 0 .. N /\ b[x] \in 0 .. N
         /\ \A x \in Nodes, s \in Sides : u[s][x] # Nil => u[s][x] \in Nodes /\ a[u[s][x]] < a[x]
         /\ \A x \in Nodes : u.up[x] # Nil => u.up[x] \in Nodes /\ b[u.up[x]] < b[x]
  <2> WITNESS dn, au
  <2> QED BY <1>5, <1>6, <1>7
<1> QED BY <1>1, <1>8

\* The outermost node on side s of the set S.
IsOuter(z, S, s) == z \in S /\ \A w \in S : w = z \/ On(s, z, w)

LEMMA OuterUnique ==
    ASSUME NEW s \in Sides, NEW S \in SUBSET Nodes, NEW y, NEW z, IsOuter(y, S, s), IsOuter(z, S, s)
    PROVE  y = z
BY OnFacts DEF IsOuter

LEMMA DownIs ==
    ASSUME NEW u, NEW D, Shape(u, D), NEW x \in Members(u, D), NEW s \in Sides
    PROVE  IsOuter(Down(u, x, s), D[x], s)
<1> DEFINE go[y \in Nodes] == IF u[s][y] = Nil THEN y ELSE go[u[s][y]]
<1>1. Down(u, x, s) = go[x]
  BY DEF Down
<1>2. \A y \in Nodes : go[y] = IF u[s][y] = Nil THEN y ELSE go[u[s][y]]
  <2>1. PICK stop : stop = {y \in Nodes : u[s][y] = Nil}
    OBVIOUS
  <2>2. PICK base : base = [y \in Nodes |-> y]
    OBVIOUS
  <2>3. PICK nxt : nxt = [y \in Nodes |-> u[s][y]]
    OBVIOUS
  <2>4. PICK N \in Nat : \E dn, au :
              /\ \A y \in Nodes : dn[y] \in 0 .. N
              /\ \A y \in Nodes : u[s][y] # Nil => u[s][y] \in Nodes /\ dn[u[s][y]] < dn[y]
    BY Measures
  <2>4a. PICK dn, au :
              /\ \A y \in Nodes : dn[y] \in 0 .. N
              /\ \A y \in Nodes : u[s][y] # Nil => u[s][y] \in Nodes /\ dn[u[s][y]] < dn[y]
    BY <2>4
  <2>5. \A y \in Nodes \ stop : nxt[y] \in Nodes /\ dn[nxt[y]] < dn[y]
    BY <2>1, <2>3, <2>4a
  <2>6. \A y \in Nodes : dn[y] \in 0 .. N
    BY <2>4a
  <2>7. PICK f : Going(f, Nodes, stop, base, nxt)
    BY <2>5, <2>6, GoingExists
  <2>8. f = [y \in Nodes |-> IF u[s][y] = Nil THEN y ELSE f[u[s][y]]]
    BY <2>1, <2>2, <2>3, <2>7 DEF Going
  <2>9. go = [y \in Nodes |-> IF u[s][y] = Nil THEN y ELSE go[u[s][y]]]
    BY <2>8
  <2> HIDE DEF go
  <2> QED BY <2>9
<1> HIDE DEF go
<1>3. PICK S : S = {y \in Members(u, D) : IsOuter(go[y], D[y], s)}
  OBVIOUS
<1>4. ASSUME NEW y \in Members(u, D), \A k \in Sides : u[k][y] # Nil => u[k][y] \in S
      PROVE  y \in S
  <2>1. y \in Nodes /\ y \in D[y]
    BY MemberFacts
  <2>2. ASSUME NEW w \in D[y], w # y PROVE \E k \in Sides : u[k][y] # Nil /\ w \in D[u[k][y]] /\ On(k, w, y)
    BY <2>2, BelowFacts, ChildFacts
  <2>3. CASE u[s][y] = Nil
    <3>1. go[y] = y
      BY <1>2, <2>1, <2>3
    <3>2. ASSUME NEW w \in D[y], w # y PROVE On(s, y, w)
      <4>1. PICK k \in Sides : u[k][y] # Nil /\ w \in D[u[k][y]] /\ On(k, w, y)
        BY <2>2, <3>2
      <4>2. k = Other(s) /\ w \in Nodes
        BY <2>3, <4>1, SidesFacts, BelowFacts
      <4> QED BY <2>1, <4>1, <4>2, OnFacts
    <3> QED BY <1>3, <2>1, <3>1, <3>2 DEF IsOuter
  <2>4. CASE u[s][y] # Nil
    <3>1. PICK c : c = u[s][y] /\ go[y] = go[c]
      BY <1>2, <2>1, <2>4
    <3>2. IsOuter(go[c], D[c], s)
      BY <1>3, <1>4, <2>4, <3>1
    <3>3. D[c] \subseteq D[y] /\ \A w \in D[c] : On(s, w, y)
      BY <2>4, <3>1, ChildFacts
    <3>4. go[c] \in D[c] /\ go[c] \in Nodes /\ On(s, go[c], y) /\ go[c] \in D[y]
      BY <3>2, <3>3, BelowFacts DEF IsOuter
    <3>5. ASSUME NEW w \in D[y], w # go[c] PROVE On(s, go[c], w)
      <4>1. CASE w = y
        BY <3>4, <4>1
      <4>2. CASE w # y
        <5>1. PICK k \in Sides : u[k][y] # Nil /\ w \in D[u[k][y]] /\ On(k, w, y)
          BY <2>2, <4>2
        <5>2. w \in Nodes
          BY BelowFacts
        <5>3. CASE k = s
          BY <3>1, <3>2, <3>5, <5>1, <5>3 DEF IsOuter
        <5>4. CASE k = Other(s)
          <6>1. On(s, y, w)
            BY <2>1, <5>1, <5>2, <5>4, OnFacts
          <6> QED BY <2>1, <3>4, <5>2, <6>1, OnFacts
        <5> QED BY <5>3, <5>4, SidesFacts
      <4> QED BY <4>1, <4>2
    <3> QED BY <1>3, <3>1, <3>4, <3>5 DEF IsOuter
  <2> QED BY <2>3, <2>4
<1>5. Members(u, D) \subseteq S
  BY <1>4, BottomUp
<1> QED BY <1>1, <1>3, <1>5

\* z is the first of the nodes in M that lie on side s of the whole of S.
Beyond(z, M, S, s) == z \in M /\ \A w \in S : On(s, z, w)
IsNext(z, M, S, s) ==
    \/ z = Nil /\ \A v \in M : ~Beyond(v, M, S, s)
    \/ Beyond(z, M, S, s) /\ \A v \in M : Beyond(v, M, S, s) => v = z \/ On(s, v, z)

LEMMA NextUnique ==
    ASSUME NEW s \in Sides, NEW M \in SUBSET Nodes, NEW S, NEW y, NEW z,
           IsNext(y, M, S, s), IsNext(z, M, S, s)
    PROVE  y = z
<1>1. CASE y = Nil \/ z = Nil
  BY <1>1, NilFacts DEF IsNext, Beyond
<1>2. CASE y # Nil /\ z # Nil
  <2>1. y \in M /\ z \in M /\ Beyond(y, M, S, s) /\ Beyond(z, M, S, s)
    BY <1>2 DEF IsNext, Beyond
  <2>2. y = z \/ (On(s, y, z) /\ On(s, z, y))
    BY <1>2, <2>1 DEF IsNext
  <2> QED BY <2>1, <2>2, OnFacts
<1> QED BY <1>1, <1>2

LEMMA NextSame ==
    ASSUME NEW s \in Sides, NEW M, NEW S, NEW R, NEW z, IsNext(z, M, S, s),
           \A v \in M : Beyond(v, M, S, s) <=> Beyond(v, M, R, s)
    PROVE  IsNext(z, M, R, s)
<1>1. CASE z = Nil /\ \A v \in M : ~Beyond(v, M, S, s)
  <2>1. \A v \in M : ~Beyond(v, M, R, s)
    BY <1>1
  <2> QED BY <1>1, <2>1 DEF IsNext
<1>2. CASE Beyond(z, M, S, s) /\ \A v \in M : Beyond(v, M, S, s) => v = z \/ On(s, v, z)
  <2>1. z \in M
    BY <1>2 DEF Beyond
  <2>2. Beyond(z, M, R, s)
    BY <1>2, <2>1
  <2>3. \A v \in M : Beyond(v, M, R, s) => v = z \/ On(s, v, z)
    BY <1>2
  <2> QED BY <2>2, <2>3 DEF IsNext
<1> QED BY <1>1, <1>2 DEF IsNext

\* The next node on side s is the first on the way up of which x is on the
\* other side.
LEMMA NextUp ==
    ASSUME NEW u, NEW D, Shape(u, D), NEW x \in Members(u, D), NEW s \in Sides, NEW z
    PROVE  LET p == u.up[x]
               M == Members(u, D)
           IN  /\ x = u.root => IsNext(Nil, M, D[x], s)
               /\ x # u.root /\ x # u[s][p] => IsNext(p, M, D[x], s)
               /\ x # u.root /\ x = u[s][p] /\ IsNext(z, M, D[p], s) => IsNext(z, M, D[x], s)
<1> DEFINE p == u.up[x]
           M == Members(u, D)
<1>1. x \in Nodes /\ M \subseteq Nodes /\ x \in D[x] /\ D[x] \subseteq Nodes
  BY MemberFacts
<1>2. ASSUME x = u.root PROVE IsNext(Nil, M, D[x], s)
  <2>1. M = D[x]
    BY <1>2, MemberFacts
  <2>2. \A v \in M : ~Beyond(v, M, D[x], s)
    BY <1>1, <2>1, OnFacts DEF Beyond
  <2> QED BY <2>2 DEF IsNext
<1>3. ASSUME x # u.root
      PROVE  \E k \in Sides : /\ u[k][p] = x /\ u[Other(k)][p] # x /\ p \in M /\ p \in Nodes /\ p \in D[p]
                              /\ D[x] \subseteq D[p] /\ p \notin D[x]
                              /\ \A y \in D[x] : On(k, y, p)
  <2>1. PICK k \in Sides : u[k][p] = x /\ u[Other(k)][p] # x
    BY <1>3, ParentFacts
  <2>2. p \in M /\ D[x] \subseteq D[p] /\ p \notin D[x]
    BY <1>3, ParentFacts
  <2>3. p \in Nodes /\ p \in D[p] /\ x # Nil
    BY <2>2, MemberFacts
  <2>4. \A y \in D[x] : On(k, y, p)
    BY <2>1, <2>2, <2>3, ChildFacts
  <2> QED BY <2>1, <2>2, <2>3, <2>4
\* A node apart from D[p] lies on side s of all of it as soon as it does of x.
<1>4. ASSUME NEW v \in M, x # u.root, v \notin D[p], On(s, v, x)
      PROVE  \A y \in D[p] : On(s, v, y)
  <2>1. p \in M /\ x \in D[p] /\ v \in Nodes
    BY <1>1, <1>3, <1>4
  <2>2. PICK r \in Sides : \A y \in D[p] : On(r, v, y)
    BY <1>4, <2>1, Apart
  <2>3. r = s
    BY <1>1, <1>4, <2>1, <2>2, OnFacts, SidesFacts
  <2> QED BY <2>2, <2>3
\* What is below p but not below x lies on the other side of x.
<1>5. ASSUME NEW v \in D[p], x # u.root, v \notin D[x], v # p, NEW k \in Sides, u[k][p] = x
      PROVE  On(Other(k), v, p) /\ v \in Nodes
  <2>1. p \in M
    BY <1>3, <1>5
  <2>2. PICK r \in Sides : u[r][p] # Nil /\ v \in D[u[r][p]]
    BY <1>5, <2>1, BelowFacts
  <2>3. r = Other(k)
    BY <1>5, <2>2, SidesFacts
  <2>4. On(r, v, p)
    BY <2>1, <2>2, ChildFacts
  <2> QED BY <1>5, <2>1, <2>3, <2>4, BelowFacts
<1>6. ASSUME x # u.root, x # u[s][p] PROVE IsNext(p, M, D[x], s)
  <2>1. PICK k \in Sides : u[k][p] = x /\ p \in M /\ p \in Nodes /\ p \in D[p] /\ D[x] \subseteq D[p]
                              /\ \A y \in D[x] : On(k, y, p)
    BY <1>3, <1>6
  <2>2. k = Other(s)
    BY <1>6, <2>1, SidesFacts
  <2>3. \A y \in D[x] : On(s, p, y)
    BY <1>1, <2>1, <2>2, OnFacts
  <2>4. Beyond(p, M, D[x], s)
    BY <2>1, <2>3 DEF Beyond
  <2>5. ASSUME NEW v \in M, Beyond(v, M, D[x], s), v # p PROVE On(s, v, p)
    <3>1. On(s, v, x) /\ v \in Nodes /\ v \notin D[x]
      BY <1>1, <2>5, OnFacts DEF Beyond
    <3>2. CASE v \notin D[p]
      BY <1>4, <1>6, <2>1, <3>1, <3>2
    <3>3. CASE v \in D[p]
      <4>1. On(Other(k), v, p)
        BY <1>5, <1>6, <2>1, <2>5, <3>1, <3>3
      <4> QED BY <2>2, <4>1, SidesFacts
    <3> QED BY <3>2, <3>3
  <2> QED BY <2>4, <2>5 DEF IsNext
<1>7. ASSUME x # u.root, x = u[s][p], IsNext(z, M, D[p], s) PROVE IsNext(z, M, D[x], s)
  <2>1. PICK k \in Sides : u[k][p] = x /\ u[Other(k)][p] # x /\ p \in M /\ p \in Nodes /\ p \in D[p]
                              /\ D[x] \subseteq D[p] /\ \A y \in D[x] : On(k, y, p)
    BY <1>3, <1>7
  <2>2. k = s
    BY <1>7, <2>1, SidesFacts
  <2>3. ASSUME NEW v \in M PROVE Beyond(v, M, D[x], s) <=> Beyond(v, M, D[p], s)
    <3>1. ASSUME Beyond(v, M, D[x], s) PROVE Beyond(v, M, D[p], s)
      <4>1. On(s, v, x) /\ v \in Nodes /\ v \notin D[x]
        BY <1>1, <3>1, OnFacts DEF Beyond
      <4>2. v \notin D[p]
        <5> SUFFICES ASSUME v \in D[p] PROVE FALSE
          OBVIOUS
        <5>1. On(s, x, p)
          BY <1>1, <2>1, <2>2
        <5>2. CASE v = p
          BY <1>1, <2>1, <4>1, <5>1, <5>2, OnFacts
        <5>3. CASE v # p
          <6>1. On(Other(s), v, p)
            BY <1>5, <1>7, <4>1, <5>3
          <6>2. On(s, p, v)
            BY <2>1, <4>1, <6>1, OnFacts
          <6>3. On(s, x, v)
            BY <1>1, <2>1, <4>1, <5>1, <6>2, OnFacts
          <6> QED BY <1>1, <4>1, <6>3, OnFacts
        <5> QED BY <5>2, <5>3
      <4> QED BY <1>4, <1>7, <4>1, <4>2 DEF Beyond
    <3>2. ASSUME Beyond(v, M, D[p], s) PROVE Beyond(v, M, D[x], s)
      BY <2>1, <3>2 DEF Beyond
    <3> QED BY <3>1, <3>2
  <2> QED BY <1>7, <2>3, NextSame
<1> QED BY <1>2, <1>6, <1>7

\* rb_next and rb_prev.
LEMMA NeighbourIs ==
    ASSUME NEW u, NEW D, Shape(u, D), NEW x \in Members(u, D), NEW s \in Sides
    PROVE  IsNext(Neighbour(u, x, s), Members(u, D), {x}, s)
<1> DEFINE climb[y \in Nodes] ==
            IF u.up[y] # Nil /\ y = u[s][u.up[y]] THEN climb[u.up[y]] ELSE u.up[y]
           M == Members(u, D)
<1>1. Neighbour(u, x, s) = IF u[s][x] # Nil THEN Down(u, u[s][x], Other(s)) ELSE climb[x]
  BY DEF Neighbour
<1>2. \A y \in Nodes : climb[y] = IF u.up[y] # Nil /\ y = u[s][u.up[y]] THEN climb[u.up[y]] ELSE u.up[y]
  <2>1. PICK stop : stop = {y \in Nodes : ~(u.up[y] # Nil /\ y = u[s][u.up[y]])}
    OBVIOUS
  <2>2. PICK nxt : nxt = [y \in Nodes |-> u.up[y]]
    OBVIOUS
  <2>3. PICK N \in Nat : \E dn, au :
              /\ \A y \in Nodes : au[y] \in 0 .. N
              /\ \A y \in Nodes : u.up[y] # Nil => u.up[y] \in Nodes /\ au[u.up[y]] < au[y]
    BY Measures
  <2>4. PICK au :
              /\ \A y \in Nodes : au[y] \in 0 .. N
              /\ \A y \in Nodes : u.up[y] # Nil => u.up[y] \in Nodes /\ au[u.up[y]] < au[y]
    BY <2>3
  <2>5. \A y \in Nodes \ stop : nxt[y] \in Nodes /\ au[nxt[y]] < au[y]
    BY <2>1, <2>2, <2>4
  <2>6. \A y \in Nodes : au[y] \in 0 .. N
    BY <2>4
  <2>7. PICK f : Going(f, Nodes, stop, nxt, nxt)
    BY <2>5, <2>6, GoingExists
  <2>8. f = [y \in Nodes |-> IF u.up[y] # Nil /\ y = u[s][u.up[y]] THEN f[u.up[y]] ELSE u.up[y]]
    BY <2>1, <2>2, <2>7 DEF Going
  <2>9. climb = [y \in Nodes |-> IF u.up[y] # Nil /\ y = u[s][u.up[y]] THEN climb[u.up[y]] ELSE u.up[y]]
    BY <2>8
  <2> HIDE DEF climb
  <2> QED BY <2>9
<1> HIDE DEF climb
<1>3. PICK S : S = {y \in M : IsNext(climb[y], M, D[y], s)}
  OBVIOUS
<1>4. u.root # Nil => u.root \in S
  <2> SUFFICES ASSUME u.root # Nil PROVE u.root \in S
    OBVIOUS
  <2>1. u.root \in M /\ u.up[u.root] = Nil /\ u.root \in Nodes
    BY MemberFacts DEF Shape
  <2>2. climb[u.root] = Nil
    BY <1>2, <2>1
  <2> QED BY <1>3, <2>1, <2>2, NextUp
<1>5. ASSUME NEW y \in M, y # u.root, u.up[y] \in S PROVE y \in S
  <2>1. PICK p : p = u.up[y]
    OBVIOUS
  <2>2. p # Nil /\ y \in Nodes /\ IsNext(climb[p], M, D[p], s)
    BY <1>3, <1>5, <2>1, ParentFacts, MemberFacts
  <2>3. CASE y = u[s][p]
    <3>1. climb[y] = climb[p]
      BY <1>2, <2>1, <2>2, <2>3
    <3> QED BY <1>3, <1>5, <2>1, <2>2, <2>3, <3>1, NextUp
  <2>4. CASE y # u[s][p]
    <3>1. climb[y] = p
      BY <1>2, <2>1, <2>2, <2>4
    <3> QED BY <1>3, <1>5, <2>1, <2>4, <3>1, NextUp
  <2> QED BY <2>3, <2>4
<1>6. M \subseteq S
  BY <1>4, <1>5, TopDown
<1>7. x \in Nodes /\ x \in D[x] /\ D[x] \subseteq Nodes /\ M \subseteq Nodes
  BY MemberFacts
<1>8. CASE u[s][x] = Nil
  <2>1. IsNext(climb[x], M, D[x], s) /\ Neighbour(u, x, s) = climb[x]
    BY <1>1, <1>3, <1>6, <1>8
  \* The others below x lie on the other side of it.
  <2>2. ASSUME NEW w \in D[x], w # x PROVE On(s, x, w) /\ w \in Nodes
    <3>1. PICK k \in Sides : u[k][x] # Nil /\ w \in D[u[k][x]] /\ On(k, w, x)
      BY <2>2, BelowFacts, ChildFacts
    <3>2. k = Other(s) /\ w \in Nodes
      BY <1>8, <3>1, SidesFacts, BelowFacts
    <3> QED BY <1>7, <3>1, <3>2, OnFacts
  <2>3. \A v \in M : Beyond(v, M, D[x], s) <=> Beyond(v, M, {x}, s)
    <3> SUFFICES ASSUME NEW v \in M, On(s, v, x) PROVE \A w \in D[x] : On(s, v, w)
      BY <1>7 DEF Beyond
    <3> QED BY <1>7, <2>2, OnFacts
  <2> QED BY <2>1, <2>3, NextSame
<1>9. CASE u[s][x] # Nil
  <2>1. PICK c, z : c = u[s][x] /\ z = Down(u, c, Other(s)) /\ Neighbour(u, x, s) = z
    BY <1>1, <1>9
  <2>2. c \in M /\ D[c] \subseteq M /\ D[c] \subseteq Nodes /\ \A y \in D[c] : On(s, y, x)
    <3>1. c \in M /\ \A y \in D[c] : On(s, y, x)
      BY <1>9, <2>1, ChildFacts
    <3>2. D[c] \subseteq M
      BY <3>1, Within
    <3> QED BY <1>7, <3>1, <3>2
  <2>3. IsOuter(z, D[c], Other(s))
    BY <2>1, <2>2, DownIs, SidesFacts
  <2>4. z \in D[c] /\ z \in M /\ z \in Nodes /\ Beyond(z, M, {x}, s)
    BY <2>2, <2>3 DEF IsOuter, Beyond
  <2>5. ASSUME NEW v \in M, On(s, v, x), v # z PROVE On(s, v, z)
    <3>1. CASE v \in D[c]
      <4>1. On(Other(s), z, v)
        BY <2>3, <2>5, <3>1 DEF IsOuter
      <4> QED BY <1>7, <2>4, <4>1, OnFacts
    <3>2. CASE v \notin D[c]
      <4>1. v \notin D[x]
        <5> SUFFICES ASSUME v \in D[x] PROVE FALSE
          OBVIOUS
        <5>1. v # x
          BY <1>7, <2>5, OnFacts
        <5>2. PICK k \in Sides : u[k][x] # Nil /\ v \in D[u[k][x]] /\ On(k, v, x)
          BY <5>1, BelowFacts, ChildFacts
        <5>3. k = Other(s)
          BY <2>1, <3>2, <5>2, SidesFacts
        <5> QED BY <1>7, <2>5, <5>2, <5>3, OnFacts
      <4>2. PICK r \in Sides : \A y \in D[x] : On(r, v, y)
        BY <4>1, Apart
      <4>3. r = s
        BY <1>7, <2>5, <4>2, OnFacts, SidesFacts
      <4>4. z \in D[x]
        BY <1>9, <2>1, <2>4, ChildFacts
      <4> QED BY <4>2, <4>3, <4>4
    <3> QED BY <3>1, <3>2
  <2>6. \A v \in M : Beyond(v, M, {x}, s) => v = z \/ On(s, v, z)
    BY <2>5 DEF Beyond
  <2> QED BY <2>1, <2>4, <2>6 DEF IsNext
<1> QED BY <1>8, <1>9

-----------------------------------------------------------------------------
(* The nodes in order. *)

\* o lists the nodes of S by ascending keys.
IsList(o, S) ==
    /\ o \in Seq(Nodes) /\ S = {o[k] : k \in 1 .. Len(o)}
    /\ \A j, k \in 1 .. Len(o) : j < k => Key[o[j]] < Key[o[k]]

LEMMA ListUnique ==
    ASSUME NEW S, NEW a, NEW b, IsList(a, S), IsList(b, S)
    PROVE  a = b
<1>1. ASSUME NEW x, NEW y, IsList(x, S), IsList(y, S), NEW k \in 1 .. Len(x),
             \A j \in 1 .. Len(x) : j < k => j \in 1 .. Len(y) /\ x[j] = y[j]
      PROVE  k \in 1 .. Len(y) /\ Key[y[k]] <= Key[x[k]]
  <2>1. x \in Seq(Nodes) /\ y \in Seq(Nodes) /\ Len(x) \in Nat /\ Len(y) \in Nat
    BY <1>1 DEF IsList
  <2>2. x[k] \in S
    BY <1>1 DEF IsList
  <2>3. PICK j \in 1 .. Len(y) : y[j] = x[k]
    BY <1>1, <2>2 DEF IsList
  <2>4. ~(j < k)
    <3> SUFFICES ASSUME j < k PROVE FALSE
      OBVIOUS
    <3>1. j \in 1 .. Len(x) /\ x[j] = x[k]
      BY <1>1, <2>1, <2>3
    <3>2. Key[x[j]] < Key[x[k]]
      BY <1>1, <3>1 DEF IsList
    <3>3. Key[x[k]] \in Nat
      BY <2>1, NilFacts
    <3> QED BY <3>1, <3>2, <3>3
  <2>5. k \in 1 .. Len(y)
    BY <1>1, <2>1, <2>3, <2>4
  <2>6. y[k] \in Nodes /\ y[j] \in Nodes
    BY <2>1, <2>3, <2>5
  <2>7. Key[y[k]] \in Nat /\ Key[y[j]] \in Nat
    BY <2>6, NilFacts
  <2>8. k # j => Key[y[k]] < Key[y[j]]
    BY <1>1, <2>1, <2>3, <2>4, <2>5 DEF IsList
  <2> QED BY <2>3, <2>5, <2>7, <2>8
<1>2. a \in Seq(Nodes) /\ b \in Seq(Nodes) /\ Len(a) \in Nat /\ Len(b) \in Nat
  BY DEF IsList
<1>3. ASSUME NEW k \in 1 .. Len(a), k \in 1 .. Len(b), Key[b[k]] <= Key[a[k]], Key[a[k]] <= Key[b[k]],
             \A j \in 1 .. Len(a) : j < k => j \in 1 .. Len(b) /\ a[j] = b[j]
      PROVE  a[k] = b[k]
  <2>1. a[k] \in S
    BY <1>3 DEF IsList
  <2>2. PICK j \in 1 .. Len(b) : b[j] = a[k]
    BY <2>1 DEF IsList
  <2>3. a[k] \in Nodes /\ b[k] \in Nodes /\ b[j] \in Nodes
    BY <1>2, <1>3, <2>2
  <2>4. Key[a[k]] \in Nat /\ Key[b[k]] \in Nat /\ Key[b[j]] \in Nat
    BY <2>3, NilFacts
  <2>5. Key[b[j]] = Key[b[k]]
    BY <1>3, <2>2, <2>4
  <2>6. j < k => Key[b[j]] < Key[b[k]]
    BY <1>3, <2>2 DEF IsList
  <2>7. k < j => Key[b[k]] < Key[b[j]]
    BY <1>3, <2>2 DEF IsList
  <2>8. j = k
    BY <1>2, <1>3, <2>2, <2>4, <2>5, <2>6, <2>7
  <2> QED BY <2>2, <2>8
<1>4. PICK W : W = {k \in 1 .. Len(a) : ~(k \in 1 .. Len(b) /\ a[k] = b[k])}
  OBVIOUS
<1>5. W = {}
  <2> SUFFICES ASSUME W # {} PROVE FALSE
    OBVIOUS
  <2>1. W \in SUBSET Nat
    BY <1>4
  <2>2. PICK k \in W : \A j \in W : k <= j
    BY <2>1, Smallest
  <2>3. k \in 1 .. Len(a) /\ k \in Nat
    BY <1>4, <2>2
  <2>4. \A j \in 1 .. Len(a) : j < k => j \in 1 .. Len(b) /\ a[j] = b[j]
    <3> SUFFICES ASSUME NEW j \in 1 .. Len(a), j < k PROVE j \notin W
      BY <1>4
    <3> QED BY <2>2, <2>3
  <2>5. k \in 1 .. Len(b) /\ Key[b[k]] <= Key[a[k]]
    BY <1>1, <2>3, <2>4
  <2>6. \A j \in 1 .. Len(b) : j < k => j \in 1 .. Len(a) /\ b[j] = a[j]
    BY <1>2, <2>3, <2>4, <2>5
  <2>7. Key[a[k]] <= Key[b[k]]
    BY <1>1, <2>5, <2>6
  <2> QED BY <1>3, <1>4, <2>2, <2>3, <2>4, <2>5, <2>7
<1>6. \A k \in 1 .. Len(a) : k \in 1 .. Len(b) /\ a[k] = b[k]
  BY <1>4, <1>5
<1>7. Len(a) = Len(b)
  <2> SUFFICES ASSUME Len(a) < Len(b) PROVE FALSE
    BY <1>2, <1>6
  <2>1. PICK k : k = Len(a) + 1 /\ k \in 1 .. Len(b) /\ k \in Nat
    BY <1>2
  <2>2. \A j \in 1 .. Len(b) : j < k => j \in 1 .. Len(a) /\ b[j] = a[j]
    BY <1>2, <1>6, <2>1
  <2>3. k \in 1 .. Len(a)
    BY <1>1, <2>1, <2>2
  <2> QED BY <1>2, <2>1, <2>3
<1> QED BY <1>2, <1>6, <1>7, SeqEqual

\* The list of what is before x, x, and the list of what is behind it.
LEMMA ListJoin ==
    ASSUME NEW x \in Nodes, NEW A, NEW B, NEW a, NEW b, IsList(a, A), IsList(b, B),
           \A y \in A : Key[y] < Key[x], \A y \in B : Key[x] < Key[y]
    PROVE  IsList(a \o <<x>> \o b, {x} \cup A \cup B)
<1>0. Len(a) \in Nat /\ Len(b) \in Nat
  BY DEF IsList
<1>1. PICK m, n : m = Len(a) /\ n = Len(b) /\ m \in Nat /\ n \in Nat
  BY <1>0
<1>2. a \in Seq(Nodes) /\ b \in Seq(Nodes) /\ (\A k \in 1 .. m : a[k] \in A /\ a[k] \in Nodes)
      /\ (\A k \in 1 .. n : b[k] \in B /\ b[k] \in Nodes)
  BY <1>1 DEF IsList
<1>3. PICK o : o = a \o <<x>> \o b
  OBVIOUS
<1>4. o \in Seq(Nodes) /\ Len(o) = m + 1 + n
      /\ \A k \in 1 .. m + 1 + n : o[k] = IF k <= m THEN a[k] ELSE IF k = m + 1 THEN x ELSE b[k - (m + 1)]
  BY <1>1, <1>2, <1>3
<1>5. {x} \cup A \cup B = {o[k] : k \in 1 .. Len(o)}
  <2>1. A = {a[k] : k \in 1 .. m} /\ B = {b[k] : k \in 1 .. n}
    BY <1>1 DEF IsList
  <2>2. ASSUME NEW k \in 1 .. Len(o) PROVE o[k] \in {x} \cup A \cup B
    <3>1. k <= m \/ k = m + 1 \/ k - (m + 1) \in 1 .. n
      BY <1>1, <1>4
    <3> QED BY <1>1, <1>2, <1>4, <3>1
  <2>3. \A y \in A : \E k \in 1 .. Len(o) : o[k] = y
    BY <1>1, <1>4, <2>1
  <2>4. ASSUME NEW y \in B PROVE \E k \in 1 .. Len(o) : o[k] = y
    <3>1. PICK k \in 1 .. n : b[k] = y
      BY <2>1
    <3>2. PICK j : j = k + (m + 1)
      OBVIOUS
    <3>3. j \in 1 .. m + 1 + n /\ j - (m + 1) = k /\ ~(j <= m) /\ j # m + 1
      BY <1>1, <3>2
    <3> QED BY <1>4, <3>1, <3>3
  <2>5. m + 1 \in 1 .. Len(o) /\ o[m + 1] = x
    BY <1>1, <1>4
  <2> QED BY <2>2, <2>3, <2>4, <2>5
<1>6. ASSUME NEW j \in 1 .. Len(o), NEW k \in 1 .. Len(o), j < k
      PROVE  Key[o[j]] < Key[o[k]]
  <2>0. \A y \in Nodes : Key[y] \in Nat
    BY NilFacts
  <2>1. CASE k <= m
    <3>1. j \in 1 .. m /\ k \in 1 .. m /\ o[j] = a[j] /\ o[k] = a[k]
      BY <1>1, <1>4, <1>6, <2>1
    <3> QED BY <1>1, <1>6, <3>1 DEF IsList
  <2>2. CASE k = m + 1
    <3>1. j \in 1 .. m /\ o[j] = a[j] /\ o[k] = x
      BY <1>1, <1>4, <1>6, <2>2
    <3> QED BY <1>2, <3>1
  <2>3. CASE k > m + 1
    <3>1. k - (m + 1) \in 1 .. n /\ o[k] = b[k - (m + 1)]
      BY <1>1, <1>4, <2>3
    <3>2. Key[x] < Key[o[k]] /\ o[k] \in Nodes
      BY <1>2, <3>1
    <3>3. CASE j <= m
      <4>1. o[j] = a[j] /\ j \in 1 .. m
        BY <1>1, <1>4, <3>3
      <4>2. Key[o[j]] < Key[x] /\ o[j] \in Nodes
        BY <1>2, <4>1
      <4> QED BY <2>0, <3>2, <4>2
    <3>4. CASE j = m + 1
      BY <1>1, <1>4, <3>2, <3>4
    <3>5. CASE j > m + 1
      <4>1. j - (m + 1) \in 1 .. n /\ o[j] = b[j - (m + 1)] /\ j - (m + 1) < k - (m + 1)
        BY <1>1, <1>4, <1>6, <3>5
      <4> QED BY <1>1, <3>1, <4>1 DEF IsList
    <3> QED BY <1>1, <1>4, <3>3, <3>4, <3>5
  <2> QED BY <1>1, <1>4, <2>1, <2>2, <2>3
<1> QED BY <1>3, <1>4, <1>5, <1>6 DEF IsList

LEMMA ListEmpty == IsList(<<>>, {})
BY DEF IsList

\* Each member has a list of what is below it, made of those of its children.
LEMMA ListNode ==
    ASSUME NEW u, NEW D, Shape(u, D), NEW x \in Members(u, D), NEW a, NEW b,
           IsList(a, Below(D, u.left[x])), IsList(b, Below(D, u.right[x]))
    PROVE  IsList(a \o <<x>> \o b, D[x])
<1>1. x \in Nodes /\ NodeShape(u, D, x) /\ u \in TreeType
  BY MemberFacts DEF Shape
<1>2. u.left = u["left"] /\ u.right = u["right"] /\ "left" \in Sides /\ "right" \in Sides
  BY <1>1, Links DEF Sides
<1>3. \A y \in Below(D, u.left[x]) : Key[y] < Key[x]
  BY <1>1, <1>2 DEF NodeShape, On
<1>4. \A y \in Below(D, u.right[x]) : Key[x] < Key[y]
  BY <1>1, <1>2 DEF NodeShape, On
<1>5. IsList(a \o <<x>> \o b, {x} \cup Below(D, u.left[x]) \cup Below(D, u.right[x]))
  BY <1>1, <1>3, <1>4, ListJoin
<1> QED BY <1>1, <1>5 DEF NodeShape

ListOf(S) == CHOOSE o : IsList(o, S)

LEMMA InOrderIs ==
    ASSUME NEW u, NEW D, Shape(u, D)
    PROVE  IsList(InOrder(u), Members(u, D))
<1> DEFINE walk[x \in Nodes \cup {Nil}] ==
            IF x = Nil THEN <<>> ELSE walk[u.left[x]] \o <<x>> \o walk[u.right[x]]
           M == Members(u, D)
<1>1. InOrder(u) = walk[u.root]
  BY DEF InOrder
<1>2. u \in TreeType /\ u.left = u["left"] /\ u.right = u["right"] /\ "left" \in Sides /\ "right" \in Sides
  BY Links DEF Shape, Sides
<1>3. \A x \in M, s \in Sides : u[s][x] # Nil => u[s][x] \in M /\ Below(D, u[s][x]) = D[u[s][x]]
  BY ChildFacts
<1>4. \A x \in MaybeNode : walk[x] = IF x = Nil THEN <<>> ELSE walk[u.left[x]] \o <<x>> \o walk[u.right[x]]
  <2>1. PICK S : S = {x \in M : IsList(ListOf(D[x]), D[x])}
    OBVIOUS
  <2>2. PICK w : w = [x \in MaybeNode |-> IF x \in M THEN ListOf(D[x]) ELSE IF x = Nil THEN <<>> ELSE <<x>>]
    OBVIOUS
  <2>3. M \subseteq Nodes
    BY MemberFacts
  <2>4. w[Nil] = <<>> /\ \A x \in M : w[x] = ListOf(D[x])
    BY <2>2, <2>3, NilFacts DEF MaybeNode
  <2>5. ASSUME NEW x \in M, \A s \in Sides : u[s][x] # Nil => u[s][x] \in S
        PROVE  IsList(w[u.left[x]] \o <<x>> \o w[u.right[x]], D[x])
    <3>1. IsList(w[u.left[x]], Below(D, u.left[x]))
      BY <1>2, <1>3, <2>1, <2>4, <2>5, ListEmpty DEF Below
    <3>2. IsList(w[u.right[x]], Below(D, u.right[x]))
      BY <1>2, <1>3, <2>1, <2>4, <2>5, ListEmpty DEF Below
    <3> QED BY <3>1, <3>2, ListNode
  <2>6. ASSUME NEW x \in M, \A s \in Sides : u[s][x] # Nil => u[s][x] \in S
        PROVE  x \in S
    BY <2>1, <2>5, <2>6 DEF ListOf
  <2>7. M \subseteq S
    BY <2>6, BottomUp
  <2>8. ASSUME NEW x \in MaybeNode
        PROVE  w[x] = IF x = Nil THEN <<>> ELSE w[u.left[x]] \o <<x>> \o w[u.right[x]]
    <3>1. CASE x = Nil
      BY <2>4, <3>1
    <3>2. CASE x \in M
      <4>1. IsList(w[u.left[x]] \o <<x>> \o w[u.right[x]], D[x])
        BY <1>3, <2>5, <2>7, <3>2
      <4>2. IsList(w[x], D[x])
        BY <2>1, <2>4, <2>7, <3>2
      <4>3. w[x] = w[u.left[x]] \o <<x>> \o w[u.right[x]]
        BY <4>1, <4>2, ListUnique
      <4>4. x # Nil
        BY <2>3, <3>2, NilFacts
      <4> QED BY <4>3, <4>4
    <3>3. CASE x # Nil /\ x \notin M
      <4>1. u.left[x] = Nil /\ u.right[x] = Nil /\ w[x] = <<x>>
        BY <2>2, <3>3 DEF Shape, MaybeNode
      <4>2. <<x>> = (<<>> \o <<x>>) \o <<>>
        <5>1. <<x>> \in Seq({x}) /\ <<>> \in Seq({x})
          OBVIOUS
        <5> QED BY <5>1, ConcatEmptySeq
      <4> QED BY <2>4, <3>3, <4>1, <4>2
    <3> QED BY <3>1, <3>2, <3>3
  <2>9. w = [x \in MaybeNode |-> IF x = Nil THEN <<>> ELSE w[u.left[x]] \o <<x>> \o w[u.right[x]]]
    BY <2>2, <2>8
  <2>10. walk = [x \in MaybeNode |-> IF x = Nil THEN <<>> ELSE walk[u.left[x]] \o <<x>> \o walk[u.right[x]]]
    BY <2>9 DEF MaybeNode
  <2> HIDE DEF walk
  <2> QED BY <2>10
<1> HIDE DEF walk
<1>5. PICK S : S = {x \in M : IsList(walk[x], D[x])}
  OBVIOUS
<1>6. ASSUME NEW x \in M, \A s \in Sides : u[s][x] # Nil => u[s][x] \in S
      PROVE  x \in S
  <2>1. x \in MaybeNode /\ x # Nil
    BY MemberFacts DEF MaybeNode
  <2>2. walk[Nil] = <<>>
    BY <1>4 DEF MaybeNode
  <2>3. IsList(walk[u.left[x]], Below(D, u.left[x]))
    BY <1>2, <1>3, <1>5, <1>6, <2>2, ListEmpty DEF Below
  <2>4. IsList(walk[u.right[x]], Below(D, u.right[x]))
    BY <1>2, <1>3, <1>5, <1>6, <2>2, ListEmpty DEF Below
  <2>5. IsList(walk[u.left[x]] \o <<x>> \o walk[u.right[x]], D[x])
    BY <2>3, <2>4, ListNode
  <2> QED BY <1>4, <1>5, <2>1, <2>5
<1>7. M \subseteq S
  BY <1>6, BottomUp
<1>8. CASE u.root = Nil
  <2>1. walk[Nil] = <<>>
    BY <1>4 DEF MaybeNode
  <2> QED BY <1>1, <1>8, <2>1, ListEmpty DEF Members, Below
<1>9. CASE u.root # Nil
  <2>1. u.root \in M /\ M = D[u.root]
    BY <1>9 DEF Shape, Members, Below
  <2> QED BY <1>1, <1>5, <1>7, <2>1
<1> QED BY <1>8, <1>9

-----------------------------------------------------------------------------
(* The operations on links, one field of one node at a time. *)

\* v is u after a rotation at n: c comes up, g changes hands.
Rotated(u, v, n, s, c, g) ==
    /\ v \in TreeType /\ v.red = u.red
    /\ v.root = IF n = u.root THEN c ELSE u.root
    /\ \A x \in Nodes : v.up[x] = IF x = n THEN c ELSE IF x = c THEN u.up[n]
                                  ELSE IF x = g THEN n ELSE u.up[x]
    /\ v[s][n] = u[s][n] /\ v[Other(s)][n] = g
    /\ v[s][c] = n /\ v[Other(s)][c] = u[Other(s)][c]
    /\ \A x \in Nodes \ {n, c}, k \in Sides : v[k][x] = IF u[k][x] = n THEN c ELSE u[k][x]

LEMMA RotateLinks ==
    ASSUME NEW u, NEW D, Shape(u, D), NEW n \in Members(u, D), NEW s \in Sides, u[Other(s)][n] # Nil
    PROVE  LET c == u[Other(s)][n]
           IN  Rotated(u, Rotate(u, n, s), n, s, c, u[s][c])
<1>1. PICK c, g, p : c = u[Other(s)][n] /\ g = u[s][c] /\ p = u.up[n]
  OBVIOUS
<1>2. u \in TreeType /\ Other(s) \in Sides /\ Other(s) # s /\ (\A k \in Sides : k = s \/ k = Other(s))
  BY SidesFacts DEF Shape
<1>3. n \in Nodes /\ c \in Nodes /\ c \in Members(u, D) /\ c # n /\ n # Nil /\ c # Nil /\ u.up[c] = n
  BY <1>1, <1>2, ChildFacts, MemberFacts
<1>4. g = Nil \/ (g \in Nodes /\ g # n /\ g # c /\ u.up[g] = c)
  <2> SUFFICES ASSUME g # Nil PROVE g \in Nodes /\ g # n /\ g # c /\ u.up[g] = c
    OBVIOUS
  <2>1. g \in Members(u, D) /\ u.up[g] = c /\ c \notin D[g] /\ D[g] \subseteq D[c]
    BY <1>1, <1>3, ChildFacts
  <2>2. n \notin D[c]
    BY <1>1, <1>2, ChildFacts
  <2> QED BY <2>1, <2>2, MemberFacts
\* The link to n, if there is one, is its parent's.
<1>5. \A x \in Nodes, k \in Sides : u[k][x] = n => n # u.root /\ x = p
  <2> SUFFICES ASSUME NEW x \in Nodes, NEW k \in Sides, u[k][x] = n PROVE n # u.root /\ x = p
    OBVIOUS
  <2>1. x \in Members(u, D)
    <3> SUFFICES ASSUME x \notin Members(u, D) PROVE FALSE
      OBVIOUS
    <3>1. u.left[x] = Nil /\ u.right[x] = Nil
      BY DEF Shape
    <3> QED BY <1>2, <1>3, <3>1, Links DEF Sides
  <2> QED BY <1>1, <1>3, <2>1, ChildFacts
<1>6. /\ p = Nil => n = u.root
      /\ p # Nil => p \in Nodes /\ n # u.root /\ (u.left[p] = n \/ u.right[p] = n) /\ p # c /\ p # n
                    /\ ~(u.left[p] = n /\ u.right[p] = n)
  <2>1. CASE n = u.root
    <3>1. p = Nil
      BY <1>1, <1>3, <2>1 DEF Shape
    <3> QED BY <2>1, <3>1
  <2>2. CASE n # u.root
    <3>1. p \in Members(u, D) /\ p # Nil /\ p # n /\ p \notin D[n]
      BY <1>1, <2>2, ParentFacts
    <3>2. PICK k \in Sides : u[k][p] = n /\ u[Other(k)][p] # n
      BY <1>1, <2>2, ParentFacts
    <3>3. c \in D[n]
      BY <1>1, <1>2, <1>3, ChildFacts, MemberFacts
    <3>4. u.left = u["left"] /\ u.right = u["right"]
      BY <1>2, Links
    <3> QED BY <2>2, <3>1, <3>2, <3>3, <3>4, SidesFacts, MemberFacts DEF Sides
  <2> QED BY <2>1, <2>2
<1>7. PICK u0 : u0 = [u EXCEPT ![Other(s)][n] = g, ![s][c] = n]
  OBVIOUS
<1>8. /\ u0 \in TreeType /\ u0.red = u.red /\ u0.root = u.root /\ u0.up = u.up
      /\ u0[Other(s)] = [u[Other(s)] EXCEPT ![n] = g] /\ u0[s] = [u[s] EXCEPT ![c] = n]
  BY <1>2, <1>3, <1>4, <1>7 DEF TreeType, MaybeNode, Sides
<1>9. PICK u1 : u1 = SetParent(SetParent(u0, g, n), c, p)
  OBVIOUS
<1>10. /\ u1 \in TreeType /\ u1.red = u.red /\ u1.root = u.root
       /\ u1.left = u0.left /\ u1.right = u0.right
       /\ \A x \in Nodes : u1.up[x] = IF x = c THEN p ELSE IF x = g THEN n ELSE u.up[x]
  <2>1. p \in MaybeNode
    BY <1>6 DEF MaybeNode
  <2>2. PICK w : w = SetParent(u0, g, n)
    OBVIOUS
  <2>3. /\ w \in TreeType /\ w.red = u.red /\ w.root = u.root /\ w.left = u0.left /\ w.right = u0.right
        /\ \A x \in Nodes : w.up[x] = IF x = g THEN n ELSE u.up[x]
    <3>1. CASE g = Nil
      BY <1>8, <2>2, <3>1, NilFacts DEF SetParent
    <3>2. CASE g # Nil
      <4>1. w = [u0 EXCEPT !.up[g] = n]
        BY <2>2, <3>2 DEF SetParent
      <4> QED BY <1>3, <1>4, <1>8, <3>2, <4>1 DEF TreeType, MaybeNode
    <3> QED BY <3>1, <3>2
  <2>4. u1 = [w EXCEPT !.up[c] = p]
    BY <1>3, <1>9, <2>2 DEF SetParent
  <2> QED BY <1>3, <2>1, <2>3, <2>4 DEF TreeType, MaybeNode
<1>11. PICK u2 : u2 = Replace(u1, p, n, c)
  OBVIOUS
<1>12. u1.left = u1["left"] /\ u1.right = u1["right"] /\ u0.left = u0["left"] /\ u0.right = u0["right"]
       /\ u.left = u["left"] /\ u.right = u["right"]
  BY <1>2, <1>8, <1>10, Links
<1>13. \A x \in Nodes \ {n, c}, k \in Sides : u0[k][x] = u[k][x]
  BY <1>2, <1>3, <1>8 DEF TreeType, Sides
<1>14. /\ u2 \in TreeType /\ u2.red = u.red /\ u2.up = u1.up
       /\ u2.root = IF n = u.root THEN c ELSE u.root
       /\ \A k \in Sides : u2[k][n] = u0[k][n] /\ u2[k][c] = u0[k][c]
       /\ \A x \in Nodes \ {n, c}, k \in Sides : u2[k][x] = IF u[k][x] = n THEN c ELSE u[k][x]
  <2>1. CASE p = Nil
    <3>1. u2 = [u1 EXCEPT !.root = c]
      BY <1>11, <2>1 DEF Replace
    <3>2. u2 \in TreeType /\ u2.red = u1.red /\ u2.up = u1.up /\ u2.root = c /\ u2.left = u1.left /\ u2.right = u1.right
      BY <1>3, <1>10, <3>1 DEF TreeType, MaybeNode
    <3>3. \A k \in Sides : u2[k] = u0[k]
      BY <1>10, <1>12, <3>2, Links DEF Sides
    <3>4. \A x \in Nodes, k \in Sides : u[k][x] # n
      BY <1>5, <1>6, <2>1
    <3> QED BY <1>6, <1>10, <1>13, <2>1, <3>2, <3>3, <3>4
  <2>2. CASE p # Nil /\ u.left[p] = n
    <3>1. u1.left[p] = n
      BY <1>6, <1>10, <1>12, <1>13, <2>2 DEF Sides
    <3>2. u2 = [u1 EXCEPT !.left[p] = c]
      BY <1>11, <2>2, <3>1 DEF Replace
    <3>3. u2 \in TreeType /\ u2.red = u1.red /\ u2.up = u1.up /\ u2.root = u1.root
          /\ u2.left = [u1.left EXCEPT ![p] = c] /\ u2.right = u1.right
      BY <1>3, <1>6, <1>10, <2>2, <3>2 DEF TreeType, MaybeNode
    <3>4. /\ u2["left"] = [u0["left"] EXCEPT ![p] = c] /\ u2["right"] = u0["right"]
      BY <1>10, <1>12, <3>3, Links
    <3>5. ASSUME NEW x \in Nodes \ {n, c}, NEW k \in Sides
          PROVE  u2[k][x] = IF u[k][x] = n THEN c ELSE u[k][x]
      <4>1. u["left"] \in [Nodes -> MaybeNode] /\ u0["left"] \in [Nodes -> MaybeNode]
        BY <1>2, <1>8, Links DEF Sides
      <4>2. u0[k][x] = u[k][x]
        BY <1>13
      <4>3. CASE k = "left"
        BY <1>5, <1>6, <1>12, <2>2, <3>4, <4>1, <4>2, <4>3 DEF Sides
      <4>4. CASE k = "right"
        <5>1. u[k][x] # n
          BY <1>5, <1>6, <1>12, <2>2, <4>4 DEF Sides
        <5> QED BY <3>4, <4>2, <4>4, <5>1
      <4> QED BY <4>3, <4>4 DEF Sides
    <3>6. \A k \in Sides : u2[k][n] = u0[k][n] /\ u2[k][c] = u0[k][c]
      <4>1. u0["left"] \in [Nodes -> MaybeNode]
        BY <1>8, Links DEF Sides
      <4> QED BY <1>3, <1>6, <2>2, <3>4, <4>1 DEF Sides
    <3> QED BY <1>6, <1>10, <2>2, <3>3, <3>5, <3>6
  <2>3. CASE p # Nil /\ u.left[p] # n
    <3>1. u1.left[p] # n /\ u.right[p] = n
      BY <1>6, <1>10, <1>12, <1>13, <2>3 DEF Sides
    <3>2. u2 = [u1 EXCEPT !.right[p] = c]
      BY <1>11, <2>3, <3>1 DEF Replace
    <3>3. u2 \in TreeType /\ u2.red = u1.red /\ u2.up = u1.up /\ u2.root = u1.root
          /\ u2.right = [u1.right EXCEPT ![p] = c] /\ u2.left = u1.left
      BY <1>3, <1>6, <1>10, <2>3, <3>2 DEF TreeType, MaybeNode
    <3>4. /\ u2["right"] = [u0["right"] EXCEPT ![p] = c] /\ u2["left"] = u0["left"]
      BY <1>10, <1>12, <3>3, Links
    <3>5. ASSUME NEW x \in Nodes \ {n, c}, NEW k \in Sides
          PROVE  u2[k][x] = IF u[k][x] = n THEN c ELSE u[k][x]
      <4>1. u["right"] \in [Nodes -> MaybeNode] /\ u0["right"] \in [Nodes -> MaybeNode]
        BY <1>2, <1>8, Links DEF Sides
      <4>2. u0[k][x] = u[k][x]
        BY <1>13
      <4>3. CASE k = "right"
        BY <1>5, <1>6, <1>12, <3>1, <3>4, <4>1, <4>2, <4>3 DEF Sides
      <4>4. CASE k = "left"
        <5>1. u[k][x] # n
          BY <1>5, <1>6, <1>12, <2>3, <4>4 DEF Sides
        <5> QED BY <3>4, <4>2, <4>4, <5>1
      <4> QED BY <4>3, <4>4 DEF Sides
    <3>6. \A k \in Sides : u2[k][n] = u0[k][n] /\ u2[k][c] = u0[k][c]
      <4>1. u0["right"] \in [Nodes -> MaybeNode]
        BY <1>8, Links DEF Sides
      <4> QED BY <1>3, <1>6, <2>3, <3>4, <4>1 DEF Sides
    <3> QED BY <1>6, <1>10, <2>3, <3>3, <3>5, <3>6
  <2> QED BY <2>1, <2>2, <2>3
<1>15. PICK v : v = Rotate(u, n, s)
  OBVIOUS
<1>16. v = [u2 EXCEPT !.up[n] = c]
  <2>1. v = SetParent(u2, n, c)
    BY <1>1, <1>7, <1>9, <1>11, <1>15 DEF Rotate
  <2> QED BY <1>3, <2>1 DEF SetParent
<1>17. /\ v \in TreeType /\ v.red = u2.red /\ v.root = u2.root /\ v.left = u2.left /\ v.right = u2.right
       /\ v.up = [u1.up EXCEPT ![n] = c]
  BY <1>3, <1>14, <1>16 DEF TreeType, MaybeNode
<1>18. \A k \in Sides : v[k] = u2[k]
  BY <1>14, <1>17, Links DEF Sides
<1>19. \A x \in Nodes : v.up[x] = IF x = n THEN c ELSE IF x = c THEN p ELSE IF x = g THEN n ELSE u.up[x]
  BY <1>3, <1>10, <1>17 DEF TreeType
<1>20. v[s][n] = u[s][n] /\ v[Other(s)][n] = g /\ v[s][c] = n /\ v[Other(s)][c] = u[Other(s)][c]
  <2>1. u[s] \in [Nodes -> MaybeNode] /\ u[Other(s)] \in [Nodes -> MaybeNode]
    BY <1>2, Links
  <2> QED BY <1>2, <1>3, <1>8, <1>14, <1>18, <2>1
<1> QED BY <1>1, <1>14, <1>15, <1>17, <1>18, <1>19, <1>20 DEF Rotated

LEMMA BelowSides ==
    ASSUME NEW u \in TreeType, NEW D, NEW x \in Nodes, NEW s \in Sides
    PROVE  {x} \cup Below(D, u.left[x]) \cup Below(D, u.right[x])
              = {x} \cup Below(D, u[s][x]) \cup Below(D, u[Other(s)][x])
<1>1. u.left = u["left"] /\ u.right = u["right"]
  BY Links
<1>2. CASE s = "left"
  BY <1>1, <1>2, SidesFacts
<1>3. CASE s = "right"
  BY <1>1, <1>3, SidesFacts
<1> QED BY <1>2, <1>3 DEF Sides

\* To show the shape of a tree.
LEMMA ShapeNode ==
    ASSUME NEW v \in TreeType, NEW D, NEW M, M = Members(v, D), NEW x \in Nodes, NEW s \in Sides,
           D[x] = {x} \cup Below(D, v[s][x]) \cup Below(D, v[Other(s)][x]),
           \A k \in {s, Other(s)} :
              /\ \A y \in Below(D, v[k][x]) : On(k, y, x)
              /\ v[k][x] # Nil => v[k][x] \in M /\ v.up[v[k][x]] = x,
           x # v.root => v.up[x] \in M /\ \E k \in Sides : v[k][v.up[x]] = x
    PROVE  NodeShape(v, D, x)
<1>1. \A k \in Sides : k \in {s, Other(s)}
  BY SidesFacts
<1>2. D[x] = {x} \cup Below(D, v.left[x]) \cup Below(D, v.right[x])
  <2>1. v.left = v["left"] /\ v.right = v["right"]
    BY Links
  <2>2. CASE s = "left"
    BY <2>1, <2>2, SidesFacts
  <2>3. CASE s = "right"
    BY <2>1, <2>3, SidesFacts
  <2> QED BY <2>2, <2>3 DEF Sides
<1> QED BY <1>1, <1>2 DEF NodeShape

\* The same of a node in the tree.
LEMMA SideNode ==
    ASSUME NEW u \in TreeType, NEW D, NEW x \in Nodes, NEW s \in Sides, NodeShape(u, D, x)
    PROVE  D[x] = {x} \cup Below(D, u[s][x]) \cup Below(D, u[Other(s)][x])
<1>1. {x} \cup Below(D, u.left[x]) \cup Below(D, u.right[x])
         = {x} \cup Below(D, u[s][x]) \cup Below(D, u[Other(s)][x])
  BY BelowSides
<1>2. D[x] = {x} \cup Below(D, u.left[x]) \cup Below(D, u.right[x])
  BY DEF NodeShape
<1> QED BY <1>1, <1>2

RotatedD(D, n, c, g) == [D EXCEPT ![c] = D[n], ![n] = (D[n] \ D[c]) \cup Below(D, g)]

LEMMA RotateShape ==
    ASSUME NEW u, NEW D, Shape(u, D), NEW n \in Members(u, D), NEW s \in Sides, u[Other(s)][n] # Nil,
           NEW v, NEW c, NEW g, c = u[Other(s)][n], g = u[s][c], Rotated(u, v, n, s, c, g)
    PROVE  /\ Shape(v, RotatedD(D, n, c, g)) /\ Members(v, RotatedD(D, n, c, g)) = Members(u, D)
<1>1. PICK M, r : M = Members(u, D) /\ r = Other(s)
  OBVIOUS
<1>2. u \in TreeType /\ v \in TreeType /\ r \in Sides /\ r # s /\ Other(r) = s /\ (\A k \in Sides : k = s \/ k = r)
      /\ D \in [Nodes -> SUBSET Nodes]
  BY <1>1, SidesFacts DEF Shape, Rotated
<1>3. /\ n \in Nodes /\ c \in Nodes /\ c \in M /\ c # n /\ n # Nil /\ c # Nil /\ u.up[c] = n /\ c # u.root
      /\ n \in D[n] /\ c \in D[c] /\ D[c] \subseteq D[n] /\ n \notin D[c] /\ \A y \in D[c] : On(r, y, n)
  BY <1>1, <1>2, ChildFacts, MemberFacts
<1>4. PICK a, b : a = u[s][n] /\ b = u[r][c]
  OBVIOUS
<1>5. /\ Nil \notin Nodes /\ M \subseteq Nodes
      /\ \A x \in Nodes : x \notin M => x # u.root /\ u.up[x] = Nil /\ u.left[x] = Nil /\ u.right[x] = Nil /\ x \notin u.red
  BY <1>1, <1>3, NilFacts, MemberFacts DEF Shape
<1>6. a # Nil => /\ a \in M /\ a \in Nodes /\ u.up[a] = n /\ a # n /\ a # c /\ a # g /\ a # u.root /\ a \in D[a] /\ Below(D, a) = D[a]
  <2> SUFFICES ASSUME a # Nil
               PROVE /\ a \in M /\ a \in Nodes /\ u.up[a] = n /\ a # n /\ a # c /\ a # g /\ a # u.root /\ a \in D[a] /\ Below(D, a) = D[a]
    OBVIOUS
  <2>1. a \in M /\ u.up[a] = n /\ a # u.root /\ n \notin D[a] /\ (\A y \in D[a] : On(s, y, n)) /\ Below(D, a) = D[a]
    BY <1>1, <1>4, ChildFacts
  <2>2. a \in Nodes /\ a \in D[a]
    BY <1>1, <2>1, MemberFacts
  <2>3. a # c
    <3>1. On(s, a, n) /\ On(r, c, n)
      BY <1>3, <2>1, <2>2
    <3> QED BY <1>1, <1>3, <2>2, <3>1, OnFacts
  <2>4. a # g
    <3> SUFFICES ASSUME a = g PROVE FALSE
      OBVIOUS
    <3>1. u.up[g] = c
      BY <1>1, <1>3, ChildFacts
    <3> QED BY <1>3, <2>1, <3>1
  <2> QED BY <2>1, <2>2, <2>3, <2>4
<1>7. g # Nil => /\ g \in M /\ g \in Nodes /\ u.up[g] = c /\ g # n /\ g # c /\ g # b /\ g # u.root /\ g \in D[g] /\ Below(D, g) = D[g]
  <2> SUFFICES ASSUME g # Nil
               PROVE /\ g \in M /\ g \in Nodes /\ u.up[g] = c /\ g # n /\ g # c /\ g # b /\ g # u.root /\ g \in D[g] /\ Below(D, g) = D[g]
    OBVIOUS
  <2>1. g \in M /\ u.up[g] = c /\ g # u.root /\ c \notin D[g] /\ D[g] \subseteq D[c] /\ (\A y \in D[g] : On(s, y, c)) /\ Below(D, g) = D[g]
    BY <1>1, <1>3, ChildFacts
  <2>2. g \in Nodes /\ g \in D[g]
    BY <1>1, <2>1, MemberFacts
  <2>3. g # b
    <3> SUFFICES ASSUME g = b PROVE FALSE
      OBVIOUS
    <3>1. On(r, g, c) /\ On(s, g, c)
      BY <1>1, <1>2, <1>3, <1>4, <2>1, <2>2, ChildFacts
    <3> QED BY <1>1, <1>3, <2>2, <3>1, OnFacts
  <2> QED BY <1>3, <2>1, <2>2, <2>3
<1>8. b # Nil => /\ b \in M /\ b \in Nodes /\ u.up[b] = c /\ b # n /\ b # c /\ b # u.root /\ b \in D[b] /\ Below(D, b) = D[b]
  <2> SUFFICES ASSUME b # Nil
               PROVE /\ b \in M /\ b \in Nodes /\ u.up[b] = c /\ b # n /\ b # c /\ b # u.root /\ b \in D[b] /\ Below(D, b) = D[b]
    OBVIOUS
  <2>1. b \in M /\ u.up[b] = c /\ b # u.root /\ c \notin D[b] /\ D[b] \subseteq D[c] /\ Below(D, b) = D[b]
    BY <1>1, <1>2, <1>3, <1>4, ChildFacts
  <2>2. b \in Nodes /\ b \in D[b]
    BY <1>1, <2>1, MemberFacts
  <2> QED BY <1>3, <2>1, <2>2
<1>9. PICK DD : DD = RotatedD(D, n, c, g)
  OBVIOUS
<1>10. /\ D[n] = {n} \cup Below(D, a) \cup D[c] /\ D[c] = {c} \cup Below(D, g) \cup Below(D, b)
       /\ (\A y \in Below(D, a) : On(s, y, n)) /\ (\A y \in Below(D, g) : On(s, y, c)) /\ (\A y \in Below(D, b) : On(r, y, c))
  <2>1. NodeShape(u, D, n) /\ NodeShape(u, D, c)
    BY <1>1, <1>3, MemberFacts
  <2>2. D[n] = {n} \cup Below(D, a) \cup Below(D, c)
    BY <1>1, <1>2, <1>3, <1>4, <2>1, SideNode
  <2>3. D[c] = {c} \cup Below(D, g) \cup Below(D, b)
    BY <1>1, <1>2, <1>3, <1>4, <2>1, SideNode
  <2> QED BY <1>2, <1>3, <1>4, <2>1, <2>2, <2>3 DEF NodeShape, Below
<1>11. D[n] \subseteq Nodes /\ D[n] \subseteq M
  BY <1>1, <1>3, Within, MemberFacts
<1>12. D[n] \ D[c] = {n} \cup Below(D, a)
  <2>1. ASSUME NEW y \in Below(D, a) PROVE y \notin D[c]
    <3>1. y \in Nodes /\ On(s, y, n)
      BY <1>10, <1>11, <2>1
    <3> QED BY <1>1, <1>3, <3>1, OnFacts
  <2> QED BY <1>3, <1>10, <2>1
<1>13. /\ DD \in [Nodes -> SUBSET Nodes] /\ DD[c] = D[n] /\ DD[n] = {n} \cup Below(D, a) \cup Below(D, g)
       /\ \A x \in Nodes \ {n, c} : DD[x] = D[x]
       /\ \A x \in MaybeNode \ {n, c} : Below(DD, x) = Below(D, x)
  <2>1. DD = [D EXCEPT ![c] = D[n], ![n] = {n} \cup Below(D, a) \cup Below(D, g)]
    BY <1>9, <1>12 DEF RotatedD
  <2>2. {n} \cup Below(D, a) \cup Below(D, g) \subseteq Nodes
    BY <1>10, <1>11
  <2> QED BY <1>2, <1>3, <1>11, <2>1, <2>2 DEF Below, MaybeNode
<1>14. /\ v.root = (IF n = u.root THEN c ELSE u.root)
       /\ \A x \in Nodes : v.up[x] = IF x = n THEN c ELSE IF x = c THEN u.up[n]
                                  ELSE IF x = g THEN n ELSE u.up[x]
       /\ v[s][n] = a /\ v[r][n] = g /\ v[s][c] = n /\ v[r][c] = b /\ v.red = u.red
       /\ \A x \in Nodes \ {n, c}, k \in Sides : v[k][x] = IF u[k][x] = n THEN c ELSE u[k][x]
  BY <1>1, <1>4 DEF Rotated
<1>15. u.root \in Nodes /\ u.root \in M /\ M = D[u.root] /\ u.up[u.root] = Nil /\ u.root # Nil
  BY <1>1, <1>5, MemberFacts DEF Shape
<1>16. Members(v, DD) = M
  BY <1>3, <1>13, <1>14, <1>15 DEF Members, Below
<1>17. v.root \in M /\ v.up[v.root] = Nil /\ v.root \in Nodes
  <2>1. u.root # g
    BY <1>5, <1>7, <1>15
  <2> QED BY <1>3, <1>14, <1>15, <2>1
<1>18. NodeShape(v, DD, n)
  <2>1. a \in MaybeNode \ {n, c} /\ g \in MaybeNode \ {n, c}
    BY <1>3, <1>6, <1>7 DEF MaybeNode
  <2>2. DD[n] = {n} \cup Below(DD, v[s][n]) \cup Below(DD, v[r][n])
    BY <1>13, <1>14, <2>1
  <2>3. \A k \in {s, r} :
              /\ \A y \in Below(DD, v[k][n]) : On(k, y, n)
              /\ v[k][n] # Nil => v[k][n] \in M /\ v.up[v[k][n]] = n
    <3>1. \A y \in Below(D, g) : On(r, y, n)
      BY <1>3, <1>10
    <3>2. a # Nil => v.up[a] = n
      BY <1>6, <1>14
    <3>3. g # Nil => v.up[g] = n
      BY <1>7, <1>14
    <3> QED BY <1>6, <1>7, <1>10, <1>13, <1>14, <2>1, <3>1, <3>2, <3>3
  <2>4. v.up[n] = c /\ v[s][c] = n
    BY <1>3, <1>14
  <2> QED BY <1>1, <1>2, <1>3, <1>16, <2>2, <2>3, <2>4, ShapeNode
<1>19. NodeShape(v, DD, c)
  <2>1. b \in MaybeNode \ {n, c}
    BY <1>3, <1>8 DEF MaybeNode
  <2>2. Below(DD, n) = DD[n]
    BY <1>3 DEF Below
  <2>3. DD[c] = {c} \cup Below(DD, v[s][c]) \cup Below(DD, v[r][c])
    BY <1>10, <1>13, <1>14, <2>1, <2>2
  <2>4. \A y \in DD[n] : On(s, y, c)
    <3>1. On(s, n, c)
      BY <1>1, <1>3, OnFacts
    <3>2. \A y \in Below(D, a) : y \in Nodes /\ On(s, y, n)
      BY <1>10, <1>11
    <3>3. \A y \in Below(D, a) : On(s, y, c)
      BY <1>3, <3>1, <3>2, OnFacts
    <3> QED BY <1>10, <1>13, <3>1, <3>3
  <2>5. \A k \in {s, r} :
              /\ \A y \in Below(DD, v[k][c]) : On(k, y, c)
              /\ v[k][c] # Nil => v[k][c] \in M /\ v.up[v[k][c]] = c
    <3>1. v.up[n] = c /\ (b # Nil => v.up[b] = c)
      BY <1>3, <1>7, <1>8, <1>14
    <3>2. n \in M
      BY <1>1
    <3> QED BY <1>8, <1>10, <1>13, <1>14, <2>1, <2>2, <2>4, <3>1, <3>2
  <2>6. ASSUME c # v.root PROVE v.up[c] \in M /\ \E k \in Sides : v[k][v.up[c]] = c
    <3>1. n # u.root
      BY <1>14, <2>6
    <3>2. PICK p : p = u.up[n] /\ v.up[c] = p
      BY <1>3, <1>14
    <3>3. p \in M /\ p \notin D[n] /\ p \in Nodes
      BY <1>1, <1>5, <3>1, <3>2, ParentFacts
    <3>4. PICK k \in Sides : u[k][p] = n
      BY <1>1, <3>1, <3>2, ParentFacts
    <3>5. p \in Nodes \ {n, c}
      BY <1>3, <3>3
    <3>6. v[k][p] = c
      BY <1>14, <3>4, <3>5
    <3> QED BY <3>2, <3>3, <3>6
  <2> QED BY <1>1, <1>2, <1>3, <1>16, <2>3, <2>5, <2>6, ShapeNode
<1>20. ASSUME NEW x \in M \ {n, c} PROVE NodeShape(v, DD, x)
  <2>1. NodeShape(u, D, x) /\ x \in Nodes
    BY <1>1, <1>20, MemberFacts
  <2>2. ASSUME NEW k \in Sides
        PROVE  /\ Below(DD, v[k][x]) = Below(D, u[k][x])
               /\ v[k][x] # Nil => v[k][x] \in M /\ v.up[v[k][x]] = x
    <3>1. CASE u[k][x] = n
      <4>1. v[k][x] = c /\ Below(DD, c) = D[n] /\ Below(D, n) = D[n]
        BY <1>3, <1>13, <1>14, <1>20, <2>1, <3>1 DEF Below
      <4>2. u.up[n] = x
        BY <1>3, <2>1, <3>1 DEF NodeShape
      <4> QED BY <1>3, <1>14, <3>1, <4>1, <4>2
    <3>2. CASE u[k][x] = Nil
      <4>1. v[k][x] = Nil
        BY <1>3, <1>14, <1>20, <2>1, <3>2
      <4> QED BY <3>2, <4>1 DEF Below
    <3>3. CASE u[k][x] # n /\ u[k][x] # Nil
      <4>1. PICK y : y = u[k][x] /\ v[k][x] = y
        BY <1>14, <1>20, <2>1, <3>3
      <4>2. y \in M /\ u.up[y] = x /\ y # n
        BY <1>1, <2>1, <3>3, <4>1 DEF NodeShape
      <4>3. y # c /\ y # g /\ y \in Nodes
        BY <1>3, <1>5, <1>7, <1>20, <4>2
      <4> QED BY <1>13, <1>14, <4>1, <4>2, <4>3 DEF MaybeNode
    <3> QED BY <3>1, <3>2, <3>3
  <2>3. \A k \in Sides : \A y \in Below(DD, v[k][x]) : On(k, y, x)
    BY <2>1, <2>2 DEF NodeShape
  <2>4. DD[x] = {x} \cup Below(DD, v[s][x]) \cup Below(DD, v[r][x])
    <3>1. D[x] = {x} \cup Below(D, u[s][x]) \cup Below(D, u[r][x])
      BY <1>1, <1>2, <2>1, SideNode
    <3> QED BY <1>2, <1>13, <1>20, <2>1, <2>2, <3>1
  <2>5. ASSUME x # v.root PROVE v.up[x] \in M /\ \E k \in Sides : v[k][v.up[x]] = x
    <3>1. CASE x = g
      <4>1. v.up[x] = n /\ v[r][n] = x /\ n \in M
        BY <1>1, <1>14, <1>20, <2>1, <3>1
      <4> QED BY <1>2, <4>1
    <3>2. CASE x # g
      <4>1. x # u.root
        BY <1>14, <1>20, <2>5
      <4>2. PICK q : q = u.up[x] /\ v.up[x] = q
        BY <1>14, <1>20, <2>1, <3>2
      <4>3. q \in M /\ q \in Nodes /\ \E k \in Sides : u[k][q] = x
        BY <1>1, <1>5, <2>1, <4>1, <4>2 DEF NodeShape
      <4>4. PICK k \in Sides : u[k][q] = x
        BY <4>3
      <4>5. CASE q = n
        <5>1. k = s
          BY <1>1, <1>2, <1>20, <4>4, <4>5
        <5> QED BY <1>2, <1>4, <1>14, <4>2, <4>3, <4>4, <4>5, <5>1
      <4>6. CASE q = c
        <5>1. k = r
          BY <1>2, <3>2, <4>4, <4>6
        <5> QED BY <1>2, <1>4, <1>14, <4>2, <4>3, <4>4, <4>6, <5>1
      <4>7. CASE q # n /\ q # c
        <5>1. v[k][q] = x
          BY <1>14, <1>20, <4>3, <4>4, <4>7
        <5> QED BY <4>2, <4>3, <5>1
      <4> QED BY <4>5, <4>6, <4>7
    <3> QED BY <3>1, <3>2
  <2> QED BY <1>1, <1>2, <1>16, <2>1, <2>2, <2>3, <2>4, <2>5, ShapeNode
<1>21. ASSUME NEW x \in Nodes \ M
       PROVE  v.up[x] = Nil /\ v.left[x] = Nil /\ v.right[x] = Nil /\ x \notin v.red
  <2>1. u.up[x] = Nil /\ u["left"][x] = Nil /\ u["right"][x] = Nil /\ x \notin u.red
    BY <1>2, <1>5, Links
  <2>2. x # n /\ x # c /\ x # g
    BY <1>1, <1>3, <1>5, <1>7, <1>21
  <2>3. v["left"][x] = Nil /\ v["right"][x] = Nil
    BY <1>3, <1>14, <2>1, <2>2 DEF Sides
  <2> QED BY <1>2, <1>14, <2>1, <2>2, <2>3, Links
<1>22. \A x \in M : NodeShape(v, DD, x)
  BY <1>18, <1>19, <1>20
<1>23. Shape(v, DD)
  BY <1>2, <1>13, <1>16, <1>17, <1>21, <1>22 DEF Shape
<1> QED BY <1>1, <1>9, <1>16, <1>23

\* The link to a node is its parent's, or the root.
LEMMA OnlyLink ==
    ASSUME NEW u, NEW D, Shape(u, D), NEW n \in Members(u, D)
    PROVE  /\ u.up[n] \in MaybeNode /\ u.up[n] # n
           /\ u.up[n] = Nil <=> n = u.root
           /\ u.up[n] # Nil => \E k \in Sides : u[k][u.up[n]] = n /\ u[Other(k)][u.up[n]] # n
           /\ \A x \in Nodes, k \in Sides : u[k][x] = n => x = u.up[n] /\ x # Nil
<1>1. n \in Nodes /\ n # Nil /\ Nil \notin Nodes
  BY MemberFacts, NilFacts
<1>2. n # u.root => /\ u.up[n] \in Nodes /\ u.up[n] # n /\ u.up[n] # Nil
                    /\ \E k \in Sides : u[k][u.up[n]] = n /\ u[Other(k)][u.up[n]] # n
  BY ParentFacts, MemberFacts
<1>3. n = u.root => u.up[n] = Nil
  BY <1>1 DEF Shape
<1>4. ASSUME NEW x \in Nodes, NEW k \in Sides, u[k][x] = n PROVE x = u.up[n] /\ x # Nil
  <2>1. x \in Members(u, D)
    <3> SUFFICES ASSUME x \notin Members(u, D) PROVE FALSE
      OBVIOUS
    <3>1. u.left[x] = Nil /\ u.right[x] = Nil /\ u \in TreeType
      BY DEF Shape
    <3> QED BY <1>1, <1>4, <3>1, Links DEF Sides
  <2> QED BY <1>1, <1>4, <2>1, ChildFacts
<1> QED BY <1>1, <1>2, <1>3, <1>4 DEF MaybeNode

IsReplaced(z, v, n, c) ==
    /\ v \in TreeType /\ v.red = z.red /\ v.up = z.up
    /\ v.root = IF n = z.root THEN c ELSE z.root
    /\ \A x \in Nodes, k \in Sides : v[k][x] = IF z[k][x] = n THEN c ELSE z[k][x]

LEMMA ReplaceLinks ==
    ASSUME NEW z \in TreeType, NEW n \in Nodes, NEW c \in MaybeNode, NEW p \in MaybeNode,
           p = Nil <=> n = z.root,
           p # Nil => \E k \in Sides : z[k][p] = n /\ z[Other(k)][p] # n,
           \A x \in Nodes, k \in Sides : z[k][x] = n => x = p /\ x # Nil
    PROVE  IsReplaced(z, Replace(z, p, n, c), n, c)
<1>1. PICK v : v = Replace(z, p, n, c)
  OBVIOUS
<1>2. z.left = z["left"] /\ z.right = z["right"] /\ z["left"] \in [Nodes -> MaybeNode] /\ z["right"] \in [Nodes -> MaybeNode]
  BY Links DEF Sides
<1>3. CASE p = Nil
  <2>1. v = [z EXCEPT !.root = c]
    BY <1>1, <1>3 DEF Replace
  <2>2. v \in TreeType /\ v.red = z.red /\ v.up = z.up /\ v.root = c /\ v["left"] = z["left"] /\ v["right"] = z["right"]
    BY <1>2, <2>1 DEF TreeType
  <2>3. \A x \in Nodes, k \in Sides : z[k][x] # n
    BY <1>3
  <2>4. IsReplaced(z, v, n, c)
    BY <1>3, <2>2, <2>3 DEF Sides, IsReplaced
  <2> QED BY <1>1, <2>4
<1>4. CASE p # Nil /\ z.left[p] = n
  <2>1. v = [z EXCEPT !.left[p] = c] /\ p \in Nodes
    BY <1>1, <1>4 DEF Replace, MaybeNode
  <2>2. v \in TreeType /\ v.red = z.red /\ v.up = z.up /\ v.root = z.root
        /\ v["left"] = [z["left"] EXCEPT ![p] = c] /\ v["right"] = z["right"]
    BY <1>2, <2>1 DEF TreeType
  <2>3. \A x \in Nodes : z["right"][x] # n
    BY <1>2, <1>4, SidesFacts DEF Sides
  <2>4. \A x \in Nodes : z["left"][x] = n => x = p
    BY DEF Sides
  <2>5. \A x \in Nodes : v["left"][x] = IF z["left"][x] = n THEN c ELSE z["left"][x]
    BY <1>2, <1>4, <2>1, <2>2, <2>4
  <2>6. \A x \in Nodes : v["right"][x] = IF z["right"][x] = n THEN c ELSE z["right"][x]
    BY <2>2, <2>3
  <2>7. IsReplaced(z, v, n, c)
    BY <1>4, <2>2, <2>5, <2>6 DEF Sides, IsReplaced
  <2> QED BY <1>1, <2>7
<1>5. CASE p # Nil /\ z.left[p] # n
  <2>1. v = [z EXCEPT !.right[p] = c] /\ p \in Nodes
    BY <1>1, <1>5 DEF Replace, MaybeNode
  <2>2. v \in TreeType /\ v.red = z.red /\ v.up = z.up /\ v.root = z.root
        /\ v["right"] = [z["right"] EXCEPT ![p] = c] /\ v["left"] = z["left"]
    BY <1>2, <2>1 DEF TreeType
  <2>3. \A x \in Nodes : z["left"][x] # n
    BY <1>2, <1>5 DEF Sides
  <2>4. (\A x \in Nodes : z["right"][x] = n => x = p) /\ z["right"][p] = n
    BY <1>2, <1>5 DEF Sides
  <2>5. \A x \in Nodes : v["right"][x] = IF z["right"][x] = n THEN c ELSE z["right"][x]
    BY <1>2, <2>1, <2>2, <2>4
  <2>6. \A x \in Nodes : v["left"][x] = IF z["left"][x] = n THEN c ELSE z["left"][x]
    BY <2>2, <2>3
  <2>7. IsReplaced(z, v, n, c)
    BY <1>5, <2>2, <2>5, <2>6 DEF Sides, IsReplaced
  <2> QED BY <1>1, <2>7
<1> QED BY <1>3, <1>4, <1>5

\* v is u with n cut out: its only child c, if it has one, takes its place.
IsCut(u, v, n, c) ==
    /\ v \in TreeType /\ v.red = u.red \ {n}
    /\ v.root = IF n = u.root THEN c ELSE u.root
    /\ \A x \in Nodes : v.up[x] = IF x = n THEN Nil ELSE IF x = c THEN u.up[n] ELSE u.up[x]
    /\ \A k \in Sides : v[k][n] = Nil
    /\ \A x \in Nodes \ {n}, k \in Sides : v[k][x] = IF u[k][x] = n THEN c ELSE u[k][x]

IsFreed(z, v, n) ==
    /\ v \in TreeType /\ v.red = z.red \ {n} /\ v.root = z.root
    /\ \A x \in Nodes : v.up[x] = IF x = n THEN Nil ELSE z.up[x]
    /\ \A x \in Nodes, k \in Sides : v[k][x] = IF x = n THEN Nil ELSE z[k][x]

LEMMA FreedLinks ==
    ASSUME NEW z \in TreeType, NEW n \in Nodes
    PROVE  IsFreed(z, Freed(z, n), n)
<1>1. PICK v : v = Freed(z, n)
  OBVIOUS
<1>2. /\ v \in TreeType /\ v.red = z.red \ {n} /\ v.root = z.root
      /\ v.up = [z.up EXCEPT ![n] = Nil] /\ v.left = [z.left EXCEPT ![n] = Nil] /\ v.right = [z.right EXCEPT ![n] = Nil]
  BY <1>1 DEF Freed, TreeType, MaybeNode
<1>3. /\ z.left = z["left"] /\ z.right = z["right"] /\ z.left \in [Nodes -> MaybeNode] /\ z.right \in [Nodes -> MaybeNode]
      /\ v.left = v["left"] /\ v.right = v["right"] /\ z.up \in [Nodes -> MaybeNode]
  BY <1>2, Links DEF Sides
<1>4. IsFreed(z, v, n)
  BY <1>2, <1>3 DEF Sides, IsFreed
<1> QED BY <1>1, <1>4

IsParented(z, v, n, p) ==
    /\ v \in TreeType /\ v.red = z.red /\ v.root = z.root /\ v.left = z.left /\ v.right = z.right
    /\ \A x \in Nodes : v.up[x] = IF x = n THEN p ELSE z.up[x]
    /\ \A k \in Sides : v[k] = z[k]

LEMMA SetParentLinks ==
    ASSUME NEW z \in TreeType, NEW n \in MaybeNode, NEW p \in MaybeNode
    PROVE  IsParented(z, SetParent(z, n, p), n, p)
<1>1. PICK v : v = SetParent(z, n, p)
  OBVIOUS
<1>2. CASE n = Nil
  <2>1. v = z
    BY <1>1, <1>2 DEF SetParent
  <2>2. IsParented(z, z, n, p)
    BY <1>2, NilFacts DEF IsParented
  <2> QED BY <1>1, <2>1, <2>2
<1>3. CASE n # Nil
  <2>1. v = [z EXCEPT !.up[n] = p] /\ n \in Nodes
    BY <1>1, <1>3 DEF SetParent, MaybeNode
  <2>2. v \in TreeType /\ v.red = z.red /\ v.root = z.root /\ v.left = z.left /\ v.right = z.right
               /\ \A x \in Nodes : v.up[x] = IF x = n THEN p ELSE z.up[x]
    BY <2>1 DEF TreeType
  <2>3. \A k \in Sides : v[k] = z[k]
    BY <2>2, Links DEF Sides
  <2>4. IsParented(z, v, n, p)
    BY <2>2, <2>3 DEF IsParented
  <2> QED BY <1>1, <2>4
<1> QED BY <1>2, <1>3

\* __rb_erase of a node with at most one child cuts it out.
LEMMA UnlinkLinks ==
    ASSUME NEW u, NEW D, Shape(u, D), NEW n \in Members(u, D), u.left[n] = Nil \/ u.right[n] = Nil
    PROVE  LET e == Unlink(u, n)
           IN  /\ IsCut(u, Freed(e.tree, n), n, e.child)
               /\ e.parent = u.up[n] /\ e.black = (n \notin u.red)
               /\ \E s \in Sides : u[s][n] = e.child /\ u[Other(s)][n] = Nil
<1>1. PICK c, p : c = (IF u.left[n] = Nil THEN u.right[n] ELSE u.left[n]) /\ p = u.up[n]
  OBVIOUS
<1>2. u \in TreeType /\ n \in Nodes /\ u.left = u["left"] /\ u.right = u["right"] /\ "left" \in Sides /\ "right" \in Sides
  BY MemberFacts, Links DEF Shape, Sides
<1>3. c \in MaybeNode /\ p \in MaybeNode
  BY <1>1, <1>2, Links
<1>4. \E s \in Sides : u[s][n] = c /\ u[Other(s)][n] = Nil
  BY <1>1, <1>2, SidesFacts
<1>5. PICK z : z = SetParent(u, c, p)
  OBVIOUS
<1>5a. IsParented(u, z, c, p)
  BY <1>2, <1>3, <1>5, SetParentLinks
<1>6. /\ z \in TreeType /\ z.red = u.red /\ z.root = u.root
      /\ (\A x \in Nodes : z.up[x] = IF x = c THEN p ELSE u.up[x])
      /\ \A k \in Sides : z[k] = u[k]
  BY <1>5a DEF IsParented
<1>7. PICK w : w = Replace(z, p, n, c)
  OBVIOUS
<1>8. /\ p = Nil <=> n = u.root
      /\ p # Nil => \E k \in Sides : u[k][p] = n /\ u[Other(k)][p] # n
      /\ \A x \in Nodes, k \in Sides : u[k][x] = n => x = p /\ x # Nil
  BY <1>1, OnlyLink
<1>9. /\ p = Nil <=> n = z.root
      /\ p # Nil => \E k \in Sides : z[k][p] = n /\ z[Other(k)][p] # n
      /\ \A x \in Nodes, k \in Sides : z[k][x] = n => x = p /\ x # Nil
  BY <1>6, <1>8, SidesFacts
<1>9a. IsReplaced(z, w, n, c)
  BY <1>2, <1>3, <1>6, <1>7, <1>9, ReplaceLinks
<1>10. /\ w \in TreeType /\ w.red = z.red /\ w.up = z.up
       /\ w.root = (IF n = z.root THEN c ELSE z.root)
       /\ \A x \in Nodes, k \in Sides : w[k][x] = IF z[k][x] = n THEN c ELSE z[k][x]
  BY <1>9a DEF IsReplaced
<1>11. PICK v : v = Freed(w, n)
  OBVIOUS
<1>11a. IsFreed(w, v, n)
  BY <1>2, <1>10, <1>11, FreedLinks
<1>12. /\ v \in TreeType /\ v.red = w.red \ {n} /\ v.root = w.root
       /\ (\A x \in Nodes : v.up[x] = IF x = n THEN Nil ELSE w.up[x])
       /\ \A x \in Nodes, k \in Sides : v[k][x] = IF x = n THEN Nil ELSE w[k][x]
  BY <1>11a DEF IsFreed
<1>13. IsCut(u, v, n, c)
  BY <1>1, <1>2, <1>6, <1>10, <1>12 DEF IsCut
<1>14. Unlink(u, n).tree = w /\ Unlink(u, n).child = c /\ Unlink(u, n).parent = p /\ Unlink(u, n).black = (n \notin u.red)
  BY <1>1, <1>5, <1>7 DEF Unlink, IsBlack
<1> QED BY <1>1, <1>4, <1>11, <1>13, <1>14

CutD(D, n) == [x \in Nodes |-> D[x] \ {n}]

LEMMA CutShape ==
    ASSUME NEW u, NEW D, Shape(u, D), NEW n \in Members(u, D), NEW c, NEW v, NEW r \in Sides,
           u[r][n] = c, u[Other(r)][n] = Nil, IsCut(u, v, n, c)
    PROVE  Shape(v, CutD(D, n)) /\ Members(v, CutD(D, n)) = Members(u, D) \ {n}
<1>1. PICK M, DD : M = Members(u, D) /\ DD = CutD(D, n)
  OBVIOUS
<1>2. u \in TreeType /\ v \in TreeType /\ n \in Nodes /\ D \in [Nodes -> SUBSET Nodes] /\ n \in D[n] /\ n # Nil /\ M \subseteq Nodes
  BY <1>1, MemberFacts DEF Shape, IsCut
<1>3. c # Nil => c \in M /\ c \in Nodes /\ u.up[c] = n /\ c # n /\ c # u.root /\ n \notin D[c] /\ c \in D[c]
  <2> SUFFICES ASSUME c # Nil
               PROVE  c \in M /\ c \in Nodes /\ u.up[c] = n /\ c # n /\ c # u.root /\ n \notin D[c] /\ c \in D[c]
    OBVIOUS
  <2>1. c \in M /\ u.up[c] = n /\ c # u.root /\ n \notin D[c]
    BY <1>1, ChildFacts
  <2> QED BY <1>1, <2>1, <1>2, MemberFacts
<1>4. D[n] = {n} \cup Below(D, c)
  <2>1. NodeShape(u, D, n)
    BY MemberFacts
  <2>2. D[n] = {n} \cup Below(D, u[r][n]) \cup Below(D, u[Other(r)][n])
    BY <1>2, <2>1, SideNode
  <2> QED BY <2>2 DEF Below
<1>5. DD \in [Nodes -> SUBSET Nodes] /\ (\A x \in Nodes : DD[x] = D[x] \ {n})
      /\ \A x \in MaybeNode : Below(DD, x) = Below(D, x) \ {n}
  BY <1>1, <1>2 DEF CutD, Below, MaybeNode
<1>6. c \in MaybeNode /\ Below(DD, c) = D[n] \ {n}
  BY <1>3, <1>4, <1>5 DEF MaybeNode
<1>7. /\ v.red = u.red \ {n}
      /\ v.root = (IF n = u.root THEN c ELSE u.root)
      /\ (\A x \in Nodes : v.up[x] = IF x = n THEN Nil ELSE IF x = c THEN u.up[n] ELSE u.up[x])
      /\ (\A k \in Sides : v[k][n] = Nil)
      /\ \A x \in Nodes \ {n}, k \in Sides : v[k][x] = IF u[k][x] = n THEN c ELSE u[k][x]
  BY DEF IsCut
<1>8. u.root \in Nodes /\ u.root \in M /\ M = D[u.root] /\ u.up[u.root] = Nil /\ Nil \notin Nodes
  <2>1. u.root \in Nodes /\ u.root \in M /\ M = D[u.root] /\ Nil \notin Nodes
    BY <1>1, MemberFacts, NilFacts
  <2> QED BY <1>1, <2>1 DEF Shape
<1>9. Members(v, DD) = M \ {n}
  <2>1. CASE n = u.root
    <3>1. Below(DD, c) = M \ {n}
      BY <1>6, <1>8, <2>1
    <3> QED BY <1>7, <2>1, <3>1 DEF Members
  <2>2. CASE n # u.root
    <3>1. v.root = u.root /\ v.root # Nil
      BY <1>7, <1>8, <2>2
    <3> QED BY <1>5, <1>8, <3>1 DEF Members, Below
  <2> QED BY <2>1, <2>2
<1>10. v.root # Nil => v.root \in M \ {n} /\ v.up[v.root] = Nil
  BY <1>2, <1>3, <1>7, <1>8
<1>11. ASSUME NEW x \in M \ {n} PROVE NodeShape(v, DD, x)
  <2>1. NodeShape(u, D, x) /\ x \in Nodes
    BY <1>1, <1>11, MemberFacts
  <2>2. ASSUME NEW k \in Sides
        PROVE  /\ Below(DD, v[k][x]) = Below(D, u[k][x]) \ {n}
               /\ v[k][x] # Nil => v[k][x] \in M \ {n} /\ v.up[v[k][x]] = x
    <3>1. CASE u[k][x] = n
      <4>1. v[k][x] = c /\ Below(D, n) = D[n]
        BY <1>2, <1>7, <1>11, <2>1, <3>1 DEF Below
      <4>2. u.up[n] = x
        BY <1>2, <2>1, <3>1 DEF NodeShape
      <4> QED BY <1>3, <1>6, <1>7, <3>1, <4>1, <4>2
    <3>2. CASE u[k][x] = Nil
      <4>1. v[k][x] = Nil
        BY <1>2, <1>7, <1>11, <2>1, <3>2
      <4> QED BY <3>2, <4>1 DEF Below
    <3>3. CASE u[k][x] # n /\ u[k][x] # Nil
      <4>1. PICK y : y = u[k][x] /\ v[k][x] = y
        BY <1>7, <1>11, <2>1, <3>3
      <4>2. y \in M /\ u.up[y] = x /\ y # n /\ y \in Nodes
        BY <1>1, <1>2, <2>1, <3>3, <4>1 DEF NodeShape
      <4>3. y # c
        BY <1>3, <1>11, <4>2, <1>8
      <4> QED BY <1>5, <1>7, <4>1, <4>2, <4>3 DEF MaybeNode
    <3> QED BY <3>1, <3>2, <3>3
  <2>3. \A k \in Sides : \A y \in Below(DD, v[k][x]) : On(k, y, x)
    BY <2>1, <2>2 DEF NodeShape
  <2>4. DD[x] = {x} \cup Below(DD, v[r][x]) \cup Below(DD, v[Other(r)][x])
    <3>1. D[x] = {x} \cup Below(D, u[r][x]) \cup Below(D, u[Other(r)][x])
      BY <1>2, <2>1, SideNode
    <3> QED BY <1>5, <1>11, <2>1, <2>2, <3>1, SidesFacts
  <2>5. ASSUME x # v.root PROVE v.up[x] \in M \ {n} /\ \E k \in Sides : v[k][v.up[x]] = x
    <3>1. CASE x = c
      <4>1. n # u.root
        BY <1>7, <2>5, <3>1
      <4>2. PICK p : p = u.up[n] /\ v.up[x] = p
        BY <1>7, <1>11, <2>1, <3>1
      <4>3. p \in M /\ p # n
        BY <1>1, <4>1, <4>2, ParentFacts
      <4>4. PICK k \in Sides : u[k][p] = n
        BY <1>1, <4>1, <4>2, ParentFacts
      <4>5. v[k][p] = c
        BY <1>2, <1>7, <4>3, <4>4
      <4> QED BY <3>1, <4>2, <4>3, <4>5
    <3>2. CASE x # c
      <4>1. x # u.root
        BY <1>7, <1>11, <2>5
      <4>2. PICK q : q = u.up[x] /\ v.up[x] = q
        BY <1>7, <1>11, <2>1, <3>2
      <4>3. q \in M /\ q \in Nodes /\ \E k \in Sides : u[k][q] = x
        BY <1>1, <1>2, <2>1, <4>1, <4>2 DEF NodeShape
      <4>4. PICK k \in Sides : u[k][q] = x
        BY <4>3
      <4>5. q # n
        BY <1>8, <2>1, <3>2, <4>4, SidesFacts
      <4>6. v[k][q] = x
        BY <1>7, <1>11, <4>3, <4>4, <4>5
      <4> QED BY <4>2, <4>3, <4>5, <4>6
    <3> QED BY <3>1, <3>2
  <2> QED BY <1>2, <1>9, <2>1, <2>2, <2>3, <2>4, <2>5, ShapeNode, SidesFacts
<1>12. ASSUME NEW x \in Nodes \ (M \ {n})
       PROVE  v.up[x] = Nil /\ v.left[x] = Nil /\ v.right[x] = Nil /\ x \notin v.red
  <2>1. v["left"][x] = Nil /\ v["right"][x] = Nil /\ v.up[x] = Nil /\ x \notin v.red
    <3>1. CASE x = n
      BY <1>7, <1>12, <3>1 DEF Sides
    <3>2. CASE x # n
      <4>1. u.up[x] = Nil /\ u["left"][x] = Nil /\ u["right"][x] = Nil /\ x \notin u.red
        BY <1>1, <1>2, <1>12, <3>2, Links DEF Shape
      <4>2. x # c
        BY <1>3, <1>8, <1>12, <3>2
      <4> QED BY <1>2, <1>7, <1>12, <3>2, <4>1, <4>2 DEF Sides
    <3> QED BY <3>1, <3>2
  <2> QED BY <1>2, <2>1, Links
<1>13. Shape(v, DD)
  BY <1>2, <1>5, <1>9, <1>10, <1>11, <1>12 DEF Shape
<1> QED BY <1>1, <1>9, <1>13

\* v is u with m, which is not in the tree, in the place of n.
IsPut(u, v, n, m) ==
    /\ v \in TreeType
    /\ v.red = IF n \in u.red THEN (u.red \ {n}) \cup {m} ELSE u.red \ {n}
    /\ v.root = IF n = u.root THEN m ELSE u.root
    /\ \A x \in Nodes : v.up[x] = IF x = m THEN u.up[n] ELSE IF x = n THEN Nil
                                  ELSE IF u.up[x] = n THEN m ELSE u.up[x]
    /\ \A k \in Sides : v[k][m] = u[k][n] /\ v[k][n] = Nil
    /\ \A x \in Nodes \ {n, m}, k \in Sides : v[k][x] = IF u[k][x] = n THEN m ELSE u[k][x]

Renamed(S, n, m) == IF n \in S THEN (S \ {n}) \cup {m} ELSE S
PutD(D, n, m)    == [x \in Nodes |-> Renamed(D[IF x = m THEN n ELSE x], n, m)]

LEMMA PutShape ==
    ASSUME NEW u, NEW D, Shape(u, D), NEW n \in Members(u, D), NEW m \in Nodes \ Members(u, D), NEW v,
           IsPut(u, v, n, m),
           \A x \in Members(u, D) \ {n}, s \in Sides : On(s, x, n) => On(s, x, m)
    PROVE  /\ Shape(v, PutD(D, n, m))
           /\ Members(v, PutD(D, n, m)) = (Members(u, D) \ {n}) \cup {m}
<1>1. PICK M, DD : M = Members(u, D) /\ DD = PutD(D, n, m)
  OBVIOUS
<1>2. /\ u \in TreeType /\ v \in TreeType /\ n \in Nodes /\ D \in [Nodes -> SUBSET Nodes] /\ n \in D[n] /\ n # Nil
      /\ M \subseteq Nodes /\ m \notin M /\ m # n /\ m # Nil /\ m \in Nodes /\ n \in M /\ Nil \notin Nodes
  BY <1>1, MemberFacts, NilFacts DEF Shape, IsPut
<1>3. /\ v.red = (IF n \in u.red THEN (u.red \ {n}) \cup {m} ELSE u.red \ {n})
      /\ v.root = (IF n = u.root THEN m ELSE u.root)
      /\ (\A x \in Nodes : v.up[x] = IF x = m THEN u.up[n] ELSE IF x = n THEN Nil
                                  ELSE IF u.up[x] = n THEN m ELSE u.up[x])
      /\ (\A k \in Sides : v[k][m] = u[k][n] /\ v[k][n] = Nil)
      /\ \A x \in Nodes \ {n, m}, k \in Sides : v[k][x] = IF u[k][x] = n THEN m ELSE u[k][x]
  BY DEF IsPut
<1>4. \A x \in M : D[x] \subseteq M /\ D[x] \subseteq Nodes /\ m \notin D[x] /\ x \in D[x]
  <2> SUFFICES ASSUME NEW x \in M PROVE D[x] \subseteq M /\ x \in D[x]
    BY <1>2
  <2> QED BY <1>1, Within, MemberFacts
<1>5. DD \in [Nodes -> SUBSET Nodes] /\ DD[m] = Renamed(D[n], n, m)
      /\ \A x \in M \ {n} : DD[x] = Renamed(D[x], n, m)
  BY <1>1, <1>2 DEF PutD, Renamed
\* What hangs below a link is what hung there, renamed.
<1>6. \A y \in M \cup {Nil} : Below(DD, IF y = n THEN m ELSE y) = Renamed(Below(D, y), n, m)
  BY <1>2, <1>5 DEF Below, Renamed
<1>7. u.root \in Nodes /\ u.root \in M /\ M = D[u.root] /\ u.up[u.root] = Nil /\ u.root # Nil
  <2>1. u.root \in Nodes /\ u.root \in M /\ M = D[u.root]
    BY <1>1, MemberFacts
  <2> QED BY <1>1, <1>2, <2>1 DEF Shape
<1>8. Members(v, DD) = (M \ {n}) \cup {m}
  <2>1. Below(D, u.root) = M
    BY <1>7 DEF Below
  <2>2. Members(v, DD) = Renamed(M, n, m)
    BY <1>3, <1>6, <1>7, <2>1 DEF Members
  <2> QED BY <1>2, <2>2 DEF Renamed
<1>9. v.root \in (M \ {n}) \cup {m} /\ v.up[v.root] = Nil
  BY <1>2, <1>3, <1>7
\* The node x of the old tree, and its new name z.
<1>10. ASSUME NEW x \in M, NEW z, z = IF x = n THEN m ELSE x PROVE NodeShape(v, DD, z)
  <2>1. NodeShape(u, D, x) /\ x \in Nodes /\ z \in Nodes /\ z # n
    BY <1>1, <1>2, <1>10, MemberFacts
  <2>2. ASSUME NEW k \in Sides
        PROVE  /\ Below(DD, v[k][z]) = Renamed(Below(D, u[k][x]), n, m)
               /\ v[k][z] # Nil => v[k][z] \in (M \ {n}) \cup {m} /\ v.up[v[k][z]] = z
               /\ \A y \in Below(DD, v[k][z]) : On(k, y, z)
    <3>1. PICK c : c = u[k][x]
      OBVIOUS
    <3>2. c # Nil => c \in M /\ u.up[c] = x /\ c # x /\ x \notin D[c]
      <4> SUFFICES ASSUME c # Nil PROVE c \in M /\ u.up[c] = x /\ c # x /\ x \notin D[c]
        OBVIOUS
      <4>1. c \in M /\ u.up[c] = x /\ x \notin D[c]
        BY <1>1, <3>1, ChildFacts
      <4> QED BY <1>4, <4>1
    <3>3. \A y \in Below(D, c) : On(k, y, x) /\ y \in Nodes /\ y \in M
      BY <1>4, <2>1, <3>1, <3>2 DEF NodeShape, Below
    <3>4. v[k][z] = IF c = n THEN m ELSE c
      BY <1>2, <1>3, <1>10, <2>1, <3>1, <3>2
    <3>5. Below(DD, v[k][z]) = Renamed(Below(D, c), n, m)
      BY <1>6, <3>2, <3>4
    <3>6. v[k][z] # Nil => v[k][z] \in (M \ {n}) \cup {m} /\ v.up[v[k][z]] = z
      <4>1. CASE c = Nil
        BY <1>2, <3>4, <4>1
      <4>2. CASE c = n
        BY <1>2, <1>3, <1>10, <3>2, <3>4, <4>2
      <4>3. CASE c # Nil /\ c # n
        <5>1. c \in Nodes /\ c # m
          BY <1>2, <3>2, <4>3
        <5> QED BY <1>3, <1>10, <3>2, <3>4, <4>3, <5>1
      <4> QED BY <4>1, <4>2, <4>3
    <3>7. ASSUME NEW y \in Renamed(Below(D, c), n, m) PROVE On(k, y, z)
      <4>1. CASE x = n
        <5>1. c # Nil => n \notin D[c]
          BY <3>2, <4>1
        <5>2. y \in Below(D, c)
          BY <3>7, <5>1 DEF Renamed, Below
        <5>3. On(k, y, n) /\ y \in M /\ y # n
          BY <1>2, <3>3, <4>1, <5>2, OnFacts
        <5> QED BY <1>1, <1>10, <4>1, <5>3
      <4>2. CASE x # n /\ y # m
        <5>1. y \in Below(D, c)
          BY <3>7, <4>2 DEF Renamed
        <5> QED BY <1>10, <3>3, <4>2, <5>1
      <4>3. CASE x # n /\ y = m
        <5>1. n \in Below(D, c)
          BY <1>2, <3>3, <3>7, <4>3 DEF Renamed
        <5>2. On(k, n, x)
          BY <3>3, <5>1
        <5>3. On(Other(k), x, n)
          BY <1>2, <2>1, <5>2, OnFacts, SidesFacts
        <5>4. On(Other(k), x, m)
          BY <1>1, <4>3, <5>3, SidesFacts
        <5>5. On(k, m, x)
          BY <1>2, <2>1, <5>4, OnFacts, SidesFacts
        <5> QED BY <1>10, <4>3, <5>5
      <4> QED BY <4>1, <4>2, <4>3
    <3> QED BY <3>1, <3>5, <3>6, <3>7
  <2>3. D[x] = {x} \cup Below(D, u["left"][x]) \cup Below(D, u["right"][x])
    BY <1>2, <2>1, SideNode, SidesFacts DEF Sides
  <2>4. DD[z] = Renamed(D[x], n, m)
    BY <1>5, <1>10
  <2>5. Renamed(D[x], n, m) = {z} \cup Renamed(Below(D, u["left"][x]), n, m) \cup Renamed(Below(D, u["right"][x]), n, m)
    <3>1. ASSUME NEW k \in Sides PROVE x = n => n \notin Below(D, u[k][x])
      <4>1. \A y \in Below(D, u[k][x]) : On(k, y, x)
        BY <2>1 DEF NodeShape
      <4> QED BY <1>2, <4>1, OnFacts
    <3> QED BY <1>10, <2>3, <3>1 DEF Renamed, Sides
  <2>6. DD[z] = {z} \cup Below(DD, v["left"][z]) \cup Below(DD, v[Other("left")][z])
    BY <2>2, <2>4, <2>5, SidesFacts DEF Sides
  <2>7. ASSUME z # v.root
        PROVE  v.up[z] \in (M \ {n}) \cup {m} /\ \E k \in Sides : v[k][v.up[z]] = z
    <3>1. x # u.root
      BY <1>3, <1>10, <2>7
    <3>2. PICK q : q = u.up[x]
      OBVIOUS
    <3>3. q \in M /\ q # x /\ \E k \in Sides : u[k][q] = x
      BY <1>1, <3>1, <3>2, ParentFacts
    <3>4. PICK k \in Sides : u[k][q] = x
      BY <3>3
    <3>5. v.up[z] = IF q = n THEN m ELSE q
      BY <1>2, <1>3, <1>10, <2>1, <3>2, <3>3
    <3>6. CASE q = n
      BY <1>3, <1>10, <3>3, <3>4, <3>5, <3>6
    <3>7. CASE q # n
      <4>1. q \in Nodes \ {n, m}
        BY <1>2, <3>3, <3>7
      <4>2. v[k][q] = z
        BY <1>3, <1>10, <3>4, <4>1
      <4> QED BY <3>3, <3>5, <3>7, <4>2
    <3> QED BY <3>6, <3>7
  <2> QED BY <1>2, <1>8, <2>1, <2>2, <2>6, <2>7, ShapeNode, SidesFacts DEF Sides
<1>11. \A z \in (M \ {n}) \cup {m} : NodeShape(v, DD, z)
  <2>1. NodeShape(v, DD, m)
    BY <1>2, <1>10
  <2>2. \A z \in M \ {n} : NodeShape(v, DD, z)
    BY <1>10
  <2> QED BY <2>1, <2>2
<1>12. ASSUME NEW x \in Nodes \ ((M \ {n}) \cup {m})
       PROVE  v.up[x] = Nil /\ v.left[x] = Nil /\ v.right[x] = Nil /\ x \notin v.red
  <2>1. v["left"][x] = Nil /\ v["right"][x] = Nil /\ v.up[x] = Nil /\ x \notin v.red
    <3>1. CASE x = n
      BY <1>2, <1>3, <1>12, <3>1 DEF Sides
    <3>2. CASE x # n
      <4>1. u.up[x] = Nil /\ u["left"][x] = Nil /\ u["right"][x] = Nil /\ x \notin u.red
        BY <1>1, <1>2, <1>12, <3>2, Links DEF Shape
      <4> QED BY <1>2, <1>3, <1>12, <3>2, <4>1 DEF Sides
    <3> QED BY <3>1, <3>2
  <2> QED BY <1>2, <2>1, Links
<1>13. Shape(v, DD)
  BY <1>2, <1>5, <1>8, <1>9, <1>11, <1>12 DEF Shape
<1> QED BY <1>1, <1>8, <1>13

CutTree(u, n, c) ==
    [up    |-> [x \in Nodes |-> IF x = n THEN Nil ELSE IF x = c THEN u.up[n] ELSE u.up[x]],
     left  |-> [x \in Nodes |-> IF x = n THEN Nil ELSE IF u.left[x] = n THEN c ELSE u.left[x]],
     right |-> [x \in Nodes |-> IF x = n THEN Nil ELSE IF u.right[x] = n THEN c ELSE u.right[x]],
     red   |-> u.red \ {n},
     root  |-> IF n = u.root THEN c ELSE u.root]

LEMMA CutTreeLinks ==
    ASSUME NEW u \in TreeType, NEW n \in Nodes, NEW c \in MaybeNode
    PROVE  IsCut(u, CutTree(u, n, c), n, c)
<1>1. PICK v : v = CutTree(u, n, c)
  OBVIOUS
<1>2. u.up \in [Nodes -> MaybeNode] /\ u.left \in [Nodes -> MaybeNode] /\ u.right \in [Nodes -> MaybeNode]
      /\ u.red \subseteq Nodes /\ u.root \in MaybeNode /\ u.left = u["left"] /\ u.right = u["right"]
  BY Links DEF Sides
<1>3. v.up \in [Nodes -> MaybeNode] /\ v.left \in [Nodes -> MaybeNode] /\ v.right \in [Nodes -> MaybeNode]
  BY <1>1, <1>2 DEF CutTree, MaybeNode
<1>4. v \in TreeType
  BY <1>1, <1>2, <1>3 DEF CutTree, TreeType
<1>5. v["left"] = v.left /\ v["right"] = v.right
  BY <1>4, Links
<1>6. \A k \in Sides : v[k][n] = Nil
  BY <1>1, <1>5 DEF CutTree, Sides
<1>7. \A x \in Nodes \ {n}, k \in Sides : v[k][x] = IF u[k][x] = n THEN c ELSE u[k][x]
  BY <1>1, <1>2, <1>5 DEF CutTree, Sides
<1> QED BY <1>1, <1>4, <1>6, <1>7 DEF IsCut, CutTree

\* m is the successor of n, a node with two children.
IsSuccessor(u, n, m) == u.left[n] # Nil /\ u.right[n] # Nil /\ m = Down(u, u.right[n], "left")

LEMMA Successor ==
    ASSUME NEW u, NEW D, Shape(u, D), NEW n \in Members(u, D), NEW m, IsSuccessor(u, n, m)
    PROVE  /\ m \in Members(u, D) /\ m \in Nodes /\ m # n /\ m # u.left[n] /\ m # u.root /\ m \in D[u.right[n]]
           /\ u.left[m] = Nil
           /\ u.up[m] # n => u.left[u.up[m]] = m /\ m # u.right[n]
           /\ u.up[m] = n => u.right[n] = m
           /\ \A x \in Members(u, D) \ {n, m}, s \in Sides : On(s, x, n) => On(s, x, m)
<1>0. u.left[n] # Nil /\ u.right[n] # Nil /\ m = Down(u, u.right[n], "left")
  BY DEF IsSuccessor
<1>1. PICK M, r : M = Members(u, D) /\ r = u.right[n]
  OBVIOUS
<1>2. u \in TreeType /\ u.left = u["left"] /\ u.right = u["right"] /\ "left" \in Sides /\ "right" \in Sides /\ n \in Nodes /\ M \subseteq Nodes
      /\ Other("right") = "left" /\ Other("left") = "right"
  BY <1>1, MemberFacts, Links, SidesFacts DEF Shape, Sides
<1>3. r \in M /\ r \in Nodes /\ D[r] \subseteq D[n] /\ n \notin D[r] /\ r # Nil /\ u.up[r] = n /\ \A y \in D[r] : On("right", y, n)
  BY <1>0, <1>1, <1>2, ChildFacts
<1>4. IsOuter(m, D[r], "left")
  BY <1>0, <1>1, <1>2, <1>3, DownIs
<1>5. m \in D[r] /\ m \in M /\ m \in Nodes /\ m # n /\ On("right", m, n)
  <2>1. m \in D[r]
    BY <1>4 DEF IsOuter
  <2> QED BY <1>1, <1>2, <1>3, <2>1, Within
<1>6. u.left[m] = Nil
  <2> SUFFICES ASSUME u.left[m] # Nil PROVE FALSE
    OBVIOUS
  <2>1. PICK y : y = u.left[m]
    OBVIOUS
  <2>2. y \in M /\ D[y] \subseteq D[m] /\ m \notin D[y] /\ (\A w \in D[y] : On("left", w, m))
    BY <1>1, <1>2, <1>5, <2>1, ChildFacts
  <2>3. y \in D[y] /\ y \in Nodes /\ D[m] \subseteq D[r]
    BY <1>1, <1>2, <1>3, <1>5, <2>2, MemberFacts, Within
  <2>4. y = m \/ On("left", m, y)
    BY <1>4, <2>2, <2>3 DEF IsOuter
  <2> QED BY <1>2, <1>5, <2>2, <2>3, <2>4, OnFacts
<1>7. m # u.left[n] /\ m # u.root
  <2>1. PICK l : l = u.left[n]
    OBVIOUS
  <2>2. l \in M /\ (\A y \in D[l] : On("left", y, n)) /\ l \in D[l]
    <3>1. l \in M /\ (\A y \in D[l] : On("left", y, n))
      BY <1>0, <1>1, <1>2, <2>1, ChildFacts
    <3> QED BY <1>1, <3>1, MemberFacts
  <2>3. m # l
    BY <1>2, <1>5, <2>2, OnFacts
  <2>4. m # u.root
    <3> SUFFICES ASSUME m = u.root PROVE FALSE
      OBVIOUS
    <3>1. n \in D[m]
      BY <1>1, <1>5, MemberFacts
    <3> QED BY <1>1, <1>3, <1>5, <3>1, Within
  <2> QED BY <2>1, <2>3, <2>4
<1>8. ASSUME u.up[m] = n PROVE u.right[n] = m
  <2>1. PICK k \in Sides : u[k][n] = m
    BY <1>1, <1>5, <1>7, <1>8, ParentFacts
  <2> QED BY <1>2, <1>7, <2>1 DEF Sides
<1>9. ASSUME u.up[m] # n PROVE u.left[u.up[m]] = m /\ m # u.right[n]
  <2>1. PICK p : p = u.up[m]
    OBVIOUS
  <2>2. m # r
    BY <1>3, <1>9
  <2>3. p \in D[r] /\ p # m
    BY <1>1, <1>3, <1>5, <1>7, <2>1, <2>2, Within, ParentFacts
  <2>4. PICK k \in Sides : u[k][p] = m
    BY <1>1, <1>5, <1>7, <2>1, ParentFacts
  <2>5. On("left", m, p)
    BY <1>4, <2>3 DEF IsOuter
  <2>6. p \in M /\ p \in Nodes /\ m # Nil /\ m \in D[m]
    BY <1>1, <1>2, <1>3, <1>5, <2>3, Within, MemberFacts
  <2>7. On(k, m, p)
    BY <1>1, <2>4, <2>6, ChildFacts
  <2>8. k # "right"
    BY <1>2, <1>5, <2>5, <2>6, <2>7, OnFacts
  <2> QED BY <1>1, <1>2, <2>1, <2>2, <2>4, <2>8 DEF Sides
<1>10. ASSUME NEW x \in M \ {n, m}, NEW s \in Sides, On(s, x, n) PROVE On(s, x, m)
  <2>1. CASE s = "left"
    <3>1. On("left", n, m)
      BY <1>2, <1>5, OnFacts
    <3> QED BY <1>2, <1>5, <1>10, <2>1, <3>1, OnFacts
  <2>2. CASE s = "right"
    <3>1. Neighbour(u, n, "right") = m
      BY <1>0, <1>1, <1>2, <1>3 DEF Neighbour
    <3>2. IsNext(m, M, {n}, "right")
      BY <1>1, <1>2, <3>1, NeighbourIs
    <3>3. Beyond(x, M, {n}, "right")
      BY <1>10, <2>2 DEF Beyond
    <3>4. m # Nil
      BY <1>5, NilFacts
    <3> QED BY <1>10, <2>2, <3>2, <3>3, <3>4 DEF IsNext
  <2> QED BY <2>1, <2>2 DEF Sides
<1> QED BY <1>1, <1>5, <1>6, <1>7, <1>8, <1>9, <1>10

\* __rb_erase of a node with two children: its successor is cut out, and put in
\* its place.
LEMMA SupplantLinks ==
    ASSUME NEW u, NEW D, Shape(u, D), NEW n \in Members(u, D), NEW m, IsSuccessor(u, n, m), NEW c, c = u.right[m]
    PROVE  LET e == Supplant(u, n)
           IN  /\ IsPut(CutTree(u, m, c), Freed(e.tree, n), n, m)
               /\ e.child = c /\ e.black = (m \notin u.red)
               /\ e.parent = IF u.up[m] = n THEN m ELSE u.up[m]
<1>0. u.left[n] # Nil /\ u.right[n] # Nil /\ m = Down(u, u.right[n], "left")
  BY DEF IsSuccessor
<1>1. PICK M, q, l, r, p : M = Members(u, D) /\ q = u.up[n] /\ l = u.left[n] /\ r = u.right[n] /\ p = u.up[m]
  OBVIOUS
<1>2. u \in TreeType /\ u.left = u["left"] /\ u.right = u["right"] /\ "left" \in Sides /\ "right" \in Sides /\ n \in Nodes /\ M \subseteq Nodes
      /\ Other("right") = "left" /\ Other("left") = "right" /\ Nil \notin Nodes
      /\ u["left"] \in [Nodes -> MaybeNode] /\ u["right"] \in [Nodes -> MaybeNode] /\ u.up \in [Nodes -> MaybeNode] /\ u.red \subseteq Nodes
  BY <1>1, MemberFacts, Links, SidesFacts, NilFacts DEF Shape, Sides
<1>3. /\ m \in M /\ m \in Nodes /\ m # n /\ m # l /\ m # u.root
      /\ u.left[m] = Nil
      /\ p # n => u.left[p] = m /\ m # r
      /\ p = n => r = m
  BY <1>1, Successor
<1>4. /\ p # Nil /\ p \in Nodes /\ p # m
      /\ \A x \in Nodes, k \in Sides : u[k][x] = m => x = p
  BY <1>1, <1>2, <1>3, OnlyLink, ParentFacts
<1>5. /\ q \in MaybeNode /\ q # n
      /\ q = Nil <=> n = u.root
      /\ q # Nil => \E k \in Sides : u[k][q] = n /\ u[Other(k)][q] # n
      /\ \A x \in Nodes, k \in Sides : u[k][x] = n => x = q /\ x # Nil
  BY <1>1, OnlyLink
<1>6. /\ l \in Nodes /\ l # n /\ u.up[l] = n /\ l # Nil
      /\ r \in Nodes /\ r # n /\ u.up[r] = n /\ r # Nil /\ l # r
  <2>1. /\ l \in M /\ u.up[l] = n /\ r \in M /\ u.up[r] = n /\ n \notin D[l] /\ n \notin D[r]
        /\ (\A y \in D[l] : On("left", y, n)) /\ \A y \in D[r] : On("right", y, n)
    BY <1>0, <1>1, <1>2, ChildFacts
  <2>2. l \in D[l] /\ r \in D[r]
    BY <1>1, <2>1, MemberFacts
  <2>3. l # r
    BY <1>2, <2>1, <2>2, OnFacts
  <2> QED BY <1>1, <1>2, <2>1, <2>2, <2>3
\* The nodes whose parent is n, or m, are their children.
<1>7. \A x \in Nodes : u.up[x] = n => x = l \/ x = r
  <2> SUFFICES ASSUME NEW x \in Nodes, u.up[x] = n PROVE x = l \/ x = r
    OBVIOUS
  <2>1. x \in M /\ x # u.root
    BY <1>1, <1>2 DEF Shape
  <2>2. PICK k \in Sides : u[k][n] = x
    BY <1>1, <2>1, ParentFacts
  <2> QED BY <1>1, <1>2, <2>2 DEF Sides
<1>8. c # Nil => c \in Nodes /\ u.up[c] = m /\ c # m /\ c # n /\ c # l /\ c # r
  <2> SUFFICES ASSUME c # Nil PROVE c \in Nodes /\ u.up[c] = m /\ c # m /\ c # n /\ c # l /\ c # r
    OBVIOUS
  <2>1. c \in M /\ u.up[c] = m /\ m \notin D[c]
    BY <1>1, <1>2, <1>3, ChildFacts
  <2>2. c \in D[c]
    BY <1>1, <2>1, MemberFacts
  <2>3. c # n
    <3> SUFFICES ASSUME c = n PROVE FALSE
      OBVIOUS
    <3>1. m \in D[r] /\ D[r] \subseteq D[n]
      BY <1>0, <1>1, <1>2, Successor, ChildFacts
    <3> QED BY <2>1, <3>1
  <2> QED BY <1>2, <1>3, <1>6, <2>1, <2>2, <2>3
<1>9. c \in MaybeNode /\ l \in MaybeNode /\ r \in MaybeNode /\ m \in MaybeNode /\ p \in MaybeNode
  BY <1>3, <1>4, <1>6, <1>8 DEF MaybeNode
<1>10. PICK w : w = CutTree(u, m, c)
  OBVIOUS
<1>11. IsCut(u, w, m, c)
  BY <1>2, <1>3, <1>9, <1>10, CutTreeLinks
<1>12. PICK u1 : u1 = Replace(u, q, n, m)
  OBVIOUS
<1>13a. IsReplaced(u, u1, n, m)
  BY <1>2, <1>5, <1>9, <1>12, ReplaceLinks
<1>13. /\ u1 \in TreeType /\ u1.red = u.red /\ u1.up = u.up
       /\ u1.root = (IF n = u.root THEN m ELSE u.root)
       /\ \A x \in Nodes, k \in Sides : u1[k][x] = IF u[k][x] = n THEN m ELSE u[k][x]
  BY <1>13a DEF IsReplaced
<1>14. PICK u2 : u2 = IF p = n THEN u1
              ELSE SetParent([SetParent(u1, c, p) EXCEPT !.left[p] = c, !.right[m] = r], r, m)
  OBVIOUS
<1>15. /\ u2 \in TreeType /\ u2.red = u.red /\ u2.root = u1.root
       /\ \A x \in Nodes : u2.up[x] = IF p # n /\ x = r THEN m ELSE IF p # n /\ x = c THEN p ELSE u.up[x]
       /\ \A x \in Nodes : u2["left"][x] = IF p # n /\ x = p THEN c ELSE u1["left"][x]
       /\ \A x \in Nodes : u2["right"][x] = IF p # n /\ x = m THEN r ELSE u1["right"][x]
  <2>1. CASE p = n
    BY <1>13, <1>14, <2>1
  <2>2. CASE p # n
    <3>1. PICK y : y = SetParent(u1, c, p)
      OBVIOUS
    <3>2a. IsParented(u1, y, c, p)
      BY <1>9, <1>13, <3>1, SetParentLinks
    <3>2. /\ y \in TreeType /\ y.red = u.red /\ y.root = u1.root
          /\ (\A x \in Nodes : y.up[x] = IF x = c THEN p ELSE u.up[x])
          /\ \A k \in Sides : y[k] = u1[k]
      BY <1>13, <3>2a DEF IsParented
    <3>3. PICK z : z = [y EXCEPT !.left[p] = c, !.right[m] = r]
      OBVIOUS
    <3>4. /\ z \in TreeType /\ z.red = y.red /\ z.root = y.root /\ z.up = y.up
          /\ z.left = [y.left EXCEPT ![p] = c] /\ z.right = [y.right EXCEPT ![m] = r]
      BY <1>3, <1>4, <1>9, <3>2, <3>3 DEF TreeType
    <3>5. z["left"] = z.left /\ z["right"] = z.right /\ y["left"] = y.left /\ y["right"] = y.right
          /\ y.left \in [Nodes -> MaybeNode] /\ y.right \in [Nodes -> MaybeNode]
      BY <3>2, <3>4, Links DEF Sides
    <3>6. u2 = SetParent(z, r, m)
      BY <1>14, <2>2, <3>1, <3>3
    <3>7a. IsParented(z, u2, r, m)
      BY <1>9, <3>4, <3>6, SetParentLinks
    <3>7. /\ u2 \in TreeType /\ u2.red = z.red /\ u2.root = z.root
          /\ (\A x \in Nodes : u2.up[x] = IF x = r THEN m ELSE z.up[x])
          /\ \A k \in Sides : u2[k] = z[k]
      BY <3>7a DEF IsParented
    <3>8. \A x \in Nodes : u2["left"][x] = IF x = p THEN c ELSE u1["left"][x]
      BY <1>2, <3>2, <3>4, <3>5, <3>7
    <3>9. \A x \in Nodes : u2["right"][x] = IF x = m THEN r ELSE u1["right"][x]
      BY <1>2, <3>2, <3>4, <3>5, <3>7
    <3> QED BY <2>2, <3>2, <3>4, <3>7, <3>8, <3>9
  <2> QED BY <2>1, <2>2
<1>16. PICK R : R = IF n \in u.red THEN u.red \cup {m} ELSE u.red \ {m}
  OBVIOUS
<1>17. PICK u3 : u3 = [u2 EXCEPT !.up[m] = q, !.left[m] = l, !.red = R]
  OBVIOUS
<1>18. /\ u3 \in TreeType /\ u3.red = R /\ u3.root = u1.root
       /\ u3.up = [u2.up EXCEPT ![m] = q] /\ u3.left = [u2.left EXCEPT ![m] = l] /\ u3.right = u2.right
  BY <1>2, <1>3, <1>5, <1>9, <1>15, <1>16, <1>17 DEF TreeType
<1>19. u3["left"] = u3.left /\ u3["right"] = u3.right /\ u2["left"] = u2.left /\ u2["right"] = u2.right
       /\ u2.left \in [Nodes -> MaybeNode] /\ u2.up \in [Nodes -> MaybeNode]
  BY <1>15, <1>18, Links DEF Sides
<1>20. PICK z : z = SetParent(u3, l, m)
  OBVIOUS
<1>21a. IsParented(u3, z, l, m)
  BY <1>9, <1>18, <1>20, SetParentLinks
<1>21. /\ z \in TreeType /\ z.red = R /\ z.root = u1.root
       /\ (\A x \in Nodes : z.up[x] = IF x = l THEN m ELSE u3.up[x])
       /\ \A k \in Sides : z[k] = u3[k]
  BY <1>18, <1>21a DEF IsParented
<1>22. PICK v : v = Freed(z, n)
  OBVIOUS
<1>23a. IsFreed(z, v, n)
  BY <1>2, <1>21, <1>22, FreedLinks
<1>23. /\ v \in TreeType /\ v.red = z.red \ {n} /\ v.root = z.root
       /\ (\A x \in Nodes : v.up[x] = IF x = n THEN Nil ELSE z.up[x])
       /\ \A x \in Nodes, k \in Sides : v[k][x] = IF x = n THEN Nil ELSE z[k][x]
  BY <1>23a DEF IsFreed
<1>24. /\ w.red = u.red \ {m} /\ w.root = u.root
       /\ (\A x \in Nodes : w.up[x] = IF x = m THEN Nil ELSE IF x = c THEN p ELSE u.up[x])
       /\ \A x \in Nodes \ {m}, k \in Sides : w[k][x] = IF u[k][x] = m THEN c ELSE u[k][x]
  BY <1>1, <1>3, <1>11 DEF IsCut
<1>25. /\ v.red = IF n \in w.red THEN (w.red \ {n}) \cup {m} ELSE w.red \ {n}
       /\ v.root = IF n = w.root THEN m ELSE w.root
  BY <1>3, <1>13, <1>16, <1>21, <1>23, <1>24
<1>26. ASSUME NEW x \in Nodes
       PROVE  v.up[x] = IF x = m THEN w.up[n] ELSE IF x = n THEN Nil ELSE IF w.up[x] = n THEN m ELSE w.up[x]
  <2>1. CASE x = m
    <3>1. v.up[x] = q
      BY <1>3, <1>18, <1>19, <1>21, <1>23, <2>1
    <3>2. w.up[n] = q
      BY <1>1, <1>2, <1>3, <1>8, <1>24
    <3> QED BY <2>1, <3>1, <3>2
  <2>2. CASE x = n
    BY <1>3, <1>23, <2>2
  <2>3. CASE x # m /\ x # n
    <3>1. v.up[x] = IF x = l THEN m ELSE IF p # n /\ x = r THEN m ELSE IF p # n /\ x = c THEN p ELSE u.up[x]
      BY <1>15, <1>18, <1>19, <1>21, <1>23, <2>3
    <3>2. w.up[x] = IF x = c THEN p ELSE u.up[x]
      BY <1>24, <2>3
    <3>3. CASE x = c
      BY <1>3, <1>8, <2>3, <3>1, <3>2, <3>3, NilFacts
    <3>4. CASE x # c
      BY <1>3, <1>6, <1>7, <2>3, <3>1, <3>2, <3>4
    <3> QED BY <3>3, <3>4
  <2> QED BY <2>1, <2>2, <2>3
<1>27. \A k \in Sides : v[k][m] = w[k][n] /\ v[k][n] = Nil
  <2>1. v["left"][m] = l /\ w["left"][n] = l
    BY <1>1, <1>2, <1>3, <1>18, <1>19, <1>21, <1>23, <1>24
  <2>2. v["right"][m] = IF p # n THEN r ELSE u1["right"][m]
    BY <1>2, <1>3, <1>15, <1>18, <1>19, <1>21, <1>23
  <2>3. u1["right"][m] = c
    BY <1>2, <1>3, <1>8, <1>13, NilFacts
  <2>4. w["right"][n] = IF r = m THEN c ELSE r
    BY <1>1, <1>2, <1>3, <1>24
  <2>5. v["right"][m] = w["right"][n]
    BY <1>3, <2>2, <2>3, <2>4
  <2> QED BY <1>2, <1>23, <2>1, <2>5 DEF Sides
<1>28. ASSUME NEW x \in Nodes \ {n, m}, NEW k \in Sides
       PROVE  v[k][x] = IF w[k][x] = n THEN m ELSE w[k][x]
  <2>1. v["left"][x] = IF p # n /\ x = p THEN c ELSE u1["left"][x]
    BY <1>2, <1>15, <1>18, <1>19, <1>21, <1>23, <1>28
  <2>2. v["right"][x] = u1["right"][x]
    BY <1>2, <1>15, <1>18, <1>19, <1>21, <1>23, <1>28
  <2>3. w[k][x] = IF u[k][x] = m THEN c ELSE u[k][x]
    BY <1>24, <1>28
  <2>4. u1[k][x] = IF u[k][x] = n THEN m ELSE u[k][x]
    BY <1>13, <1>28
  <2>5. c # n
    BY <1>2, <1>8
  <2>6. CASE x # p
    BY <1>4, <1>28, <2>1, <2>2, <2>3, <2>4, <2>6 DEF Sides
  <2>7. CASE x = p
    <3>1. p # n /\ u["left"][p] = m /\ u["right"][p] # m
      <4>1. p # n /\ u["left"][p] = m
        BY <1>2, <1>3, <1>28, <2>7
      <4>2. \E j \in Sides : u[j][p] = m /\ u[Other(j)][p] # m
        BY <1>1, <1>3, ParentFacts
      <4> QED BY <1>2, <4>1, <4>2 DEF Sides
    <3> QED BY <1>3, <2>1, <2>2, <2>3, <2>4, <2>5, <2>7, <3>1 DEF Sides
  <2> QED BY <2>6, <2>7
<1>29. IsPut(w, v, n, m)
  BY <1>23, <1>25, <1>26, <1>27, <1>28 DEF IsPut
<1>30. Supplant(u, n).tree = z /\ Supplant(u, n).child = c /\ Supplant(u, n).black = (m \notin u.red)
       /\ Supplant(u, n).parent = (IF p = n THEN m ELSE p)
  <2> DEFINE m0 == Down(u, u.right[n], "left")
             c0 == u.right[m0]
             p0 == u.up[m0]
             v1 == Replace(u, u.up[n], n, m0)
             v2 == IF p0 = n THEN v1
                   ELSE SetParent([SetParent(v1, c0, p0) EXCEPT
                                      !.left[p0] = c0, !.right[m0] = u.right[n]], u.right[n], m0)
             v3 == [v2 EXCEPT !.up[m0] = u.up[n], !.left[m0] = u.left[n],
                              !.red = IF IsRed(u, n) THEN @ \cup {m0} ELSE @ \ {m0}]
  <2>1. Supplant(u, n) = [tree |-> SetParent(v3, u.left[n], m0), child |-> c0,
                          parent |-> IF p0 = n THEN m0 ELSE p0, black |-> IsBlack(u, m0)]
    BY DEF Supplant
  <2>2. m0 = m
    BY <1>0
  <2> HIDE DEF m0
  <2>3. c0 = c /\ p0 = p
    BY <1>1, <2>2
  <2> HIDE DEF c0, p0
  <2>4. v1 = u1
    BY <1>1, <1>12, <2>2
  <2> HIDE DEF v1
  <2>5. v2 = u2
    BY <1>1, <1>14, <2>2, <2>3, <2>4
  <2> HIDE DEF v2
  <2>6. v3 = u3
    BY <1>1, <1>15, <1>16, <1>17, <2>2, <2>5 DEF IsRed
  <2> HIDE DEF v3
  <2>7. SetParent(v3, u.left[n], m0) = z
    BY <1>1, <1>20, <2>2, <2>6
  <2> QED BY <1>1, <2>1, <2>2, <2>3, <2>7 DEF IsBlack
<1> QED BY <1>1, <1>10, <1>22, <1>29, <1>30

-----------------------------------------------------------------------------
(* The way down of an insertion. *)

Toward(n, x) == IF Key[n] < Key[x] THEN "left" ELSE "right"

\* f is the function by which Descent goes down.
IsDown(u, n, f) ==
    f = [w \in Nodes \X SUBSET Sides |->
            IF Key[n] = Key[w[1]] THEN [at |-> w[1], side |-> "none", taken |-> w[2]]
            ELSE IF u[Toward(n, w[1])][w[1]] = Nil
            THEN [at |-> w[1], side |-> Toward(n, w[1]), taken |-> w[2] \cup {Toward(n, w[1])}]
            ELSE f[<<u[Toward(n, w[1])][w[1]], w[2] \cup {Toward(n, w[1])}>>]]

LEMMA DescentExists ==
    ASSUME NEW u, NEW D, Shape(u, D), NEW n \in Nodes
    PROVE  \E f : IsDown(u, n, f) /\ (u.root # Nil => Descent(u, n) = f[<<u.root, {}>>])
<1> DEFINE down[w \in Nodes \X SUBSET Sides] ==
            LET x     == w[1]
                taken == w[2]
                s     == IF Key[n] < Key[x] THEN "left" ELSE "right"
            IN  IF Key[n] = Key[x] THEN [at |-> x, side |-> "none", taken |-> taken]
                ELSE IF u[s][x] = Nil THEN [at |-> x, side |-> s, taken |-> taken \cup {s}]
                ELSE down[<<u[s][x], taken \cup {s}>>]
<1>1. u.root # Nil => Descent(u, n) = down[<<u.root, {}>>]
  BY DEF Descent
<1>1a. PICK N \in Nat : \E dn, au :
              /\ \A x \in Nodes : dn[x] \in 0 .. N
              /\ \A x \in Nodes, s \in Sides : u[s][x] # Nil => u[s][x] \in Nodes /\ dn[u[s][x]] < dn[x]
  BY Measures
<1>1b. PICK dn :
              /\ \A x \in Nodes : dn[x] \in 0 .. N
              /\ \A x \in Nodes, s \in Sides : u[s][x] # Nil => u[s][x] \in Nodes /\ dn[u[s][x]] < dn[x]
  BY <1>1a
<1>2. PICK S : S = Nodes \X SUBSET Sides
  OBVIOUS
<1>3. PICK stop : stop = {z \in S : Key[n] = Key[z[1]] \/ u[Toward(n, z[1])][z[1]] = Nil}
  OBVIOUS
<1>4. PICK base : base = [z \in S |-> IF Key[n] = Key[z[1]] THEN [at |-> z[1], side |-> "none", taken |-> z[2]]
                                      ELSE [at |-> z[1], side |-> Toward(n, z[1]), taken |-> z[2] \cup {Toward(n, z[1])}]]
  OBVIOUS
<1>5. PICK nxt : nxt = [z \in S |-> <<u[Toward(n, z[1])][z[1]], z[2] \cup {Toward(n, z[1])}>>]
  OBVIOUS
<1>6. PICK mu : mu = [z \in S |-> dn[z[1]]]
  OBVIOUS
<1>7. \A z \in S : mu[z] \in 0 .. N
  BY <1>1b, <1>2, <1>6
<1>8. ASSUME NEW z \in S \ stop PROVE nxt[z] \in S /\ mu[nxt[z]] < mu[z]
  <2>1. PICK s : s = Toward(n, z[1]) /\ s \in Sides
    BY DEF Toward, Sides
  <2>2. z[1] \in Nodes /\ z[2] \in SUBSET Sides /\ u[s][z[1]] # Nil
    BY <1>1b, <1>2, <1>3, <1>8, <2>1
  <2>3. nxt[z] = <<u[s][z[1]], z[2] \cup {s}>>
    BY <1>5, <1>8, <2>1
  <2>4. nxt[z] \in S /\ nxt[z][1] = u[s][z[1]]
    BY <1>1b, <1>2, <2>1, <2>2, <2>3
  <2> QED BY <1>1b, <1>6, <2>1, <2>2, <2>4
<1>9. PICK f : Going(f, S, stop, base, nxt)
  BY <1>7, <1>8, GoingExists
<1>10. IsDown(u, n, f)
  <2>1. \A z \in S : f[z] = IF Key[n] = Key[z[1]] THEN [at |-> z[1], side |-> "none", taken |-> z[2]]
            ELSE IF u[Toward(n, z[1])][z[1]] = Nil
            THEN [at |-> z[1], side |-> Toward(n, z[1]), taken |-> z[2] \cup {Toward(n, z[1])}]
            ELSE f[<<u[Toward(n, z[1])][z[1]], z[2] \cup {Toward(n, z[1])}>>]
    BY <1>3, <1>4, <1>5, <1>9 DEF Going
  <2>2. f = [z \in S |-> f[z]]
    BY <1>9 DEF Going
  <2> QED BY <1>2, <2>1, <2>2 DEF IsDown
<1>11. IsDown(u, n, down)
  <2>1. f = [w \in Nodes \X SUBSET Sides |->
            LET x     == w[1]
                taken == w[2]
                s     == IF Key[n] < Key[x] THEN "left" ELSE "right"
            IN  IF Key[n] = Key[x] THEN [at |-> x, side |-> "none", taken |-> taken]
                ELSE IF u[s][x] = Nil THEN [at |-> x, side |-> s, taken |-> taken \cup {s}]
                ELSE f[<<u[s][x], taken \cup {s}>>]]
    BY <1>10 DEF IsDown, Toward
  <2>2. down = [w \in Nodes \X SUBSET Sides |->
            LET x     == w[1]
                taken == w[2]
                s     == IF Key[n] < Key[x] THEN "left" ELSE "right"
            IN  IF Key[n] = Key[x] THEN [at |-> x, side |-> "none", taken |-> taken]
                ELSE IF u[s][x] = Nil THEN [at |-> x, side |-> s, taken |-> taken \cup {s}]
                ELSE down[<<u[s][x], taken \cup {s}>>]]
    BY <2>1
  <2> HIDE DEF down
  <2> QED BY <2>2 DEF IsDown, Toward
<1> HIDE DEF down
<1> QED BY <1>1, <1>11

\* n fits at the place where the descent ends, below d.at on d.side.  Of the
\* sides that were taken, a side not taken means that n lies on the other side
\* of all nodes.
DescentEnds(u, D, n, d, x, T) ==
    /\ d.at \in D[x]
    /\ d.side = "none" => Key[n] = Key[d.at]
    /\ d.side # "none" =>
          /\ d.side \in Sides /\ u[d.side][d.at] = Nil /\ On(d.side, n, d.at)
          /\ \A y \in D[x], k \in Sides : d.at \in Below(D, u[k][y]) => On(k, n, y)
          /\ T \subseteq d.taken
          /\ \A s \in Sides :
                /\ Other(s) \notin d.taken => \A w \in D[x] : On(s, n, w)
                /\ Other(s) \in d.taken => Other(s) \in T \/ \E w \in D[x] : On(Other(s), n, w)

\* The descent d ends at x.
EndsAt(d, x, s, T) == d.at = x /\ d.side = s /\ d.taken = T

LEMMA DescentIs ==
    ASSUME NEW u, NEW D, Shape(u, D), NEW n \in Nodes, u.root # Nil
    PROVE  DescentEnds(u, D, n, Descent(u, n), u.root, {})
<1>1. PICK down : IsDown(u, n, down) /\ Descent(u, n) = down[<<u.root, {}>>]
  BY DescentExists
<1>2. ASSUME NEW x \in Nodes, NEW T \in SUBSET Sides
      PROVE  Key[n] = Key[x] => EndsAt(down[<<x, T>>], x, "none", T)
  <2>1. <<x, T>> \in Nodes \X SUBSET Sides
    OBVIOUS
  <2> QED BY <1>1, <2>1 DEF IsDown, EndsAt
<1>2a. ASSUME NEW x \in Nodes, NEW T \in SUBSET Sides, NEW s, s = Toward(n, x), Key[n] # Key[x], u[s][x] = Nil
       PROVE  EndsAt(down[<<x, T>>], x, s, T \cup {s})
  <2>1. <<x, T>> \in Nodes \X SUBSET Sides
    OBVIOUS
  <2> QED BY <1>1, <1>2a, <2>1 DEF IsDown, EndsAt
<1>2b. ASSUME NEW x \in Nodes, NEW T \in SUBSET Sides, NEW s, s = Toward(n, x), Key[n] # Key[x], u[s][x] # Nil
       PROVE  down[<<x, T>>] = down[<<u[s][x], T \cup {s}>>]
  <2>1. <<x, T>> \in Nodes \X SUBSET Sides
    OBVIOUS
  <2> QED BY <1>1, <1>2b, <2>1 DEF IsDown
<1>3. PICK S : S = {x \in Members(u, D) : \A T \in SUBSET Sides : DescentEnds(u, D, n, down[<<x, T>>], x, T)}
  OBVIOUS
<1>4. ASSUME NEW x \in Members(u, D), \A k \in Sides : u[k][x] # Nil => u[k][x] \in S
      PROVE  x \in S
  <2> SUFFICES ASSUME NEW T \in SUBSET Sides PROVE DescentEnds(u, D, n, down[<<x, T>>], x, T)
    BY <1>3
  <2>1. x \in Nodes /\ x \in D[x] /\ \A w \in D[x] : w \in Nodes
    BY MemberFacts
  <2>2. PICK d : d = down[<<x, T>>]
    OBVIOUS
  <2>3. CASE Key[n] = Key[x]
    <3>1. EndsAt(d, x, "none", T)
      BY <1>2, <2>1, <2>2, <2>3
    <3>2. d.at = x /\ d.side = "none"
      BY <3>1 DEF EndsAt
    <3>3. DescentEnds(u, D, n, d, x, T)
      BY <2>1, <2>3, <3>2 DEF DescentEnds
    <3> QED BY <2>2, <3>3
  <2>4. CASE Key[n] # Key[x]
    <3>1. PICK s \in Sides : s = Toward(n, x)
      BY DEF Toward, Sides
    <3>1a. On(s, n, x)
      BY <2>1, <2>4, <3>1, NilFacts DEF Toward, On
    \* What is not below the child on side s lies on the other side of n.
    <3>2. ASSUME NEW w \in D[x], u[s][x] # Nil => w \notin D[u[s][x]] PROVE On(s, n, w)
      <4>1. CASE w = x
        BY <3>1a, <4>1
      <4>2. CASE w # x
        <5>1. PICK k \in Sides : u[k][x] # Nil /\ w \in D[u[k][x]] /\ On(k, w, x)
          BY <4>2, BelowFacts, ChildFacts
        <5>2. k = Other(s)
          BY <3>2, <5>1, SidesFacts
        <5>3. On(s, x, w)
          BY <2>1, <5>1, <5>2, OnFacts
        <5> QED BY <2>1, <3>1a, <5>3, OnFacts
      <4> QED BY <4>1, <4>2
    <3>3. CASE u[s][x] = Nil
      <4>1. d.at = x /\ d.side = s /\ d.taken = T \cup {s}
        <5>1. EndsAt(d, x, s, T \cup {s})
          BY <1>2a, <2>1, <2>2, <2>4, <3>1, <3>3
        <5> QED BY <5>1 DEF EndsAt
      <4>2. ASSUME NEW y \in D[x], NEW k \in Sides, x \in Below(D, u[k][y]) PROVE FALSE
        <5>1. y \in Members(u, D) /\ D[y] \subseteq D[x] /\ (y # x => x \notin D[y])
          BY Within
        <5>2. u[k][y] # Nil /\ x \in D[u[k][y]]
          BY <4>2 DEF Below
        <5>3. D[u[k][y]] \subseteq D[y] /\ y \notin D[u[k][y]]
          BY <5>1, <5>2, ChildFacts
        <5> QED BY <5>1, <5>2, <5>3
      <4>3. \A r \in Sides :
                /\ Other(r) \notin d.taken => \A w \in D[x] : On(r, n, w)
                /\ Other(r) \in d.taken => Other(r) \in T \/ \E w \in D[x] : On(Other(r), n, w)
        <5> SUFFICES ASSUME NEW r \in Sides
                     PROVE  /\ Other(r) \notin d.taken => \A w \in D[x] : On(r, n, w)
                            /\ Other(r) \in d.taken => Other(r) \in T \/ \E w \in D[x] : On(Other(r), n, w)
          OBVIOUS
        <5>1. \A w \in D[x] : On(s, n, w)
          BY <3>2, <3>3
        <5>2. r = s \/ Other(r) = s
          BY SidesFacts
        <5>3. r = s => Other(r) # s
          BY SidesFacts
        <5> QED BY <2>1, <3>1a, <4>1, <5>1, <5>2, <5>3
      <4>4. s # "none"
        BY DEF Sides
      <4>5. DescentEnds(u, D, n, d, x, T)
        BY <2>1, <3>1a, <3>3, <4>1, <4>2, <4>3, <4>4 DEF DescentEnds
      <4> QED BY <2>2, <4>5
    <3>4. CASE u[s][x] # Nil
      <4>1. PICK c, V : c = u[s][x] /\ V = T \cup {s}
        OBVIOUS
      <4>2. c \in Members(u, D) /\ D[c] \subseteq D[x] /\ x \notin D[c] /\ c \in S /\ V \in SUBSET Sides
        BY <1>4, <3>4, <4>1, ChildFacts
      <4>3. DescentEnds(u, D, n, d, c, V)
        <5>1. d = down[<<c, V>>]
          BY <1>2b, <2>1, <2>2, <2>4, <3>1, <3>4, <4>1
        <5>2. DescentEnds(u, D, n, down[<<c, V>>], c, V)
          BY <1>3, <4>2
        <5> QED BY <5>1, <5>2
      <4>4. d.at \in D[c] /\ d.at \in D[x] /\ (d.side = "none" => Key[n] = Key[d.at])
        BY <4>2, <4>3 DEF DescentEnds
      <4>5. CASE d.side = "none"
        <5>1. DescentEnds(u, D, n, d, x, T)
          BY <4>4, <4>5 DEF DescentEnds
        <5> QED BY <2>2, <5>1
      <4>6. CASE d.side # "none"
        <5>1. /\ d.side \in Sides /\ u[d.side][d.at] = Nil /\ On(d.side, n, d.at)
              /\ (\A y \in D[c], k \in Sides : d.at \in Below(D, u[k][y]) => On(k, n, y))
              /\ V \subseteq d.taken
              /\ \A r \in Sides :
                    /\ Other(r) \notin d.taken => \A w \in D[c] : On(r, n, w)
                    /\ Other(r) \in d.taken => Other(r) \in V \/ \E w \in D[c] : On(Other(r), n, w)
          BY <4>3, <4>6 DEF DescentEnds
        \* d.at is not below another child.
        <5>2. ASSUME NEW k \in Sides, u[k][x] # Nil, d.at \in D[u[k][x]] PROVE k = s
          <6> SUFFICES ASSUME k # s PROVE FALSE
            OBVIOUS
          <6>1. k = Other(s)
            BY SidesFacts
          <6>2. On(k, d.at, x) /\ On(s, d.at, x)
            BY <3>4, <4>1, <4>4, <5>2, ChildFacts
          <6> QED BY <2>1, <4>4, <6>1, <6>2, OnFacts
        <5>3. ASSUME NEW y \in D[x], NEW k \in Sides, d.at \in Below(D, u[k][y]) PROVE On(k, n, y)
          <6>1. u[k][y] # Nil /\ d.at \in D[u[k][y]]
            BY <5>3 DEF Below
          <6>2. CASE y = x
            BY <3>1a, <5>2, <6>1, <6>2
          <6>3. CASE y \in D[c]
            BY <5>1, <5>3, <6>3
          <6>4. CASE y # x /\ y \notin D[c]
            <7>1. PICK j \in Sides : u[j][x] # Nil /\ y \in D[u[j][x]]
              BY <6>4, BelowFacts
            <7>2. PICK e : e = u[j][x] /\ e \in Members(u, D)
              BY <7>1, ChildFacts
            <7>3. y \in Members(u, D) /\ D[y] \subseteq D[e]
              BY <7>1, <7>2, Within
            <7>4. D[u[k][y]] \subseteq D[y]
              BY <6>1, <7>3, ChildFacts
            <7>5. j = s
              BY <5>2, <6>1, <7>1, <7>2, <7>3, <7>4
            <7> QED BY <4>1, <6>4, <7>1, <7>5
          <6> QED BY <6>2, <6>3, <6>4
        <5>4. ASSUME NEW r \in Sides
              PROVE  /\ Other(r) \notin d.taken => \A w \in D[x] : On(r, n, w)
                     /\ Other(r) \in d.taken => Other(r) \in T \/ \E w \in D[x] : On(Other(r), n, w)
          <6>1. ASSUME Other(r) \notin d.taken, NEW w \in D[x] PROVE On(r, n, w)
            <7>1. s # Other(r)
              BY <4>1, <5>1, <6>1
            <7>2. r = s
              BY <7>1, SidesFacts
            <7>3. CASE w \in D[c]
              BY <5>1, <6>1, <7>3
            <7>4. CASE w \notin D[c]
              BY <3>2, <4>1, <7>2, <7>4
            <7> QED BY <7>3, <7>4
          <6>2. ASSUME Other(r) \in d.taken, Other(r) \notin T PROVE \E w \in D[x] : On(Other(r), n, w)
            <7>1. Other(r) \in V \/ \E w \in D[c] : On(Other(r), n, w)
              BY <5>1, <6>2
            <7>2. Other(r) = s \/ \E w \in D[c] : On(Other(r), n, w)
              BY <4>1, <6>2, <7>1
            <7> QED BY <2>1, <3>1a, <4>2, <7>2
          <6> QED BY <6>1, <6>2
        <5>5. T \subseteq d.taken
          BY <4>1, <5>1
        <5>6. DescentEnds(u, D, n, d, x, T)
          BY <4>4, <4>6, <5>1, <5>3, <5>4, <5>5 DEF DescentEnds
        <5> QED BY <2>2, <5>6
      <4> QED BY <4>5, <4>6
    <3> QED BY <3>3, <3>4
  <2> QED BY <2>3, <2>4
<1>5. Members(u, D) \subseteq S
  BY <1>4, BottomUp
<1>6. u.root \in Members(u, D)
  BY DEF Shape
<1> QED BY <1>1, <1>3, <1>5, <1>6

\* v is u with the new red leaf n below p on side s, or as its root.
IsLinked(u, v, n, p, s) ==
    /\ v \in TreeType /\ v.red = u.red \cup {n}
    /\ v.root = IF p = Nil THEN n ELSE u.root
    /\ \A x \in Nodes : v.up[x] = IF x = n THEN p ELSE u.up[x]
    /\ \A k \in Sides : v[k][n] = Nil
    /\ \A x \in Nodes \ {n}, k \in Sides : v[k][x] = IF x = p /\ k = s THEN n ELSE u[k][x]

LEMMA LinkLinks ==
    ASSUME NEW u \in TreeType, NEW n \in Nodes, NEW p \in MaybeNode, p # n, NEW s,
           (p = Nil /\ s = "root") \/ (p # Nil /\ s \in Sides)
    PROVE  IsLinked(u, LinkNode(u, n, p, s), n, p, s)
<1>1. PICK v : v = LinkNode(u, n, p, s)
  OBVIOUS
<1>2. PICK R : R = u.red \cup {n}
  OBVIOUS
<1>3. PICK z : z = [u EXCEPT !.up[n] = p, !.left[n] = Nil, !.right[n] = Nil, !.red = u.red \cup {n}]
  OBVIOUS
<1>4. v = IF s = "root" THEN [z EXCEPT !.root = n] ELSE [z EXCEPT ![s][p] = n]
  BY <1>1, <1>3 DEF LinkNode
<1>5. /\ z \in TreeType /\ z.red = u.red \cup {n} /\ z.root = u.root
      /\ z.up = [u.up EXCEPT ![n] = p] /\ z.left = [u.left EXCEPT ![n] = Nil] /\ z.right = [u.right EXCEPT ![n] = Nil]
  BY <1>3 DEF TreeType, MaybeNode
<1>6. /\ u.left = u["left"] /\ u.right = u["right"] /\ u.left \in [Nodes -> MaybeNode] /\ u.right \in [Nodes -> MaybeNode]
      /\ z.left = z["left"] /\ z.right = z["right"] /\ u.up \in [Nodes -> MaybeNode]
  BY <1>5, Links DEF Sides
<1>7. \A x \in Nodes, k \in Sides : z[k][x] = IF x = n THEN Nil ELSE u[k][x]
  BY <1>5, <1>6 DEF Sides
<1>8. CASE p = Nil /\ s = "root"
  <2>1. v = [z EXCEPT !.root = n]
    BY <1>4, <1>8
  <2>2. v \in TreeType /\ v.red = z.red /\ v.root = n /\ v.up = z.up /\ v.left = z.left /\ v.right = z.right
    BY <1>5, <2>1 DEF TreeType, MaybeNode
  <2>3. \A k \in Sides : v[k] = z[k]
    BY <1>6, <2>2, Links DEF Sides
  <2>4. IsLinked(u, v, n, p, s)
    BY <1>5, <1>6, <1>7, <1>8, <2>2, <2>3, NilFacts DEF IsLinked
  <2> QED BY <1>1, <2>4
<1>9. CASE p # Nil /\ s \in Sides
  <2>1. v = [z EXCEPT ![s][p] = n] /\ p \in Nodes
    BY <1>4, <1>9 DEF Sides, MaybeNode
  <2>2. v \in TreeType /\ v.red = z.red /\ v.root = z.root /\ v.up = z.up
        /\ \A k \in Sides : v[k] = IF k = s THEN [z[k] EXCEPT ![p] = n] ELSE z[k]
    BY <1>5, <1>9, <2>1 DEF TreeType, MaybeNode, Sides
  <2>3. \A x \in Nodes, k \in Sides : v[k][x] = IF x = p /\ k = s THEN n ELSE z[k][x]
    <3>1. \A k \in Sides : z[k] \in [Nodes -> MaybeNode]
      BY <1>5, Links
    <3>2. v[s] = [z[s] EXCEPT ![p] = n] /\ \A k \in Sides \ {s} : v[k] = z[k]
      BY <1>9, <2>2
    <3> QED BY <1>9, <2>1, <3>1, <3>2
  <2>4. IsLinked(u, v, n, p, s)
    BY <1>5, <1>6, <1>7, <1>9, <2>2, <2>3 DEF IsLinked
  <2> QED BY <1>1, <2>4
<1> QED BY <1>8, <1>9

LinkD(D, n, p) == [x \in Nodes |-> IF x = n THEN {n} ELSE IF p \in D[x] THEN D[x] \cup {n} ELSE D[x]]

LEMMA LinkShape ==
    ASSUME NEW u, NEW D, Shape(u, D), NEW n \in Nodes \ Members(u, D), NEW p \in MaybeNode, NEW s, NEW v,
           IsLinked(u, v, n, p, s),
           p = Nil => u.root = Nil,
           p # Nil => /\ p \in Members(u, D) /\ s \in Sides /\ u[s][p] = Nil /\ On(s, n, p)
                      /\ \A y \in Members(u, D), k \in Sides : p \in Below(D, u[k][y]) => On(k, n, y)
    PROVE  Shape(v, LinkD(D, n, p)) /\ Members(v, LinkD(D, n, p)) = Members(u, D) \cup {n}
<1>1. PICK M, DD : M = Members(u, D) /\ DD = LinkD(D, n, p)
  OBVIOUS
<1>2. /\ u \in TreeType /\ v \in TreeType /\ D \in [Nodes -> SUBSET Nodes] /\ n \in Nodes /\ n \notin M
      /\ Nil \notin Nodes /\ u.left = u["left"] /\ u.right = u["right"] /\ v.left = v["left"] /\ v.right = v["right"]
  BY <1>1, NilFacts, Links DEF Shape, IsLinked
<1>3. /\ v.red = u.red \cup {n}
      /\ v.root = (IF p = Nil THEN n ELSE u.root)
      /\ (\A x \in Nodes : v.up[x] = IF x = n THEN p ELSE u.up[x])
      /\ (\A k \in Sides : v[k][n] = Nil)
      /\ \A x \in Nodes \ {n}, k \in Sides : v[k][x] = IF x = p /\ k = s THEN n ELSE u[k][x]
  BY DEF IsLinked
<1>4. M \subseteq Nodes /\ \A x \in M : x \in D[x] /\ n \notin D[x] /\ D[x] \subseteq M
  <2> SUFFICES ASSUME NEW x \in M PROVE x \in Nodes /\ x \in D[x] /\ D[x] \subseteq M
    BY <1>2
  <2> QED BY <1>1, Within, MemberFacts
<1>5. DD \in [Nodes -> SUBSET Nodes] /\ DD[n] = {n} /\ \A x \in Nodes \ {n} : DD[x] = IF p \in D[x] THEN D[x] \cup {n} ELSE D[x]
  BY <1>1, <1>2 DEF LinkD
<1>6. Members(v, DD) = M \cup {n}
  <2>1. CASE p = Nil
    BY <1>1, <1>2, <1>3, <1>5, <2>1 DEF Members, Below
  <2>2. CASE p # Nil
    <3>1. p \in M /\ u.root \in M /\ M = D[u.root] /\ u.root \in Nodes
      BY <1>1, <2>2, MemberFacts
    <3> QED BY <1>2, <1>3, <1>5, <2>2, <3>1 DEF Members, Below
  <2> QED BY <2>1, <2>2
<1>7. v.root # Nil => v.root \in M \cup {n} /\ v.up[v.root] = Nil
  <2>1. CASE p = Nil
    BY <1>2, <1>3, <2>1
  <2>2. CASE p # Nil
    <3>1. u.root \in M /\ u.root \in Nodes
      BY <1>1, <2>2, MemberFacts
    <3>2. u.up[u.root] = Nil
      BY <1>2, <3>1 DEF Shape
    <3> QED BY <1>2, <1>3, <2>2, <3>1, <3>2
  <2> QED BY <2>1, <2>2
<1>8. NodeShape(v, DD, n)
  <2>1. v.left[n] = Nil /\ v.right[n] = Nil
    BY <1>2, <1>3 DEF Sides
  <2>2. \A k \in Sides : v[k][n] = Nil
    BY <1>3
  <2>3. ASSUME n # v.root PROVE v.up[n] \in M \cup {n} /\ \E k \in Sides : v[k][v.up[n]] = n
    <3>1. p # Nil
      BY <1>3, <2>3
    <3>2. p \in M /\ s \in Sides /\ p \in Nodes \ {n}
      BY <1>1, <1>2, <1>4, <3>1
    <3>3. v.up[n] = p /\ v[s][p] = n
      BY <1>2, <1>3, <3>2
    <3> QED BY <3>2, <3>3
  <2> QED BY <1>5, <1>6, <2>1, <2>2, <2>3 DEF NodeShape, Below
<1>9. ASSUME NEW x \in M PROVE NodeShape(v, DD, x)
  <2>1. NodeShape(u, D, x) /\ x \in Nodes /\ x # n /\ x \in D[x]
    BY <1>1, <1>2, <1>9, MemberFacts
  <2>2. p # Nil /\ p \in M /\ s \in Sides /\ p \in Nodes /\ u[s][p] = Nil /\ On(s, n, p)
        /\ \A y \in M, k \in Sides : p \in Below(D, u[k][y]) => On(k, n, y)
    <3>1. p # Nil
      BY <1>1, <1>9 DEF Members, Below
    <3> QED BY <1>1, <1>4, <3>1
  <2>3. ASSUME NEW k \in Sides
        PROVE  /\ Below(DD, v[k][x]) = IF p \in Below(D, u[k][x]) \/ (x = p /\ k = s) THEN Below(D, u[k][x]) \cup {n} ELSE Below(D, u[k][x])
               /\ v[k][x] # Nil => v[k][x] \in M \cup {n} /\ v.up[v[k][x]] = x
               /\ \A y \in Below(DD, v[k][x]) : On(k, y, x)
    <3>1. CASE x = p /\ k = s
      <4>1. v[k][x] = n
        BY <1>3, <2>1, <3>1
      <4>2. Below(DD, n) = {n}
        BY <1>2, <1>5 DEF Below
      <4>3. Below(D, u[k][x]) = {}
        BY <2>2, <3>1 DEF Below
      <4> QED BY <1>2, <1>3, <2>2, <3>1, <4>1, <4>2, <4>3
    <3>2. CASE ~(x = p /\ k = s)
      <4>1. PICK c : c = u[k][x]
        OBVIOUS
      <4>2. v[k][x] = c
        BY <1>3, <2>1, <3>2, <4>1
      <4>3. c # Nil => c \in M /\ c \in Nodes /\ c # n /\ u.up[c] = x
        BY <1>1, <1>2, <1>4, <2>1, <4>1 DEF NodeShape
      <4>4. Below(DD, c) = IF p \in Below(D, c) THEN Below(D, c) \cup {n} ELSE Below(D, c)
        BY <1>5, <4>3 DEF Below
      <4>5. \A y \in Below(D, c) : On(k, y, x)
        BY <2>1, <4>1 DEF NodeShape
      <4>6. p \in Below(D, c) => On(k, n, x)
        BY <1>9, <2>2, <4>1
      <4> QED BY <1>3, <3>2, <4>1, <4>2, <4>3, <4>4, <4>5, <4>6
    <3> QED BY <3>1, <3>2
  <2>4. DD[x] = {x} \cup Below(DD, v["left"][x]) \cup Below(DD, v["right"][x])
    <3>1. D[x] = {x} \cup Below(D, u["left"][x]) \cup Below(D, u["right"][x])
      BY <1>2, <2>1 DEF NodeShape
    <3>2. "left" \in Sides /\ "right" \in Sides /\ (s = "left" \/ s = "right")
      BY <2>2 DEF Sides
    <3>3. DD[x] = IF p \in D[x] THEN D[x] \cup {n} ELSE D[x]
      BY <1>5, <2>1
    <3> QED BY <2>1, <2>3, <3>1, <3>2, <3>3
  <2>5. ASSUME x # v.root PROVE v.up[x] \in M \cup {n} /\ \E k \in Sides : v[k][v.up[x]] = x
    <3>1. x # u.root
      BY <1>3, <2>2, <2>5
    <3>2. PICK q : q = u.up[x] /\ v.up[x] = q
      BY <1>3, <2>1
    <3>3. q \in M /\ q \in Nodes /\ q # n /\ \E k \in Sides : u[k][q] = x
      BY <1>1, <1>2, <1>4, <2>1, <3>1, <3>2 DEF NodeShape
    <3>4. PICK k \in Sides : u[k][q] = x
      BY <3>3
    <3>5. v[k][q] = x
      BY <1>2, <1>3, <2>1, <2>2, <3>3, <3>4
    <3> QED BY <3>2, <3>3, <3>5
  <2> QED BY <1>2, <1>6, <2>3, <2>4, <2>5 DEF NodeShape
<1>10. ASSUME NEW x \in Nodes \ (M \cup {n})
       PROVE  v.up[x] = Nil /\ v.left[x] = Nil /\ v.right[x] = Nil /\ x \notin v.red
  <2>1. u.up[x] = Nil /\ u["left"][x] = Nil /\ u["right"][x] = Nil /\ x \notin u.red
    BY <1>1, <1>2, <1>10 DEF Shape
  <2>2. x # p
    BY <1>1, <1>2, <1>10
  <2>3. v["left"][x] = Nil /\ v["right"][x] = Nil /\ v.up[x] = Nil /\ x \notin v.red
    BY <1>3, <1>10, <2>1, <2>2 DEF Sides
  <2> QED BY <1>2, <2>3
<1>11. Shape(v, DD)
  BY <1>2, <1>5, <1>6, <1>7, <1>8, <1>9, <1>10 DEF Shape
<1> QED BY <1>1, <1>6, <1>11

-----------------------------------------------------------------------------
(* The invariant. *)

\* rb_leftmost and rb_rightmost.
EndsOf(e, M) == \A s \in Sides : IF M = {} THEN e[s] = Nil ELSE IsOuter(e[s], M, s)

\* With the nodes in R red, h[x] is the number of black nodes on every way down
\* from x, but on side d of the node p, if it is one, a black node is lacking.
BlackOn(h, x)    == IF x = Nil THEN 0 ELSE h[x]
Unit(R, x)       == IF x \in R THEN 0 ELSE 1
Lack(p, d, x, k) == IF x = p /\ k = d THEN 1 ELSE 0
Heights(u, R, M, h, p, d) ==
    /\ h \in [Nodes -> Nat]
    /\ \A x \in M, k \in Sides : BlackOn(h, u[k][x]) + Unit(R, x) + Lack(p, d, x, k) = h[x]

\* A red node has a parent, which is not red or is the node f; or it is the node e.
Reds(u, R, e, f) ==
    \A x \in R : x = e \/ (u.up[x] # Nil /\ (u.up[x] \notin R \/ u.up[x] = f))

IdleColours(u, M, h) == Heights(u, u.red, M, h, Nil, "left") /\ Reds(u, u.red, Nil, Nil)

InsertColours(u, nd, M, h) ==
    /\ nd \in M /\ nd \in u.red
    /\ Heights(u, u.red, M, h, Nil, "left") /\ Reds(u, u.red, nd, Nil)

\* Below node, the child of parent on side d, a black one is lacking.
EraseColours(u, nd, pr, M, h) ==
    /\ nd = Nil \/ nd \in M
    /\ Reds(u, u.red, nd, nd)
    /\ IF pr = Nil THEN nd = u.root /\ Heights(u, u.red, M, h, Nil, "left")
       ELSE /\ pr \in M
            /\ \E d \in Sides : /\ u[d][pr] = nd /\ u[Other(d)][pr] # nd
                                /\ Heights(u, u.red, M, h, pr, d)

Colours(u, c, nd, pr, M, h) ==
    \/ c = "idle" /\ nd = Nil /\ pr = Nil /\ IdleColours(u, M, h)
    \/ c = "insert_color" /\ InsertColours(u, nd, M, h)
    \/ c = "erase_color" /\ EraseColours(u, nd, pr, M, h)

IInvFor(D, h) ==
    /\ Shape(t, D) /\ EndsOf(ends, Members(t, D))
    /\ Colours(t, pc, node, parent, Members(t, D), h)

IInv == \E D, h : IInvFor(D, h)

\* What the code takes for a node of the tree is a node of the tree.
NodesIn(u) == {n \in Nodes : Linked(u, n)}

LEMMA NodesInIs ==
    ASSUME NEW u, NEW D, Shape(u, D)
    PROVE  NodesIn(u) = Members(u, D)
<1>1. Members(u, D) \subseteq Nodes
  BY MemberFacts
<1>2. ASSUME NEW n \in Nodes PROVE Linked(u, n) <=> n \in Members(u, D)
  <2>1. CASE n \in Members(u, D)
    <3>1. n = u.root \/ u.up[n] \in Members(u, D)
      BY <2>1, MemberFacts DEF NodeShape
    <3>2. \A y \in Members(u, D) : y # Nil
      BY MemberFacts
    <3> QED BY <2>1, <3>1, <3>2 DEF Linked
  <2>2. CASE n \notin Members(u, D)
    <3>1. u.up[n] = Nil /\ n # u.root
      BY <2>2, NilFacts DEF Shape
    <3> QED BY <2>2, <3>1 DEF Linked
  <2> QED BY <2>1, <2>2
<1> QED BY <1>1, <1>2 DEF NodesIn

\* A step that keeps the invariant has its own D and h.
LEMMA Keeps ==
    ASSUME NEW D, NEW h, NEW v, NEW M, v = t', Shape(v, D), M = Members(v, D), EndsOf(ends', M),
           Colours(v, pc', node', parent', M, h)
    PROVE  IInv' /\ NodesIn(t') = M
<1>1. IInv'
  BY DEF IInv, IInvFor
<1>2. NodesIn(v) = M
  BY NodesInIs
<1> QED BY <1>1, <1>2

\* v is u with the red nodes R.
IsColored(u, v, R) ==
    /\ v \in TreeType /\ v.red = R /\ v.root = u.root /\ v.up = u.up /\ v.left = u.left /\ v.right = u.right
    /\ \A k \in Sides : v[k] = u[k]

LEMMA ColoredLinks ==
    ASSUME NEW u \in TreeType, NEW R \in SUBSET Nodes
    PROVE  IsColored(u, [u EXCEPT !.red = R], R)
<1>1. PICK v : v = [u EXCEPT !.red = R]
  OBVIOUS
<1>2. /\ v \in TreeType /\ v.red = R /\ v.root = u.root /\ v.up = u.up /\ v.left = u.left /\ v.right = u.right
  BY <1>1 DEF TreeType
<1>3. \A k \in Sides : v[k] = u[k]
  BY <1>2, Links DEF Sides
<1> QED BY <1>1, <1>2, <1>3 DEF IsColored

LEMMA ColoredShape ==
    ASSUME NEW u, NEW D, Shape(u, D), NEW v, NEW R, R \subseteq Members(u, D), IsColored(u, v, R)
    PROVE  Shape(v, D) /\ Members(v, D) = Members(u, D)
<1>1. /\ v \in TreeType /\ v.red = R /\ v.root = u.root /\ v.up = u.up /\ v.left = u.left /\ v.right = u.right
      /\ \A k \in Sides : v[k] = u[k]
  BY DEF IsColored
<1>2. Members(v, D) = Members(u, D)
  BY <1>1 DEF Members
<1>3. \A x \in Members(v, D) : NodeShape(v, D, x)
  BY <1>1, <1>2 DEF Shape, NodeShape
<1> QED BY <1>1, <1>2, <1>3 DEF Shape

\* Only nodes of the tree are red, and a node is nobody's child but its parent's.
LEMMA RedFacts ==
    ASSUME NEW u, NEW D, Shape(u, D)
    PROVE  /\ u.red \subseteq Members(u, D) /\ Nil \notin Members(u, D) /\ u \in TreeType
           /\ Members(u, D) \subseteq Nodes
           /\ \A x \in Members(u, D), k \in Sides :
                 /\ x \in Nodes /\ u[k][x] \in Members(u, D) \cup {Nil} /\ u[k][x] # x
                 /\ u[k][x] # Nil => u.up[u[k][x]] = x
           /\ \A x \in Members(u, D) :
                 /\ u.up[x] \in Members(u, D) \cup {Nil} /\ u.up[x] # x
                 /\ u.up[x] = Nil <=> x = u.root
                 /\ u.up[x] # Nil => \E k \in Sides : u[k][u.up[x]] = x /\ u[Other(k)][u.up[x]] # x
<1>1. u.red \subseteq Members(u, D) /\ u \in TreeType
  BY DEF Shape, TreeType
<1>2. Nil \notin Members(u, D) /\ Members(u, D) \subseteq Nodes
  BY MemberFacts
<1>3. ASSUME NEW x \in Members(u, D), NEW k \in Sides
      PROVE  /\ x \in Nodes /\ u[k][x] \in Members(u, D) \cup {Nil} /\ u[k][x] # x
             /\ u[k][x] # Nil => u.up[u[k][x]] = x
  <2>1. x \in Nodes /\ NodeShape(u, D, x) /\ x # Nil
    BY MemberFacts
  <2>2. u[k][x] # Nil => u[k][x] \in Members(u, D) /\ u.up[u[k][x]] = x
    BY <2>1 DEF NodeShape
  <2>3. u.up[x] # x
    BY OnlyLink
  <2> QED BY <2>1, <2>2, <2>3
<1>4. ASSUME NEW x \in Members(u, D)
      PROVE  /\ u.up[x] \in Members(u, D) \cup {Nil} /\ u.up[x] # x
             /\ u.up[x] = Nil <=> x = u.root
             /\ u.up[x] # Nil => \E k \in Sides : u[k][u.up[x]] = x /\ u[Other(k)][u.up[x]] # x
  <2>1. NodeShape(u, D, x)
    BY MemberFacts
  <2>2. x # u.root => u.up[x] \in Members(u, D)
    BY <2>1 DEF NodeShape
  <2> QED BY <2>2, OnlyLink
<1> QED BY <1>1, <1>2, <1>3, <1>4

LEMMA ChildOf ==
    ASSUME NEW u, NEW D, Shape(u, D), NEW x \in Members(u, D), NEW k \in Sides, NEW y, y = u[k][x]
    PROVE  y # x /\ (y = Nil \/ (y \in Members(u, D) /\ u.up[y] = x))
BY RedFacts

LEMMA ParentOf ==
    ASSUME NEW u, NEW D, Shape(u, D), NEW x \in Members(u, D), NEW p, p = u.up[x], p # Nil
    PROVE  /\ p \in Members(u, D) /\ p # x
           /\ \E k \in Sides : u[k][p] = x /\ u[Other(k)][p] # x
BY RedFacts

-----------------------------------------------------------------------------
(* Colours without rotations. *)

\* A node that becomes black adds one black node to the ways through it: to
\* none but its own if it is the root.
LEMMA BlackenRoot ==
    ASSUME NEW u, NEW D, Shape(u, D), NEW v, NEW M, M = Members(u, D), NEW R, R = u.red \ {u.root},
           NEW h, Heights(u, u.red, M, h, Nil, "left"), IsColored(u, v, R)
    PROVE  \E f : Heights(v, v.red, M, f, Nil, "left")
<1>1. \A k \in Sides : v[k] = u[k]
  BY DEF IsColored
<1>2. v.red = R
  BY DEF IsColored
<1>3. CASE u.root \notin u.red
  <2>1. v.red = u.red
    BY <1>2, <1>3
  <2> QED BY <1>1, <2>1 DEF Heights
<1>4. CASE u.root \in u.red
  <2>1. u.root \in M /\ u.root # Nil /\ M \subseteq Nodes /\ h \in [Nodes -> Nat]
    BY <1>4, RedFacts DEF Heights
  <2>2. PICK f : f = [h EXCEPT ![u.root] = h[u.root] + 1]
    OBVIOUS
  <2>3. f \in [Nodes -> Nat] /\ f[u.root] = h[u.root] + 1 /\ \A x \in Nodes \ {u.root} : f[x] = h[x]
    BY <2>1, <2>2
  <2>4. ASSUME NEW x \in M, NEW k \in Sides
        PROVE  BlackOn(f, v[k][x]) + Unit(v.red, x) + Lack(Nil, "left", x, k) = f[x]
    <3>1. u[k][x] # u.root /\ u[k][x] \in M \cup {Nil} /\ x \in Nodes
      BY <2>1, RedFacts
    <3>2. BlackOn(f, v[k][x]) = BlackOn(h, u[k][x]) /\ BlackOn(h, u[k][x]) \in Nat
      BY <1>1, <2>1, <2>3, <3>1 DEF BlackOn
    <3>3. BlackOn(h, u[k][x]) + Unit(u.red, x) + Lack(Nil, "left", x, k) = h[x] /\ Lack(Nil, "left", x, k) = 0
      BY <2>1, RedFacts DEF Heights, Lack
    <3>4. x # u.root => Unit(v.red, x) = Unit(u.red, x)
      BY <1>2 DEF Unit
    <3>5. Unit(v.red, u.root) = 1 /\ Unit(u.red, u.root) = 0 /\ Unit(u.red, x) \in Nat
      BY <1>2, <1>4 DEF Unit
    <3> QED BY <2>1, <2>3, <3>1, <3>2, <3>3, <3>4, <3>5
  <2> QED BY <2>3, <2>4 DEF Heights
<1> QED BY <1>3, <1>4

\* The lacking node is found.
LEMMA BlackenChild ==
    ASSUME NEW u, NEW D, Shape(u, D), NEW v, NEW M, M = Members(u, D), NEW n \in u.red, NEW p \in M, NEW d \in Sides,
           u[d][p] = n, NEW R, R = u.red \ {n}, NEW h, Heights(u, u.red, M, h, p, d), IsColored(u, v, R)
    PROVE  \E f : Heights(v, v.red, M, f, Nil, "left")
<1>1. \A k \in Sides : v[k] = u[k]
  BY DEF IsColored
<1>2. v.red = R
  BY DEF IsColored
<1>3. n \in M /\ n # Nil /\ M \subseteq Nodes /\ h \in [Nodes -> Nat] /\ n # p /\ u.up[n] = p
  BY RedFacts DEF Heights
<1>4. PICK f : f = [h EXCEPT ![n] = h[n] + 1]
  OBVIOUS
<1>5. f \in [Nodes -> Nat] /\ f[n] = h[n] + 1 /\ \A x \in Nodes \ {n} : f[x] = h[x]
  BY <1>3, <1>4
<1>6. ASSUME NEW x \in M, NEW k \in Sides
      PROVE  BlackOn(f, v[k][x]) + Unit(v.red, x) + Lack(Nil, "left", x, k) = f[x]
  <2>1. u[k][x] \in M \cup {Nil} /\ x \in Nodes /\ (u[k][x] = n => x = p)
    BY <1>3, RedFacts
  <2>2. u[k][x] = n => x = p /\ k = d
    <3>1. PICK j \in Sides : u[j][p] = n /\ u[Other(j)][p] # n
      BY <1>3, RedFacts
    <3> QED BY <2>1, <3>1, SidesFacts
  <2>3. BlackOn(h, u[k][x]) + Unit(u.red, x) + Lack(p, d, x, k) = h[x] /\ Lack(Nil, "left", x, k) = 0
    BY <1>3, RedFacts DEF Heights, Lack
  <2>4. Unit(v.red, x) = Unit(u.red, x) + (IF x = n THEN 1 ELSE 0) /\ Unit(u.red, x) \in Nat
    BY <1>2 DEF Unit
  <2>5. BlackOn(f, v[k][x]) = BlackOn(h, u[k][x]) + Lack(p, d, x, k) /\ BlackOn(h, u[k][x]) \in Nat /\ Lack(p, d, x, k) \in Nat
    BY <1>1, <1>3, <1>5, <2>1, <2>2 DEF BlackOn, Lack
  <2> QED BY <1>3, <1>5, <2>1, <2>3, <2>4, <2>5
<1> QED BY <1>5, <1>6 DEF Heights

\* The new leaf is red: no way has another black node.
LEMMA LinkColours ==
    ASSUME NEW u, NEW D, Shape(u, D), NEW M, M = Members(u, D), NEW n \in Nodes \ M, NEW p \in MaybeNode, NEW s, NEW v,
           IsLinked(u, v, n, p, s), p = Nil => u.root = Nil, p # Nil => p \in M /\ s \in Sides /\ u[s][p] = Nil,
           NEW h, IdleColours(u, M, h)
    PROVE  \E f : InsertColours(v, n, M \cup {n}, f)
<1>1. /\ v \in TreeType /\ v.red = u.red \cup {n}
      /\ \A x \in Nodes : v.up[x] = IF x = n THEN p ELSE u.up[x]
      /\ \A k \in Sides : v[k][n] = Nil
      /\ \A x \in Nodes \ {n}, k \in Sides : v[k][x] = IF x = p /\ k = s THEN n ELSE u[k][x]
  BY DEF IsLinked
<1>2. h \in [Nodes -> Nat] /\ n # Nil /\ M \subseteq Nodes /\ Nil \notin M
  BY MemberFacts, NilFacts DEF IdleColours, Heights
<1>3. PICK f : f = [h EXCEPT ![n] = 0]
  OBVIOUS
<1>4. f \in [Nodes -> Nat] /\ f[n] = 0 /\ \A x \in Nodes \ {n} : f[x] = h[x]
  BY <1>2, <1>3
<1>5. ASSUME NEW x \in M, NEW k \in Sides
      PROVE  BlackOn(f, v[k][x]) + Unit(v.red, x) + Lack(Nil, "left", x, k) = f[x]
  <2>1. u[k][x] \in M \cup {Nil} /\ x \in Nodes \ {n}
    BY RedFacts
  <2>2. BlackOn(f, v[k][x]) = BlackOn(h, u[k][x])
    <3>1. CASE x = p /\ k = s
      <4>1. v[k][x] = n /\ u[k][x] = Nil
        BY <1>1, <2>1, <3>1, <1>2
      <4> QED BY <1>2, <1>4, <4>1 DEF BlackOn
    <3>2. CASE ~(x = p /\ k = s)
      <4>1. v[k][x] = u[k][x]
        BY <1>1, <2>1, <3>2
      <4>2. u[k][x] # Nil => u[k][x] \in Nodes \ {n}
        BY <1>2, <2>1
      <4> QED BY <1>4, <4>1, <4>2 DEF BlackOn
    <3> QED BY <3>1, <3>2
  <2>3. Unit(v.red, x) = Unit(u.red, x)
    BY <1>1, <2>1 DEF Unit
  <2>4. BlackOn(h, u[k][x]) + Unit(u.red, x) + Lack(Nil, "left", x, k) = h[x]
    BY DEF IdleColours, Heights
  <2> QED BY <1>4, <2>1, <2>2, <2>3, <2>4
<1>6. ASSUME NEW k \in Sides PROVE BlackOn(f, v[k][n]) + Unit(v.red, n) + Lack(Nil, "left", n, k) = f[n]
  BY <1>1, <1>2, <1>4 DEF BlackOn, Unit, Lack
<1>7. Heights(v, v.red, M \cup {n}, f, Nil, "left")
  BY <1>4, <1>5, <1>6 DEF Heights
<1>8. Reds(v, v.red, n, Nil)
  <2> SUFFICES ASSUME NEW x \in u.red, x # n PROVE v.up[x] # Nil /\ v.up[x] \notin v.red
    BY <1>1 DEF Reds
  <2>1. x \in M /\ x \in Nodes /\ u.up[x] \in M \cup {Nil} /\ u.red \subseteq M
    BY RedFacts
  <2>2. u.up[x] # Nil /\ u.up[x] \notin u.red
    BY <2>1, RedFacts DEF IdleColours, Reds
  <2> QED BY <1>1, <2>1, <2>2
<1> QED BY <1>1, <1>7, <1>8 DEF InsertColours

\* Where RecolorUncle finds nd: p, its parent, and c, the uncle, are the red children of g; v is the tree recoloured.
UncleCase(u, v, s, nd, p, g, c) ==
    /\ p = u.up[nd] /\ g = u.up[p] /\ c = u[Other(s)][g] /\ u[s][g] = p
    /\ p \in u.red /\ c \in u.red
    /\ IsColored(u, v, (u.red \ {c, p}) \cup {g})

\* RecolorUncle: the black of g is given to both its children.
LEMMA UncleColours ==
    ASSUME NEW u, NEW D, Shape(u, D), NEW M, M = Members(u, D), NEW h, NEW nd, InsertColours(u, nd, M, h),
           NEW p, NEW g, NEW s \in Sides, NEW c, NEW v, UncleCase(u, v, s, nd, p, g, c)
    PROVE  \E f : InsertColours(v, g, M, f)
<1>1. (\A k \in Sides : v[k] = u[k]) /\ v.red = (u.red \ {c, p}) \cup {g} /\ v.up = u.up
  BY DEF IsColored, UncleCase
<1>a. p = u.up[nd] /\ g = u.up[p] /\ c = u[Other(s)][g] /\ u[s][g] = p /\ p \in u.red /\ c \in u.red
  BY DEF UncleCase
<1>2. nd \in M /\ nd \in u.red /\ h \in [Nodes -> Nat] /\ M \subseteq Nodes /\ Nil \notin M /\ p \in M /\ c \in M /\ p # nd
  BY <1>a, RedFacts DEF InsertColours, Heights
<1>3. g \in M /\ g \notin u.red /\ g # p
  BY <1>a, <1>2, RedFacts DEF InsertColours, Reds
<1>b. \A x \in M : u.up[x] # Nil => \E k \in Sides : u[k][u.up[x]] = x /\ u[Other(k)][u.up[x]] # x
  BY RedFacts
<1>c. \A x \in M, k \in Sides : u[k][x] # Nil => u.up[u[k][x]] = x /\ u[k][x] # x
  BY RedFacts
<1>4. u.up[c] = g /\ c # g /\ c # p /\ Other(s) \in Sides
  <2>1. PICK j \in Sides : u[j][g] = p /\ u[Other(j)][g] # p
    <3>1. u.up[p] = g /\ g # Nil
      BY <1>a, <1>2, <1>3
    <3> QED BY <1>2, <1>b, <3>1
  <2>2. c = u[Other(s)][g] /\ u[s][g] = p /\ c # Nil /\ Other(s) \in Sides
    BY <1>2, <1>a, SidesFacts
  <2>3. c # p
    <3>1. CASE j = s
      BY <2>1, <2>2, <3>1
    <3>2. CASE j # s
      BY <2>1, <2>2, <3>2, SidesFacts
    <3> QED BY <3>1, <3>2
  <2> QED BY <1>3, <1>c, <2>2, <2>3
<1>5. PICK f : f = [h EXCEPT ![p] = h[p] + 1, ![c] = h[c] + 1]
  OBVIOUS
<1>6. f \in [Nodes -> Nat] /\ f[p] = h[p] + 1 /\ f[c] = h[c] + 1 /\ \A x \in Nodes \ {p, c} : f[x] = h[x]
  <2>1. h[p] + 1 \in Nat /\ h[c] + 1 \in Nat /\ p \in Nodes /\ c \in Nodes
    BY <1>2
  <2> QED BY <1>2, <1>4, <1>5, <2>1
<1>7. ASSUME NEW x \in M, NEW k \in Sides
      PROVE  BlackOn(f, v[k][x]) + Unit(v.red, x) + Lack(Nil, "left", x, k) = f[x]
  <2>1. u[k][x] \in M \cup {Nil} /\ x \in Nodes /\ (u[k][x] \in {p, c} => x = g)
    <3>1. u[k][x] \in M \cup {Nil} /\ x \in Nodes /\ (u[k][x] # Nil => u.up[u[k][x]] = x)
      BY RedFacts
    <3>2. p # Nil /\ c # Nil
      BY <1>2
    <3>3. u[k][x] \in {p, c} => u.up[u[k][x]] = g
      BY <1>4, <1>a
    <3> QED BY <3>1, <3>2, <3>3
  <2>2. BlackOn(h, u[k][x]) + Unit(u.red, x) + Lack(Nil, "left", x, k) = h[x] /\ Lack(Nil, "left", x, k) = 0
    BY <1>2 DEF InsertColours, Heights, Lack
  <2>3. BlackOn(h, u[k][x]) \in Nat
    BY <1>2, <2>1 DEF BlackOn
  <2>4. CASE x = g
    <3>1. u[k][x] = p \/ u[k][x] = c
      BY <1>a, <2>4, SidesFacts
    <3>2. BlackOn(f, v[k][x]) = BlackOn(h, u[k][x]) + 1
      BY <1>1, <1>2, <1>6, <3>1 DEF BlackOn
    <3>3. Unit(v.red, x) = 0 /\ Unit(u.red, x) = 1
      BY <1>1, <1>3, <2>4 DEF Unit
    <3>4. f[x] = h[x]
      BY <1>3, <1>4, <1>6, <2>1, <2>4
    <3> QED BY <2>2, <2>3, <3>2, <3>3, <3>4
  <2>5. CASE x # g
    <3>1. BlackOn(f, v[k][x]) = BlackOn(h, u[k][x])
      BY <1>1, <1>2, <1>6, <2>1, <2>5 DEF BlackOn
    <3>2. Unit(v.red, x) = Unit(u.red, x) + (IF x \in {p, c} THEN 1 ELSE 0) /\ Unit(u.red, x) \in Nat
      <4>1. v.red = (u.red \ {c, p}) \cup {g} /\ p \in u.red /\ c \in u.red
        BY <1>1, <1>a
      <4> QED BY <2>5, <4>1 DEF Unit
    <3>3. f[x] = h[x] + (IF x \in {p, c} THEN 1 ELSE 0)
      <4>1. h[x] \in Nat
        BY <1>2, <2>1
      <4> QED BY <1>6, <2>1, <4>1
    <3> QED BY <2>2, <2>3, <3>1, <3>2, <3>3
  <2> QED BY <2>4, <2>5
<1>8. Reds(v, v.red, g, Nil)
  <2> SUFFICES ASSUME NEW x \in u.red \ {c, p} PROVE v.up[x] # Nil /\ v.up[x] \notin v.red
    BY <1>1 DEF Reds
  <2>1. x \in M
    BY RedFacts
  <2>2. u.up[x] # g
    <3> SUFFICES ASSUME u.up[x] = g PROVE FALSE
      OBVIOUS
    <3>1. PICK j \in Sides : u[j][g] = x
      BY <1>2, <1>3, <1>b, <2>1
    <3> QED BY <1>a, <3>1, SidesFacts
  <2>3. CASE x = nd
    BY <1>1, <1>2, <1>a, <1>3, <2>3
  <2>4. CASE x # nd
    <3>1. u.up[x] # Nil /\ (u.up[x] \notin u.red \/ u.up[x] = Nil)
      BY <2>4 DEF InsertColours, Reds
    <3> QED BY <1>1, <2>2, <3>1
  <2> QED BY <2>3, <2>4
<1>9. Heights(v, v.red, M, f, Nil, "left")
  BY <1>6, <1>7 DEF Heights
<1> QED BY <1>1, <1>3, <1>8, <1>9 DEF InsertColours

\* SiblingBlack: the sibling o becomes red, and what was lacking on one side of
\* p is lacking in p.
LEMMA SiblingColours ==
    ASSUME NEW u, NEW D, Shape(u, D), NEW M, M = Members(u, D), NEW h, NEW nd, nd \notin u.red, Reds(u, u.red, nd, nd),
           NEW p \in M, NEW s \in Sides, u[s][p] = nd, u[Other(s)][p] # nd, Heights(u, u.red, M, h, p, s),
           NEW o, o = u[Other(s)][p], o \notin u.red, \A k \in Sides : u[k][o] \notin u.red,
           NEW v, NEW R, R = u.red \cup {o}, IsColored(u, v, R)
    PROVE  o \in M /\ \E f : EraseColours(v, p, u.up[p], M, f)
<1>1. (\A k \in Sides : v[k] = u[k]) /\ v.red = R /\ v.up = u.up /\ v.root = u.root
  BY DEF IsColored
<1>2. h \in [Nodes -> Nat] /\ M \subseteq Nodes /\ Nil \notin M /\ p # Nil /\ Other(s) \in Sides /\ Other(s) # s /\ u.red \subseteq M
  BY RedFacts, SidesFacts DEF Heights
<1>3. ASSUME NEW x \in M, NEW k \in Sides
      PROVE  /\ u[k][x] \in M \cup {Nil} /\ BlackOn(h, u[k][x]) \in Nat /\ Unit(u.red, x) \in Nat
             /\ BlackOn(h, u[k][x]) + Unit(u.red, x) + Lack(p, s, x, k) = h[x]
  BY <1>2, RedFacts DEF BlackOn, Heights, Unit
<1>4. Lack(p, s, p, s) = 1 /\ Lack(p, s, p, Other(s)) = 0
  BY <1>2 DEF Lack
<1>5. BlackOn(h, o) >= 1 /\ h[p] >= 1
  BY <1>2, <1>3, <1>4
<1>6. o \in M /\ o # Nil /\ o # p /\ u.up[o] = p /\ h[o] >= 1
  <2>1. o # Nil
    BY <1>5 DEF BlackOn
  <2> QED BY <1>2, <1>5, <2>1, RedFacts DEF BlackOn
<1>7. PICK f : f = [h EXCEPT ![o] = h[o] - 1, ![p] = h[p] - 1]
  OBVIOUS
<1>8. f \in [Nodes -> Nat] /\ f[p] = h[p] - 1 /\ f[o] = h[o] - 1 /\ \A x \in Nodes \ {p, o} : f[x] = h[x]
  <2>1. h[p] \in Nat /\ h[o] \in Nat
    BY <1>2, <1>6
  <2>2. h[o] - 1 \in Nat /\ h[p] - 1 \in Nat
    BY <1>5, <1>6, <2>1
  <2> QED BY <1>2, <1>6, <1>7, <2>2
<1>9. ASSUME NEW x \in M, NEW k \in Sides, NEW q, NEW d, u[k][x] = p <=> (x = q /\ k = d)
      PROVE  BlackOn(f, v[k][x]) + Unit(v.red, x) + Lack(q, d, x, k) = f[x]
  <2>1. u[k][x] = o <=> (x = p /\ k = Other(s))
    <3>1. u[k][x] = o => x = p
      BY <1>6, <1>2, RedFacts
    <3>2. u[s][p] # o
      OBVIOUS
    <3> QED BY <3>1, <3>2, SidesFacts
  <2>2. x \in Nodes /\ p \in Nodes /\ o \in Nodes
    BY <1>2, <1>6
  <2>3. BlackOn(f, v[k][x]) = IF u[k][x] \in {p, o} THEN BlackOn(h, u[k][x]) - 1 ELSE BlackOn(h, u[k][x])
    <3>1. CASE u[k][x] \in {p, o}
      BY <1>1, <1>2, <1>6, <1>8, <3>1 DEF BlackOn
    <3>2. CASE u[k][x] \notin {p, o} /\ u[k][x] # Nil
      <4>1. u[k][x] \in Nodes \ {p, o}
        BY <1>2, <1>3, <3>2
      <4> QED BY <1>1, <1>8, <3>2, <4>1 DEF BlackOn
    <3>3. CASE u[k][x] = Nil
      BY <1>1, <1>2, <1>6, <3>3 DEF BlackOn
    <3> QED BY <3>1, <3>2, <3>3
  <2>4. CASE x = o
    <3>1. u[k][x] # p
      <4> SUFFICES ASSUME u[k][x] = p PROVE FALSE
        OBVIOUS
      <4>1. /\ p \in D[o] \/ o = p
        BY <2>4, <1>2, ChildFacts, MemberFacts
      <4>2. o \in D[p] /\ p \notin D[o]
        BY <1>2, <1>6, ChildFacts, MemberFacts
      <4> QED BY <1>6, <4>1, <4>2
    <3>2. u[k][x] # o /\ ~(x = q /\ k = d)
      BY <2>1, <1>6, <1>9, <2>4, <3>1
    <3>3. Unit(v.red, x) = 0 /\ Unit(u.red, x) = 1 /\ Lack(q, d, x, k) = 0 /\ Lack(p, s, x, k) = 0
      BY <1>1, <1>6, <2>4, <3>2 DEF Unit, Lack
    <3> QED BY <1>3, <1>6, <1>8, <2>3, <2>4, <3>1, <3>2, <3>3
  <2>5. CASE x = p
    <3>1. u[k][x] # p
      BY <1>2, <2>5, RedFacts
    <3>2. Unit(v.red, x) = Unit(u.red, x) /\ Lack(q, d, x, k) = 0
      BY <1>1, <1>6, <1>9, <2>5, <3>1 DEF Unit, Lack
    <3>3. k = s \/ k = Other(s)
      BY SidesFacts
    <3>4. CASE k = s
      <4>1. u[k][x] # o
        BY <1>2, <2>1, <3>4
      <4> QED BY <1>3, <1>4, <1>8, <2>3, <2>5, <3>1, <3>2, <3>4, <4>1
    <3>5. CASE k = Other(s)
      <4>1. u[k][x] = o
        BY <2>1, <2>5, <3>5
      <4>2. BlackOn(h, u[k][x]) + Unit(u.red, x) = h[x]
        BY <1>3, <1>4, <2>5, <3>5
      <4> QED BY <1>3, <1>8, <2>3, <2>5, <3>2, <4>1, <4>2
    <3> QED BY <3>3, <3>4, <3>5
  <2>6. CASE x # o /\ x # p
    <3>1. u[k][x] # o
      BY <2>1, <2>6
    <3>2. Unit(v.red, x) = Unit(u.red, x) /\ Lack(p, s, x, k) = 0
      BY <1>1, <2>6 DEF Unit, Lack
    <3>3. Lack(q, d, x, k) = IF u[k][x] = p THEN 1 ELSE 0
      BY <1>9 DEF Lack
    <3>4. f[x] = h[x]
      BY <1>8, <2>2, <2>6
    <3> QED BY <1>3, <2>3, <3>1, <3>2, <3>3, <3>4
  <2> QED BY <2>4, <2>5, <2>6
<1>10. Reds(v, v.red, p, p)
  <2> SUFFICES ASSUME NEW x \in v.red PROVE x = p \/ (v.up[x] # Nil /\ (v.up[x] \notin v.red \/ v.up[x] = p))
    BY DEF Reds
  <2>1. CASE x = o
    BY <1>1, <1>2, <1>6, <2>1
  <2>2. CASE x # o
    <3>1. x \in u.red /\ x # nd /\ x \in M
      BY <1>1, <1>2, <2>2
    <3>2. u.up[x] # Nil /\ u.up[x] \notin u.red
      BY <3>1 DEF Reds
    <3>3. u.up[x] # o
      <4> SUFFICES ASSUME u.up[x] = o PROVE FALSE
        OBVIOUS
      <4>1. PICK j \in Sides : u[j][o] = x
        BY <1>6, <3>1, RedFacts
      <4> QED BY <3>1, <4>1
    <3> QED BY <1>1, <3>2, <3>3
  <2> QED BY <2>1, <2>2
<1>11. CASE u.up[p] = Nil
  <2>1. p = u.root
    BY <1>11, RedFacts
  <2>2. \A x \in M, k \in Sides : u[k][x] # p
    BY <1>2, <1>11, RedFacts
  <2>3. \A x \in M, k \in Sides : BlackOn(f, v[k][x]) + Unit(v.red, x) + Lack(Nil, "left", x, k) = f[x]
    BY <1>2, <1>9, <2>2
  <2>4. Heights(v, v.red, M, f, Nil, "left")
    BY <1>8, <2>3 DEF Heights
  <2> QED BY <1>1, <1>6, <1>10, <1>11, <2>1, <2>4 DEF EraseColours
<1>12. CASE u.up[p] # Nil
  <2>1. PICK d \in Sides : u[d][u.up[p]] = p /\ u[Other(d)][u.up[p]] # p
    BY <1>12, RedFacts
  <2>2. \A x \in M, k \in Sides : u[k][x] = p <=> (x = u.up[p] /\ k = d)
    <3>1. \A x \in M, k \in Sides : u[k][x] = p => x = u.up[p]
      BY <1>2, RedFacts
    <3> QED BY <2>1, <3>1, SidesFacts
  <2>3. \A x \in M, k \in Sides : BlackOn(f, v[k][x]) + Unit(v.red, x) + Lack(u.up[p], d, x, k) = f[x]
    BY <1>9, <2>2
  <2>4. Heights(v, v.red, M, f, u.up[p], d)
    BY <1>8, <2>3 DEF Heights
  <2>5. u.up[p] \in M
    BY <1>12, RedFacts
  <2>6. v[d][u.up[p]] = p /\ v[Other(d)][u.up[p]] # p
    BY <1>1, <2>1, SidesFacts
  <2> QED BY <1>1, <1>6, <1>10, <1>12, <2>4, <2>5, <2>6 DEF EraseColours
<1> QED BY <1>6, <1>11, <1>12

-----------------------------------------------------------------------------
(* Colours through a rotation. *)

\* n can go down on side s.
Turns(u, D, n, s, c, g) ==
    /\ Shape(u, D) /\ n \in Members(u, D) /\ s \in Sides
    /\ c = u[Other(s)][n] /\ c # Nil /\ g = u[s][c]

LEMMA TurnShape ==
    ASSUME NEW u, NEW D, NEW n, NEW s, NEW c, NEW g, Turns(u, D, n, s, c, g), NEW v, Rotated(u, v, n, s, c, g)
    PROVE  /\ Shape(v, RotatedD(D, n, c, g)) /\ Members(v, RotatedD(D, n, c, g)) = Members(u, D)
BY RotateShape DEF Turns

\* What h becomes when n goes down on side s, the colours C become those of u and
\* what is lacking moves: f.  Outside n and c only o, the child of c that stays
\* with it, may change its colour.
Turned(u, C, M, h, p, d, f, q, e, n, s, c) ==
    LET g == u[s][c]
        o == u[Other(s)][c]
    IN  /\ f \in [Nodes -> Nat] /\ f[c] = h[n]
        /\ \A x \in M \ {n, c, o} : f[x] = h[x] /\ (x \in u.red <=> x \in C)
        /\ o # Nil => f[o] + Unit(C, o) = h[o] + Unit(u.red, o)
        /\ \A x \in M \ {n, c}, k \in Sides : Lack(p, d, x, k) = Lack(q, e, x, k)
        /\ BlackOn(h, u[s][n]) + Unit(u.red, n) + Lack(q, e, n, s) = f[n]
        /\ BlackOn(h, g) + Unit(u.red, n) + Lack(q, e, n, Other(s)) = f[n]
        /\ f[n] + Unit(u.red, c) + Lack(q, e, c, s) = f[c]
        /\ BlackOn(f, o) + Unit(u.red, c) + Lack(q, e, c, Other(s)) = f[c]

\* Every way of the turned tree has as many black nodes as the others.
LEMMA TurnHeights ==
    ASSUME NEW u, NEW D, NEW n, NEW s, NEW c, NEW g, Turns(u, D, n, s, c, g), NEW M, M = Members(u, D),
           NEW v, Rotated(u, v, n, s, c, g), NEW C, NEW h, NEW p, NEW d, Heights(u, C, M, h, p, d),
           NEW f, NEW q, NEW e, Turned(u, C, M, h, p, d, f, q, e, n, s, c)
    PROVE  Heights(v, v.red, M, f, q, e)
<1> USE DEF Turns
<1> PICK o : o = u[Other(s)][c]
  OBVIOUS
<1>0. /\ f \in [Nodes -> Nat] /\ f[c] = h[n]
      /\ \A x \in M \ {n, c, o} : f[x] = h[x] /\ (x \in u.red <=> x \in C)
      /\ o # Nil => f[o] + Unit(C, o) = h[o] + Unit(u.red, o)
      /\ \A x \in M \ {n, c}, k \in Sides : Lack(p, d, x, k) = Lack(q, e, x, k)
      /\ BlackOn(h, u[s][n]) + Unit(u.red, n) + Lack(q, e, n, s) = f[n]
      /\ BlackOn(h, g) + Unit(u.red, n) + Lack(q, e, n, Other(s)) = f[n]
      /\ f[n] + Unit(u.red, c) + Lack(q, e, c, s) = f[c]
      /\ BlackOn(f, o) + Unit(u.red, c) + Lack(q, e, c, Other(s)) = f[c]
  BY DEF Turned
<1>1. /\ v.red = u.red
      /\ v[s][n] = u[s][n] /\ v[Other(s)][n] = g
      /\ v[s][c] = n /\ v[Other(s)][c] = o
      /\ \A x \in Nodes \ {n, c}, k \in Sides : v[k][x] = IF u[k][x] = n THEN c ELSE u[k][x]
  BY DEF Rotated
<1>2. M \subseteq Nodes /\ Nil \notin M /\ Other(s) \in Sides /\ Other(s) # s /\ h \in [Nodes -> Nat]
  BY RedFacts, SidesFacts DEF Heights
<1>3. c \in M /\ u.up[c] = n /\ c # n /\ g \in M \cup {Nil} /\ o \in M \cup {Nil} /\ g # c /\ o # c
      /\ (g # Nil => u.up[g] = c) /\ (o # Nil => u.up[o] = c)
  BY <1>2, RedFacts
<1>4. g # n /\ o # n
  <2> SUFFICES ASSUME NEW k \in Sides, u[k][c] = n PROVE FALSE
    BY <1>2
  <2>1. n \in D[c]
    BY <1>2, <1>3, ChildFacts, MemberFacts
  <2> QED BY <1>2, <1>3, <2>1, ChildFacts
<1>5. \A y \in M \ {n, c, o} : BlackOn(f, y) = BlackOn(h, y)
  BY <1>0 DEF BlackOn
<1>6. BlackOn(f, Nil) = BlackOn(h, Nil)
  BY DEF BlackOn
<1>7. \A k \in Sides : BlackOn(f, v[k][n]) + Unit(v.red, n) + Lack(q, e, n, k) = f[n]
  <2>1. BlackOn(f, g) = BlackOn(h, g)
    <3>1. g = Nil \/ g # o
      <4> SUFFICES ASSUME g # Nil PROVE g # o
        OBVIOUS
      <4>1. PICK j \in Sides : u[j][c] = g /\ u[Other(j)][c] # g
        BY <1>3, RedFacts
      <4> QED BY <4>1, SidesFacts
    <3> QED BY <1>3, <1>4, <1>5, <1>6, <3>1
  <2>2. BlackOn(f, u[s][n]) = BlackOn(h, u[s][n])
    <3>1. u[s][n] \in M \cup {Nil} /\ u[s][n] # n /\ (u[s][n] # Nil => u.up[u[s][n]] = n)
      BY RedFacts
    <3>2. u[s][n] # c
      <4>1. PICK j \in Sides : u[j][n] = c /\ u[Other(j)][n] # c
        BY <1>2, <1>3, RedFacts
      <4> QED BY <1>2, <4>1, SidesFacts
    <3>3. u[s][n] # Nil => u[s][n] # o
      BY <1>3, <3>1
    <3> QED BY <1>5, <1>6, <3>1, <3>2, <3>3
  <2> QED BY <1>0, <1>1, <2>1, <2>2, SidesFacts
<1>8. \A k \in Sides : BlackOn(f, v[k][c]) + Unit(v.red, c) + Lack(q, e, c, k) = f[c]
  <2>1. BlackOn(f, n) = f[n]
    BY <1>2 DEF BlackOn
  <2> QED BY <1>0, <1>1, <2>1, SidesFacts
<1>9. ASSUME NEW x \in M \ {n, c}, NEW k \in Sides
      PROVE  BlackOn(f, v[k][x]) + Unit(v.red, x) + Lack(q, e, x, k) = f[x]
  <2>1. x \in Nodes /\ u[k][x] \in M \cup {Nil} /\ (u[k][x] # Nil => u.up[u[k][x]] = x)
    BY RedFacts
  <2>2. u[k][x] = Nil \/ u[k][x] \notin {c, o}
    BY <1>2, <1>3, <2>1
  <2>3. BlackOn(f, v[k][x]) = BlackOn(h, u[k][x])
    <3>1. CASE u[k][x] = n
      BY <1>0, <1>1, <1>2, <1>3, <2>1, <3>1 DEF BlackOn
    <3>2. CASE u[k][x] # n
      BY <1>1, <1>5, <1>6, <2>1, <2>2, <3>2
    <3> QED BY <3>1, <3>2
  <2>4. BlackOn(h, u[k][x]) + Unit(C, x) + Lack(p, d, x, k) = h[x] /\ Lack(p, d, x, k) = Lack(q, e, x, k)
    BY <1>0 DEF Heights
  <2>5. BlackOn(h, u[k][x]) \in Nat /\ Unit(C, x) \in Nat /\ Lack(q, e, x, k) \in Nat /\ h[x] \in Nat /\ f[x] \in Nat /\ Unit(u.red, x) \in Nat
    BY <1>0, <1>2, <2>1 DEF BlackOn, Unit, Lack
  <2>6. CASE x = o
    <3>1. f[x] + Unit(C, x) = h[x] + Unit(u.red, x)
      BY <1>0, <1>2, <2>6
    <3> QED BY <1>1, <2>3, <2>4, <2>5, <3>1
  <2>7. CASE x # o
    <3>1. f[x] = h[x] /\ Unit(u.red, x) = Unit(C, x)
      BY <1>0, <2>7 DEF Unit
    <3> QED BY <1>1, <2>3, <2>4, <2>5, <3>1
  <2> QED BY <2>6, <2>7
<1>10. \A x \in M, k \in Sides : BlackOn(f, v[k][x]) + Unit(v.red, x) + Lack(q, e, x, k) = f[x]
  BY <1>7, <1>8, <1>9
<1> QED BY <1>0, <1>10 DEF Heights

\* n is black, its child c is red, and they change their colours.
Swaps(u, C, n, s, c, p, d) ==
    /\ n \notin C /\ c \in C /\ u.red = (C \ {c}) \cup {n}
    /\ p # c /\ d \in Sides /\ (p = n => d = s)

\* n and its red child c change their colours, and c takes the place of n.  A
\* node that is lacking beside c stays so.
LEMMA SwapHeights ==
    ASSUME NEW u, NEW D, NEW n, NEW s, NEW c, NEW g, Turns(u, D, n, s, c, g), NEW M, M = Members(u, D),
           NEW v, Rotated(u, v, n, s, c, g), NEW C, NEW p, NEW d, Swaps(u, C, n, s, c, p, d),
           NEW h, Heights(u, C, M, h, p, d)
    PROVE  \E f : Heights(v, v.red, M, f, p, d)
<1>0. n \in M /\ Shape(u, D) /\ s \in Sides /\ c = u[Other(s)][n] /\ c # Nil /\ g = u[s][c] /\ d \in Sides
      /\ n \notin C /\ c \in C /\ u.red = (C \ {c}) \cup {n} /\ p # c /\ (p = n => d = s)
  BY DEF Turns, Swaps
<1>1. M \subseteq Nodes /\ Nil \notin M /\ Other(s) \in Sides /\ Other(s) # s /\ h \in [Nodes -> Nat] /\ c # n /\ c # Nil
      /\ n \in Nodes /\ c \in Nodes /\ c \in M
  BY <1>0, RedFacts, SidesFacts DEF Heights
<1>2. PICK o : o = u[Other(s)][c]
  OBVIOUS
<1>3. g \in M \cup {Nil} /\ o \in M \cup {Nil} /\ g # c /\ o # c
  BY <1>0, <1>1, <1>2, RedFacts
<1>4. o # n
  <2> SUFFICES ASSUME NEW k \in Sides, u[k][c] = n PROVE FALSE
    BY <1>0, <1>1, <1>2
  <2>1. n \in D[c]
    BY <1>0, <1>1, ChildFacts, MemberFacts
  <2> QED BY <1>0, <1>1, <2>1, ChildFacts
<1>5. PICK f : f = [h EXCEPT ![n] = h[c], ![c] = h[n]]
  OBVIOUS
<1>6. f \in [Nodes -> Nat] /\ f[n] = h[c] /\ f[c] = h[n] /\ \A x \in Nodes \ {n, c} : f[x] = h[x]
  BY <1>0, <1>1, <1>5
<1>7. /\ BlackOn(h, u[s][n]) + Unit(C, n) + Lack(p, d, n, s) = h[n]
      /\ BlackOn(h, c) + Unit(C, n) + Lack(p, d, n, Other(s)) = h[n]
      /\ BlackOn(h, g) + Unit(C, c) + Lack(p, d, c, s) = h[c]
      /\ BlackOn(h, o) + Unit(C, c) + Lack(p, d, c, Other(s)) = h[c]
  <2>1. \A x \in M, k \in Sides : BlackOn(h, u[k][x]) + Unit(C, x) + Lack(p, d, x, k) = h[x]
    BY DEF Heights
  <2> QED BY <1>0, <1>1, <1>2, <2>1
<1>8. /\ Unit(C, n) = 1 /\ Unit(C, c) = 0 /\ Unit(u.red, n) = 0 /\ Unit(u.red, c) = 1
      /\ Lack(p, d, n, Other(s)) = 0 /\ Lack(p, d, c, s) = 0 /\ Lack(p, d, c, Other(s)) = 0 /\ Lack(p, d, n, s) \in Nat
      /\ BlackOn(h, c) = h[c] /\ h[c] \in Nat /\ h[n] \in Nat
  BY <1>0, <1>1 DEF Unit, Lack, BlackOn
<1>9. BlackOn(h, u[s][n]) \in Nat /\ BlackOn(h, g) \in Nat /\ BlackOn(h, o) \in Nat
  BY <1>0, <1>1, <1>3, RedFacts DEF BlackOn
<1>10. BlackOn(f, o) = BlackOn(h, o)
  BY <1>0, <1>1, <1>3, <1>4, <1>6 DEF BlackOn
<1>11. \A x \in M \ {n, c} : f[x] = h[x] /\ (x \in u.red <=> x \in C)
  BY <1>0, <1>1, <1>6
<1>12. o # Nil => f[o] + Unit(C, o) = h[o] + Unit(u.red, o)
  <2> HAVE o # Nil
  <2>1. o \in M \ {n, c}
    BY <1>3, <1>4
  <2> QED BY <1>11, <2>1 DEF Unit
<1>13. /\ BlackOn(h, u[s][n]) + Unit(u.red, n) + Lack(p, d, n, s) = f[n]
       /\ BlackOn(h, g) + Unit(u.red, n) + Lack(p, d, n, Other(s)) = f[n]
       /\ f[n] + Unit(u.red, c) + Lack(p, d, c, s) = f[c]
       /\ BlackOn(f, o) + Unit(u.red, c) + Lack(p, d, c, Other(s)) = f[c]
  BY <1>0, <1>6, <1>7, <1>8, <1>9, <1>10
<1>14. Heights(v, v.red, M, f, p, d)
  <2>1. \A x \in M \ {n, c, o} : f[x] = h[x] /\ (x \in u.red <=> x \in C)
    BY <1>11
  <2>2. Turned(u, C, M, h, p, d, f, p, d, n, s, c)
    BY <1>0, <1>2, <1>6, <1>12, <1>13, <2>1 DEF Turned
  <2> QED BY <2>2, TurnHeights
<1> QED BY <1>14

-----------------------------------------------------------------------------
(* The rotations of rb_insert_color. *)

\* A round of rb_insert_color with a black uncle: p is red and the child of g on
\* side s, and nd is its child on side r.
UncleBlack(u, nd, s, r, p, g) ==
    /\ s \in Sides /\ r \in Sides /\ p = u.up[nd] /\ p \in u.red /\ u[r][p] = nd
    /\ g = u.up[p] /\ u[s][g] = p /\ u[Other(s)][g] \notin u.red

\* The second rotation: nd is outside its red parent p, which takes the place
\* of the black g.
OuterCase(u, M, h, nd, s, p, g, z, w, v) ==
    /\ InsertColours(u, nd, M, h) /\ UncleBlack(u, nd, s, s, p, g)
    /\ IsColored(u, z, (u.red \ {p}) \cup {g})
    /\ w = u[Other(s)][p] /\ Rotated(z, v, g, Other(s), p, w)

LEMMA OuterColours ==
    ASSUME NEW u, NEW D, Shape(u, D), NEW M, M = Members(u, D), NEW h, NEW nd, NEW s, NEW p, NEW g, NEW z, NEW w, NEW v,
           OuterCase(u, M, h, nd, s, p, g, z, w, v)
    PROVE  /\ Shape(v, RotatedD(D, g, p, w)) /\ Members(v, RotatedD(D, g, p, w)) = M
           /\ \E f : InsertColours(v, nd, M, f)
<1> USE DEF OuterCase
<1> PICK R : R = (u.red \ {p}) \cup {g}
  OBVIOUS
<1>0. /\ s \in Sides /\ p = u.up[nd] /\ p \in u.red /\ u[s][p] = nd
      /\ g = u.up[p] /\ u[s][g] = p /\ u[Other(s)][g] \notin u.red
  BY DEF UncleBlack
<1>1. (\A k \in Sides : z[k] = u[k]) /\ z.red = R /\ z.up = u.up /\ z.root = u.root
  BY DEF IsColored
<1>2. nd \in M /\ nd \in u.red /\ M \subseteq Nodes /\ Nil \notin M /\ p \in M /\ p # nd /\ u.red \subseteq M
  BY <1>0, RedFacts DEF InsertColours
<1>3. g \in M /\ g \notin u.red /\ g # p
  BY <1>0, <1>2, RedFacts DEF InsertColours, Reds
<1>4. Shape(z, D) /\ Members(z, D) = M
  BY <1>0, <1>2, <1>3, ColoredShape
<1>5. /\ Other(s) \in Sides /\ Other(Other(s)) = s /\ Other(s) # s
      /\ z[Other(Other(s))][g] = p /\ z[Other(s)][p] = w /\ p # Nil
  BY <1>0, <1>1, <1>2, SidesFacts
<1>6. Shape(v, RotatedD(D, g, p, w)) /\ Members(v, RotatedD(D, g, p, w)) = M
  <2>1. Turns(z, D, g, Other(s), p, w)
    BY <1>0, <1>3, <1>4, <1>5 DEF Turns
  <2> QED BY <1>0, <1>4, <2>1, TurnShape
<1>7. Heights(z, u.red, M, h, Nil, "left")
  BY <1>0, <1>1 DEF InsertColours, Heights
<1>8. \E f : Heights(v, v.red, M, f, Nil, "left")
  <2>1. Swaps(z, u.red, g, Other(s), p, Nil, "left")
    BY <1>0, <1>1, <1>2, <1>3 DEF Swaps, Sides
  <2>2. Turns(z, D, g, Other(s), p, w)
    BY <1>0, <1>3, <1>4, <1>5 DEF Turns
  <2> QED BY <1>0, <1>4, <1>7, <2>1, <2>2, SwapHeights
<1>9. v.red = R /\ \A x \in Nodes : v.up[x] = IF x = g THEN p ELSE IF x = p THEN u.up[g]
                                            ELSE IF x = w THEN g ELSE u.up[x]
  BY <1>0, <1>1 DEF Rotated
<1>10. Reds(v, v.red, nd, Nil)
  <2> SUFFICES ASSUME NEW x \in R, x # nd PROVE v.up[x] # Nil /\ v.up[x] \notin R
    BY <1>0, <1>9 DEF Reds
  <2>1. x \in M /\ x \in Nodes /\ x # p
    BY <1>0, <1>2, <1>3
  <2>2. CASE x = g
    BY <1>0, <1>2, <1>3, <1>9, <2>1, <2>2
  <2>3. CASE x # g
    <3>1. x \in u.red /\ u.up[x] # Nil /\ u.up[x] \notin u.red
      BY <1>0, <1>2, <2>1, <2>3, RedFacts DEF InsertColours, Reds
    <3>2. x # w
      <4> SUFFICES ASSUME x = w PROVE FALSE
        OBVIOUS
      <4>1. u.up[w] = p
        BY <1>0, <1>2, <1>5, <2>1, RedFacts
      <4> QED BY <1>0, <3>1, <4>1
    <3>3. u.up[x] # g
      <4> SUFFICES ASSUME u.up[x] = g PROVE FALSE
        OBVIOUS
      <4>1. PICK j \in Sides : u[j][g] = x
        BY <1>0, <2>1, <3>1, RedFacts
      <4> QED BY <1>0, <2>1, <3>1, <4>1, SidesFacts
    <3> QED BY <1>0, <1>9, <2>1, <2>3, <3>1, <3>2, <3>3
  <2> QED BY <1>0, <2>2, <2>3
<1>11. nd \in v.red
  BY <1>0, <1>2, <1>9
<1> QED BY <1>0, <1>2, <1>6, <1>8, <1>10, <1>11 DEF InsertColours

\* The first rotation, of two red nodes, when nd is inside: p is now the lower one.
InnerDone(u, v, p, nd, g, s) ==
    /\ v.up[p] = nd /\ nd \in v.red /\ v[s][nd] = p
    /\ v.up[nd] = g /\ v[s][g] = nd /\ v[Other(s)][g] \notin v.red /\ v.red = u.red

InnerCase(u, M, h, nd, s, p, g, w, v) ==
    /\ InsertColours(u, nd, M, h) /\ UncleBlack(u, nd, s, Other(s), p, g)
    /\ w = u[s][nd] /\ Rotated(u, v, p, s, nd, w)

LEMMA InnerColours ==
    ASSUME NEW u, NEW D, Shape(u, D), NEW M, M = Members(u, D), NEW h, NEW nd, NEW s, NEW p, NEW g, NEW w, NEW v,
           InnerCase(u, M, h, nd, s, p, g, w, v)
    PROVE  /\ Shape(v, RotatedD(D, p, nd, w)) /\ Members(v, RotatedD(D, p, nd, w)) = M
           /\ \E f : InsertColours(v, p, M, f)
           /\ InnerDone(u, v, p, nd, g, s)
<1> USE DEF InnerCase
<1>0. /\ s \in Sides /\ p = u.up[nd] /\ p \in u.red /\ u[Other(s)][p] = nd
      /\ g = u.up[p] /\ u[s][g] = p /\ u[Other(s)][g] \notin u.red
  BY DEF UncleBlack
<1>2. nd \in M /\ nd \in u.red /\ M \subseteq Nodes /\ Nil \notin M /\ p \in M /\ p # nd /\ u.red \subseteq M
  BY <1>0, RedFacts DEF InsertColours
<1>3. g \in M /\ g \notin u.red /\ g # p /\ g # nd
  BY <1>0, <1>2, RedFacts DEF InsertColours, Reds
<1>5. Other(s) \in Sides /\ Other(Other(s)) = s /\ Other(s) # s /\ nd # Nil
  BY <1>0, <1>2, SidesFacts
<1>6. Shape(v, RotatedD(D, p, nd, w)) /\ Members(v, RotatedD(D, p, nd, w)) = M
  <2>1. Turns(u, D, p, s, nd, w)
    BY <1>0, <1>2, <1>5 DEF Turns
  <2> QED BY <2>1, TurnShape
<1>7. h \in [Nodes -> Nat] /\ \A x \in M, k \in Sides : BlackOn(h, u[k][x]) + Unit(u.red, x) + Lack(Nil, "left", x, k) = h[x]
  BY DEF InsertColours, Heights
<1>8. PICK o : o = u[Other(s)][nd]
  OBVIOUS
<1>9. /\ BlackOn(h, u[s][p]) + Unit(u.red, p) + Lack(Nil, "left", p, s) = h[p]
      /\ BlackOn(h, nd) + Unit(u.red, p) + Lack(Nil, "left", p, Other(s)) = h[p]
      /\ BlackOn(h, w) + Unit(u.red, nd) + Lack(Nil, "left", nd, s) = h[nd]
      /\ BlackOn(h, o) + Unit(u.red, nd) + Lack(Nil, "left", nd, Other(s)) = h[nd]
  BY <1>0, <1>2, <1>5, <1>7, <1>8
<1>10. /\ Unit(u.red, p) = 0 /\ Unit(u.red, nd) = 0 /\ BlackOn(h, nd) = h[nd] /\ h[nd] \in Nat
       /\ \A k \in Sides : Lack(Nil, "left", p, k) = 0 /\ Lack(Nil, "left", nd, k) = 0
  BY <1>0, <1>2, <1>7 DEF Unit, Lack, BlackOn
<1>11. h[nd] = h[p]
  BY <1>0, <1>5, <1>9, <1>10
<1>12. Turned(u, u.red, M, h, Nil, "left", h, Nil, "left", p, s, nd)
  BY <1>0, <1>5, <1>7, <1>8, <1>9, <1>10, <1>11 DEF Turned
<1>13. Heights(v, v.red, M, h, Nil, "left")
  <2>1. Turns(u, D, p, s, nd, w)
    BY <1>0, <1>2, <1>5 DEF Turns
  <2> QED BY <1>0, <1>12, <2>1, TurnHeights DEF InsertColours
<1>14. /\ v.red = u.red /\ v[s][nd] = p
       /\ \A x \in Nodes : v.up[x] = IF x = p THEN nd ELSE IF x = nd THEN u.up[p]
                                     ELSE IF x = w THEN p ELSE u.up[x]
       /\ \A x \in Nodes \ {p, nd}, k \in Sides : v[k][x] = IF u[k][x] = p THEN nd ELSE u[k][x]
  BY DEF Rotated
<1>15. Reds(v, v.red, p, Nil)
  <2> SUFFICES ASSUME NEW x \in u.red, x # p PROVE v.up[x] # Nil /\ v.up[x] \notin u.red
    BY <1>0, <1>14 DEF Reds
  <2>1. x \in M /\ x \in Nodes
    BY <1>0, <1>2
  <2>2. CASE x = nd
    BY <1>0, <1>2, <1>3, <1>14, <2>2
  <2>3. CASE x # nd
    <3>1. u.up[x] # Nil /\ u.up[x] \notin u.red
      BY <1>0, <1>2, <2>1, <2>3, RedFacts DEF InsertColours, Reds
    <3>2. x # w
      <4> SUFFICES ASSUME x = w PROVE FALSE
        OBVIOUS
      <4>1. u.up[w] = nd
        BY <1>0, <1>2, <1>5, <2>1, RedFacts
      <4> QED BY <1>0, <1>2, <3>1, <4>1
    <3> QED BY <1>0, <1>14, <2>1, <2>3, <3>1, <3>2
  <2> QED BY <1>0, <2>2, <2>3
<1>16. InsertColours(v, p, M, h)
  BY <1>0, <1>2, <1>13, <1>14, <1>15 DEF InsertColours
<1>17. InnerDone(u, v, p, nd, g, s)
  <2>1. u[Other(s)][g] # p
    BY <1>0, <1>2, <1>3
  <2>2. v[s][g] = nd /\ v[Other(s)][g] = u[Other(s)][g]
    BY <1>0, <1>2, <1>3, <1>5, <1>14, <2>1
  <2> QED BY <1>0, <1>2, <1>14, <2>2 DEF InnerDone
<1> QED BY <1>0, <1>6, <1>16, <1>17

-----------------------------------------------------------------------------
(* The rotations of __rb_erase_color. *)

\* A round of it: nd is black, and on its side s of p a black node is lacking.
Lacking(u, nd, p, s, M, h) ==
    /\ nd \notin u.red /\ Reds(u, u.red, nd, nd)
    /\ p \in M /\ u[s][p] = nd /\ u[Other(s)][p] # nd
    /\ Heights(u, u.red, M, h, p, s)

Siblings(u, M, nd, p, s, h, o) ==
    /\ o \in M /\ o # Nil /\ o # p /\ u.up[o] = p /\ nd # p /\ (nd = Nil \/ (nd \in M /\ u.up[nd] = p))
    /\ h \in [Nodes -> Nat] /\ M \subseteq Nodes /\ Nil \notin M /\ u.red \subseteq M
    /\ Other(s) \in Sides /\ Other(s) # s /\ Other(Other(s)) = s
    /\ BlackOn(h, nd) \in Nat /\ h[p] \in Nat /\ h[o] \in Nat
    /\ BlackOn(h, nd) + Unit(u.red, p) + 1 = h[p] /\ h[o] + Unit(u.red, p) = h[p]
    /\ \A k \in Sides : /\ u[k][o] \in M \cup {Nil} /\ BlackOn(h, u[k][o]) \in Nat
                        /\ BlackOn(h, u[k][o]) + Unit(u.red, o) = h[o]
    /\ \A x \in u.red : u.up[x] # Nil /\ u.up[x] \notin u.red

LEMMA NotBoth ==
    ASSUME NEW u, NEW D, Shape(u, D), NEW x \in Members(u, D), NEW y \in Members(u, D), u.up[x] = y
    PROVE  u.up[y] # x
<1>1. x # Nil /\ y # Nil
  BY MemberFacts
<1>2. PICK j, k \in Sides : u[j][y] = x /\ (u.up[y] = x => u[k][x] = y)
  BY <1>1, RedFacts
<1>3. x \in D[x] /\ y \in D[y] /\ D[x] \subseteq D[y] /\ y \notin D[x]
  BY <1>1, <1>2, ChildFacts, MemberFacts
<1>4. u.up[y] = x => D[y] \subseteq D[x]
  BY <1>1, <1>2, ChildFacts
<1> QED BY <1>3, <1>4

LEMMA LackingFacts ==
    ASSUME NEW u, NEW D, Shape(u, D), NEW M, M = Members(u, D), NEW nd, NEW p, NEW s \in Sides, NEW h,
           Lacking(u, nd, p, s, M, h), NEW o, o = u[Other(s)][p]
    PROVE  Siblings(u, M, nd, p, s, h, o)
<1>1. /\ h \in [Nodes -> Nat] /\ M \subseteq Nodes /\ Nil \notin M /\ u.red \subseteq M /\ p \in M /\ p # Nil
      /\ Other(s) \in Sides /\ Other(s) # s /\ Other(Other(s)) = s /\ u[s][p] = nd
  BY RedFacts, SidesFacts DEF Lacking, Heights
<1>2. ASSUME NEW x \in M, NEW k \in Sides
      PROVE  /\ u[k][x] \in M \cup {Nil} /\ BlackOn(h, u[k][x]) \in Nat /\ h[x] \in Nat
             /\ BlackOn(h, u[k][x]) + Unit(u.red, x) + Lack(p, s, x, k) = h[x]
  BY <1>1, RedFacts DEF BlackOn, Heights, Lacking
<1>3. Lack(p, s, p, s) = 1 /\ Lack(p, s, p, Other(s)) = 0 /\ Unit(u.red, p) \in {0, 1}
  BY <1>1 DEF Lack, Unit
<1>4. BlackOn(h, nd) \in Nat /\ BlackOn(h, nd) + Unit(u.red, p) + 1 = h[p] /\ BlackOn(h, o) + Unit(u.red, p) = h[p]
  BY <1>1, <1>2, <1>3
<1>5. o # Nil
  <2>1. BlackOn(h, o) \in Nat
    BY <1>1, <1>2
  <2>2. BlackOn(h, o) >= 1
    BY <1>3, <1>4, <2>1
  <2> QED BY <2>2 DEF BlackOn
<1>6. o \in M /\ o # p /\ u.up[o] = p /\ h[o] = BlackOn(h, o)
  BY <1>1, <1>2, <1>5, RedFacts DEF BlackOn
<1>7. nd # p /\ (nd = Nil \/ (nd \in M /\ u.up[nd] = p))
  BY <1>1, RedFacts
<1>8. \A k \in Sides : Lack(p, s, o, k) = 0 /\ Unit(u.red, o) \in {0, 1}
  BY <1>6 DEF Lack, Unit
<1>9. ASSUME NEW k \in Sides
      PROVE  /\ u[k][o] \in M \cup {Nil} /\ BlackOn(h, u[k][o]) \in Nat
             /\ BlackOn(h, u[k][o]) + Unit(u.red, o) = h[o]
  <2>1. BlackOn(h, u[k][o]) + Unit(u.red, o) + Lack(p, s, o, k) = h[o] /\ u[k][o] \in M \cup {Nil} /\ BlackOn(h, u[k][o]) \in Nat
    BY <1>2, <1>6
  <2> QED BY <1>8, <2>1
<1>10. ASSUME NEW x \in u.red PROVE u.up[x] # Nil /\ u.up[x] \notin u.red
  BY DEF Lacking, Reds
<1> QED BY <1>1, <1>2, <1>4, <1>5, <1>6, <1>7, <1>9, <1>10 DEF Siblings

\* SiblingRed: the red o goes up, p is red, and the sibling of nd is a child of o.
RedSiblingCase(u, M, nd, p, s, h, o, z, w, v) ==
    /\ s \in Sides /\ Lacking(u, nd, p, s, M, h) /\ o = u[Other(s)][p] /\ o \in u.red
    /\ IsColored(u, z, (u.red \ {o}) \cup {p})
    /\ w = u[s][o] /\ Rotated(z, v, p, s, o, w)

LEMMA RedSibling ==
    ASSUME NEW u, NEW D, Shape(u, D), NEW M, M = Members(u, D), NEW nd, NEW p, NEW s, NEW h, NEW o, NEW z, NEW w, NEW v,
           RedSiblingCase(u, M, nd, p, s, h, o, z, w, v)
    PROVE  /\ Shape(v, RotatedD(D, p, o, w)) /\ Members(v, RotatedD(D, p, o, w)) = M
           /\ \E f : EraseColours(v, nd, p, M, f)
<1> USE DEF RedSiblingCase
<1> PICK R : R = (u.red \ {o}) \cup {p}
  OBVIOUS
<1>0. Siblings(u, M, nd, p, s, h, o)
  BY LackingFacts
<1>1. (\A k \in Sides : z[k] = u[k]) /\ z.red = R /\ z.up = u.up /\ z.root = u.root
  BY DEF IsColored
<1>2. /\ o \in M /\ o # Nil /\ o # p /\ u.up[o] = p /\ nd # p /\ (nd = Nil \/ (nd \in M /\ u.up[nd] = p))
      /\ h \in [Nodes -> Nat] /\ M \subseteq Nodes /\ Nil \notin M /\ u.red \subseteq M
      /\ Other(s) \in Sides /\ Other(s) # s /\ Other(Other(s)) = s
      /\ \A x \in u.red : u.up[x] # Nil /\ u.up[x] \notin u.red
  BY <1>0 DEF Siblings
<1>3. p \in M /\ nd \notin u.red /\ u[s][p] = nd /\ nd # o
  BY DEF Lacking
<1>4. p \notin u.red /\ w \notin u.red /\ (w = Nil \/ (w \in M /\ u.up[w] = o)) /\ w # o /\ w # p
  <2>1. w = Nil \/ (w \in M /\ u.up[w] = o)
    BY <1>2, RedFacts
  <2>2. w # p
    BY <1>2, <1>3, <2>1, NotBoth
  <2> QED BY <1>2, <2>1, <2>2, RedFacts
<1>5. w # Nil
  <2>1. BlackOn(h, nd) + Unit(u.red, p) + 1 = h[p] /\ h[o] + Unit(u.red, p) = h[p]
        /\ BlackOn(h, w) + Unit(u.red, o) = h[o] /\ BlackOn(h, nd) \in Nat /\ BlackOn(h, w) \in Nat /\ h[o] \in Nat
    BY <1>0, <1>2 DEF Siblings
  <2>2. Unit(u.red, p) = 1 /\ Unit(u.red, o) = 0
    BY <1>4 DEF Unit
  <2>3. BlackOn(h, w) >= 1
    BY <2>1, <2>2
  <2> QED BY <2>3 DEF BlackOn
<1>6. Shape(z, D) /\ Members(z, D) = M
  BY <1>2, <1>3, ColoredShape
<1>7. Turns(z, D, p, s, o, w)
  BY <1>1, <1>2, <1>3, <1>6 DEF Turns
<1>8. Shape(v, RotatedD(D, p, o, w)) /\ Members(v, RotatedD(D, p, o, w)) = M
  BY <1>6, <1>7, TurnShape
<1>9. Heights(z, u.red, M, h, p, s)
  BY <1>1 DEF Lacking, Heights
<1>10. PICK f : Heights(v, v.red, M, f, p, s)
  <2>1. Swaps(z, u.red, p, s, o, p, s)
    BY <1>1, <1>2, <1>4 DEF Swaps
  <2> QED BY <1>6, <1>7, <1>9, <2>1, SwapHeights
<1>11. /\ v.red = R /\ v[s][p] = u[s][p] /\ v[Other(s)][p] = w
       /\ \A x \in Nodes : v.up[x] = IF x = p THEN o ELSE IF x = o THEN u.up[p]
                                     ELSE IF x = w THEN p ELSE u.up[x]
  BY <1>1 DEF Rotated
<1>12. Reds(v, v.red, nd, nd)
  <2> SUFFICES ASSUME NEW x \in R PROVE v.up[x] # Nil /\ v.up[x] \notin R
    BY <1>11 DEF Reds
  <2>1. x \in M /\ x \in Nodes /\ x # o /\ x # w
    BY <1>2, <1>3, <1>4, <1>5
  <2>2. CASE x = p
    BY <1>2, <1>11, <2>1, <2>2
  <2>3. CASE x # p
    <3>1. x \in u.red /\ u.up[x] # Nil /\ u.up[x] \notin u.red
      BY <1>2, <2>3
    <3>2. u.up[x] # p
      <4> SUFFICES ASSUME u.up[x] = p PROVE FALSE
        OBVIOUS
      <4>1. PICK j \in Sides : u[j][p] = x
        BY <2>1, <3>1, RedFacts
      <4> QED BY <1>3, <2>1, <3>1, <4>1, SidesFacts
    <3> QED BY <1>11, <2>1, <2>3, <3>1, <3>2
  <2> QED BY <2>2, <2>3
<1>13. v[s][p] = nd /\ v[Other(s)][p] # nd
  BY <1>2, <1>3, <1>4, <1>5, <1>11
<1>14. p # Nil
  BY <1>2, <1>3
<1>15. EraseColours(v, nd, p, M, f)
  <2>1. \E d \in Sides : v[d][p] = nd /\ v[Other(d)][p] # nd /\ Heights(v, v.red, M, f, p, d)
    BY <1>10, <1>13
  <2> QED BY <1>2, <1>3, <1>12, <1>14, <2>1 DEF EraseColours
<1> QED BY <1>8, <1>15

\* The first rotation of SiblingFixes: the red child i of the black o, on the
\* side of nd, takes the place of o.
FixInnerCase(u, M, nd, p, s, h, o, i, z, w, v) ==
    /\ s \in Sides /\ Lacking(u, nd, p, s, M, h) /\ o = u[Other(s)][p] /\ o \notin u.red
    /\ i = u[s][o] /\ i \in u.red /\ u[Other(s)][o] \notin u.red
    /\ IsColored(u, z, (u.red \ {i}) \cup {o})
    /\ w = u[Other(s)][i] /\ Rotated(z, v, o, Other(s), i, w)

LEMMA FixInner ==
    ASSUME NEW u, NEW D, Shape(u, D), NEW M, M = Members(u, D), NEW nd, NEW p, NEW s, NEW h, NEW o, NEW i, NEW z, NEW w, NEW v,
           FixInnerCase(u, M, nd, p, s, h, o, i, z, w, v)
    PROVE  /\ Shape(v, RotatedD(D, o, i, w)) /\ Members(v, RotatedD(D, o, i, w)) = M
           /\ \E f : Lacking(v, nd, p, s, M, f)
           /\ v[Other(s)][p] = i /\ i \notin v.red /\ v[Other(s)][i] = o /\ o \in v.red
<1>r. PICK R : R = (u.red \ {i}) \cup {o}
  OBVIOUS
<1>a. s \in Sides /\ Lacking(u, nd, p, s, M, h) /\ o = u[Other(s)][p] /\ o \notin u.red
  BY DEF FixInnerCase
<1>b. i = u[s][o] /\ i \in u.red /\ w = u[Other(s)][i]
  BY DEF FixInnerCase
<1>c. IsColored(u, z, R)
  BY <1>r DEF FixInnerCase
<1>d. Rotated(z, v, o, Other(s), i, w)
  BY DEF FixInnerCase
<1>0. Siblings(u, M, nd, p, s, h, o)
  BY <1>a, LackingFacts
<1>1. (\A k \in Sides : z[k] = u[k]) /\ z.red = R /\ z.up = u.up /\ z.root = u.root
  BY <1>c DEF IsColored
<1>2. /\ o \in M /\ o # Nil /\ o # p /\ u.up[o] = p /\ nd # p /\ (nd = Nil \/ (nd \in M /\ u.up[nd] = p))
      /\ h \in [Nodes -> Nat] /\ M \subseteq Nodes /\ Nil \notin M /\ u.red \subseteq M
      /\ Other(s) \in Sides /\ Other(s) # s /\ Other(Other(s)) = s
      /\ \A x \in u.red : u.up[x] # Nil /\ u.up[x] \notin u.red
  BY <1>0 DEF Siblings
<1>3. p \in M /\ nd \notin u.red /\ u[s][p] = nd /\ nd # o
  <2>1. u[s][p] = nd /\ u[Other(s)][p] # nd
    BY <1>a DEF Lacking
  <2> QED BY <1>a, <2>1 DEF Lacking
<1>4. i \in M /\ u.up[i] = o /\ i # o /\ i # Nil /\ i # p
  <2>1. i \in M /\ i # Nil /\ u.up[i] = o /\ i # o
    <3>1. o \in Members(u, D) /\ s \in Sides /\ i = u[s][o]
      BY <1>2, <1>a, <1>b
    <3>2. i # o /\ (i = Nil \/ (i \in Members(u, D) /\ u.up[i] = o))
      BY <3>1, ChildOf
    <3> QED BY <1>2, <1>b, <3>2
  <2>2. i # p
    BY <1>2, <1>3, <1>a, <1>b, <2>1, NotBoth
  <2> QED BY <2>1, <2>2
<1>5. w \notin u.red /\ (w = Nil \/ (w \in M /\ u.up[w] = i))
  <2>1. w = Nil \/ (w \in M /\ u.up[w] = i)
    <3>1. i \in Members(u, D) /\ Other(s) \in Sides /\ w = u[Other(s)][i]
      BY <1>2, <1>4, <1>b
    <3> QED BY <3>1, ChildOf
  <2>2. w \in u.red => u.up[w] # i
    BY <1>2, <1>b
  <2> QED BY <1>2, <2>1, <2>2
<1>6. Shape(z, D) /\ Members(z, D) = M
  <2>1. R \subseteq Members(u, D)
    BY <1>2, <1>r
  <2> QED BY <1>c, <2>1, ColoredShape
<1>7. Turns(z, D, o, Other(s), i, w)
  BY <1>1, <1>2, <1>4, <1>6, <1>a, <1>b DEF Turns
<1>8. Shape(v, RotatedD(D, o, i, w)) /\ Members(v, RotatedD(D, o, i, w)) = M
  BY <1>6, <1>7, <1>d, TurnShape
<1>9. Heights(z, u.red, M, h, p, s)
  <2>1. Heights(u, u.red, M, h, p, s)
    BY <1>a DEF Lacking
  <2> QED BY <1>1, <2>1 DEF Heights
<1>10. PICK f : Heights(v, v.red, M, f, p, s)
  <2>1. Swaps(z, u.red, o, Other(s), i, p, s)
    BY <1>1, <1>2, <1>4, <1>a, <1>b, <1>r DEF Swaps
  <2> QED BY <1>6, <1>7, <1>9, <1>d, <2>1, SwapHeights
<1>11. /\ v.red = R /\ v[Other(s)][i] = o
       /\ \A x \in Nodes : v.up[x] = IF x = o THEN i ELSE IF x = i THEN u.up[o]
                                     ELSE IF x = w THEN o ELSE u.up[x]
       /\ \A x \in Nodes \ {o, i}, k \in Sides : v[k][x] = IF u[k][x] = o THEN i ELSE u[k][x]
  <2>1. v.red = z.red /\ v[Other(s)][i] = o
        /\ (\A x \in Nodes : v.up[x] = IF x = o THEN i ELSE IF x = i THEN z.up[o]
                                        ELSE IF x = w THEN o ELSE z.up[x])
        /\ \A x \in Nodes \ {o, i}, k \in Sides : v[k][x] = IF z[k][x] = o THEN i ELSE z[k][x]
    BY <1>d DEF Rotated
  <2>2. v.red = R /\ (\A x \in Nodes : v.up[x] = IF x = o THEN i ELSE IF x = i THEN u.up[o]
                                        ELSE IF x = w THEN o ELSE u.up[x])
    <3>1. v.red = R
      BY <1>1, <2>1
    <3>2. ASSUME NEW x \in Nodes
          PROVE  v.up[x] = IF x = o THEN i ELSE IF x = i THEN u.up[o] ELSE IF x = w THEN o ELSE u.up[x]
      <4>1. z.up = u.up
        BY <1>1
      <4>2. v.up[x] = IF x = o THEN i ELSE IF x = i THEN z.up[o] ELSE IF x = w THEN o ELSE z.up[x]
        BY <2>1
      <4> QED BY <4>1, <4>2
    <3> QED BY <3>1, <3>2
  <2>3. ASSUME NEW x \in Nodes \ {o, i}, NEW k \in Sides PROVE v[k][x] = IF u[k][x] = o THEN i ELSE u[k][x]
    <3>1. z[k][x] = u[k][x]
      BY <1>1
    <3>2. v[k][x] = IF z[k][x] = o THEN i ELSE z[k][x]
      BY <2>1
    <3> QED BY <3>1, <3>2
  <2> QED BY <2>1, <2>2, <2>3
<1>n. u[Other(s)][o] \notin u.red
  BY DEF FixInnerCase
<1>12. Reds(v, v.red, nd, nd)
  <2> SUFFICES ASSUME NEW x \in R PROVE v.up[x] # Nil /\ v.up[x] \notin R
    BY <1>11 DEF Reds
  <2>1. x \in M /\ x \in Nodes /\ x # i
    BY <1>2, <1>4, <1>r
  <2>2. CASE x = o
    BY <1>4, <1>11, <1>r, <2>1, <2>2
  <2>3. CASE x # o
    <3>1. x \in u.red /\ u.up[x] # Nil /\ u.up[x] \notin u.red /\ x # w
      BY <1>2, <1>5, <1>r, <2>3
    <3>2. u.up[x] # o
      <4> SUFFICES ASSUME u.up[x] = o PROVE FALSE
        OBVIOUS
      <4>1. PICK j \in Sides : u[j][o] = x
        <5>1. \A y \in M : u.up[y] # Nil => \E k \in Sides : u[k][u.up[y]] = y
          BY RedFacts
        <5>2. u.up[x] # Nil
          BY <3>1
        <5> QED BY <2>1, <5>1, <5>2
      <4>2. j = s \/ j = Other(s)
        BY <1>a, SidesFacts
      <4> QED BY <1>b, <2>1, <3>1, <4>1, <4>2, <1>n
    <3>3. v.up[x] = u.up[x] /\ u.up[x] \notin R
      BY <1>11, <1>r, <2>1, <2>3, <3>1, <3>2
    <3> QED BY <3>1, <3>3
  <2> QED BY <2>2, <2>3
<1>13. v[s][p] = nd /\ v[Other(s)][p] = i /\ i # nd
  <2>1. p \in Nodes \ {o, i}
    BY <1>2, <1>3, <1>4
  <2>2. \A k \in Sides : v[k][p] = IF u[k][p] = o THEN i ELSE u[k][p]
    BY <1>11, <2>1
  <2>3. i # nd
    BY <1>3, <1>b
  <2> QED BY <1>2, <1>3, <1>a, <2>2, <2>3
<1>14. Lacking(v, nd, p, s, M, f)
  BY <1>2, <1>3, <1>10, <1>11, <1>12, <1>13, <1>r DEF Lacking
<1> QED BY <1>4, <1>8, <1>11, <1>13, <1>14, <1>r

\* The last rotation: with the red child r of the black o outside, o takes the
\* place and the colour of p, and p and r are black.
FixOuterCase(u, M, nd, p, s, h, o, r, z, w, v) ==
    /\ s \in Sides /\ Lacking(u, nd, p, s, M, h) /\ o = u[Other(s)][p] /\ o \notin u.red
    /\ r = u[Other(s)][o] /\ r \in u.red
    /\ IsColored(u, z, (IF p \in u.red THEN u.red \cup {o} ELSE u.red \ {o}) \ {p, r})
    /\ w = u[s][o] /\ Rotated(z, v, p, s, o, w)

LEMMA FixOuter ==
    ASSUME NEW u, NEW D, Shape(u, D), NEW M, M = Members(u, D), NEW nd, NEW p, NEW s, NEW h, NEW o, NEW r, NEW z, NEW w, NEW v,
           FixOuterCase(u, M, nd, p, s, h, o, r, z, w, v)
    PROVE  /\ Shape(v, RotatedD(D, p, o, w)) /\ Members(v, RotatedD(D, p, o, w)) = M
           /\ \E f : IdleColours(v, M, f)
<1> USE DEF FixOuterCase
<1> PICK R : R = (IF p \in u.red THEN u.red \cup {o} ELSE u.red \ {o}) \ {p, r}
  OBVIOUS
<1>0. Siblings(u, M, nd, p, s, h, o)
  BY LackingFacts
<1>1. (\A k \in Sides : z[k] = u[k]) /\ z.red = R /\ z.up = u.up /\ z.root = u.root
  BY DEF IsColored
<1>2. /\ o \in M /\ o # Nil /\ o # p /\ u.up[o] = p /\ nd # p /\ (nd = Nil \/ (nd \in M /\ u.up[nd] = p))
      /\ h \in [Nodes -> Nat] /\ M \subseteq Nodes /\ Nil \notin M /\ u.red \subseteq M
      /\ Other(s) \in Sides /\ Other(s) # s /\ Other(Other(s)) = s
      /\ \A x \in u.red : u.up[x] # Nil /\ u.up[x] \notin u.red
  BY <1>0 DEF Siblings
<1>3. p \in M /\ nd \notin u.red /\ u[s][p] = nd /\ nd # o
  BY DEF Lacking
<1>4. r \in M /\ u.up[r] = o /\ r # o /\ r # Nil /\ r # p /\ r # w
  <2>1. r \in M /\ r # Nil /\ u.up[r] = o /\ r # o
    BY <1>2, RedFacts
  <2>2. r # p
    BY <1>2, <1>3, <2>1, NotBoth
  <2>3. r # w
    <3>1. PICK j \in Sides : u[j][o] = r /\ u[Other(j)][o] # r
      BY <1>2, <2>1, RedFacts
    <3> QED BY <3>1, SidesFacts
  <2> QED BY <2>1, <2>2, <2>3
<1>5. w = Nil \/ (w \in M /\ u.up[w] = o)
  BY <1>2, RedFacts
<1>6. Shape(z, D) /\ Members(z, D) = M
  <2>1. R \subseteq M
    BY <1>2
  <2> QED BY <2>1, ColoredShape
<1>7. Turns(z, D, p, s, o, w)
  BY <1>1, <1>2, <1>3, <1>6 DEF Turns
<1>8. Shape(v, RotatedD(D, p, o, w)) /\ Members(v, RotatedD(D, p, o, w)) = M
  BY <1>6, <1>7, TurnShape
<1>9. Heights(z, u.red, M, h, p, s)
  BY <1>1 DEF Lacking, Heights
<1>10. PICK f : f = [h EXCEPT ![o] = h[p], ![p] = h[o], ![r] = h[r] + 1]
  OBVIOUS
<1>11. f \in [Nodes -> Nat] /\ f[o] = h[p] /\ f[p] = h[o] /\ f[r] = h[r] + 1 /\ \A x \in Nodes \ {o, p, r} : f[x] = h[x]
  <2>1. o \in Nodes /\ p \in Nodes /\ r \in Nodes
    BY <1>2, <1>3, <1>4
  <2>2. h[o] \in Nat /\ h[p] \in Nat /\ h[r] + 1 \in Nat
    BY <1>2, <2>1
  <2> QED BY <1>2, <1>4, <1>10, <2>1, <2>2
<1>12. /\ BlackOn(h, nd) + Unit(u.red, p) + 1 = h[p] /\ h[o] + Unit(u.red, p) = h[p]
       /\ BlackOn(h, w) + 1 = h[o] /\ BlackOn(h, r) + 1 = h[o]
       /\ BlackOn(h, nd) \in Nat /\ BlackOn(h, w) \in Nat /\ BlackOn(h, r) \in Nat /\ h[o] \in Nat /\ h[p] \in Nat
  <2>1. Unit(u.red, o) = 1
    BY DEF Unit
  <2>2. \A k \in Sides : BlackOn(h, u[k][o]) \in Nat /\ BlackOn(h, u[k][o]) + Unit(u.red, o) = h[o]
    BY <1>0, <1>2 DEF Siblings
  <2>3. BlackOn(h, nd) + Unit(u.red, p) + 1 = h[p] /\ h[o] + Unit(u.red, p) = h[p]
        /\ BlackOn(h, nd) \in Nat /\ h[o] \in Nat /\ h[p] \in Nat
    BY <1>0, <1>2 DEF Siblings
  <2> QED BY <1>2, <2>1, <2>2, <2>3
<1>13. /\ Unit(R, p) = 1 /\ Unit(R, o) = Unit(u.red, p) /\ Unit(u.red, p) \in {0, 1} /\ Unit(R, r) = 1 /\ Unit(u.red, r) = 0
       /\ \A k \in Sides : Lack(Nil, "left", p, k) = 0 /\ Lack(Nil, "left", o, k) = 0
       /\ BlackOn(h, r) = h[r] /\ BlackOn(f, r) = h[r] + 1
  BY <1>2, <1>3, <1>4, <1>11 DEF Unit, Lack, BlackOn
<1>14. Turned(z, u.red, M, h, p, s, f, Nil, "left", p, s, o)
  <2>1. /\ z[s][p] = nd /\ z[s][o] = w /\ z[Other(s)][o] = r
    BY <1>1, <1>2, <1>3
  <2>2. \A x \in M \ {p, o, r} : f[x] = h[x] /\ (x \in z.red <=> x \in u.red)
    BY <1>1, <1>2, <1>11
  <2>3. f[r] + Unit(u.red, r) = h[r] + Unit(R, r)
    BY <1>11, <1>12, <1>13
  <2>4. \A x \in M \ {p, o}, k \in Sides : Lack(p, s, x, k) = Lack(Nil, "left", x, k)
    BY <1>2 DEF Lack
  <2>5. BlackOn(h, nd) + Unit(R, p) + Lack(Nil, "left", p, s) = f[p]
    BY <1>11, <1>12, <1>13
  <2>6. BlackOn(h, w) + Unit(R, p) + Lack(Nil, "left", p, Other(s)) = f[p]
    BY <1>2, <1>11, <1>12, <1>13
  <2>7. f[p] + Unit(R, o) + Lack(Nil, "left", o, s) = f[o]
    BY <1>11, <1>12, <1>13
  <2>8. BlackOn(f, r) + Unit(R, o) + Lack(Nil, "left", o, Other(s)) = f[o]
    BY <1>2, <1>11, <1>12, <1>13
  <2> QED BY <1>1, <1>11, <2>1, <2>2, <2>3, <2>4, <2>5, <2>6, <2>7, <2>8 DEF Turned
<1>15. Heights(v, v.red, M, f, Nil, "left")
  BY <1>6, <1>7, <1>9, <1>14, TurnHeights
<1>16. /\ v.red = R
       /\ \A x \in Nodes : v.up[x] = IF x = p THEN o ELSE IF x = o THEN u.up[p]
                                     ELSE IF x = w THEN p ELSE u.up[x]
  BY <1>1 DEF Rotated
<1>17. Reds(v, v.red, Nil, Nil)
  <2> SUFFICES ASSUME NEW x \in R PROVE v.up[x] # Nil /\ v.up[x] \notin R
    BY <1>16 DEF Reds
  <2>1. x \in M /\ x \in Nodes /\ x # p /\ x # r
    BY <1>2
  <2>2. CASE x = o
    <3>1. p \in u.red
      BY <2>2
    <3>2. u.up[p] # Nil /\ u.up[p] \notin u.red
      BY <1>2, <3>1
    <3>3. u.up[p] # o
      <4> SUFFICES ASSUME u.up[p] = o PROVE FALSE
        OBVIOUS
      <4> QED BY <1>2, <1>3, NotBoth
    <3> QED BY <1>16, <2>1, <2>2, <3>2, <3>3
  <2>3. CASE x # o
    <3>1. x \in u.red /\ u.up[x] # Nil /\ u.up[x] \notin u.red
      BY <1>2, <2>3
    <3>2. CASE x = w
      BY <1>2, <1>3, <1>16, <2>1, <2>3, <3>2
    <3>3. CASE x # w
      <4>1. u.up[x] # o
        <5> SUFFICES ASSUME u.up[x] = o PROVE FALSE
          OBVIOUS
        <5>1. PICK j \in Sides : u[j][o] = x
          BY <2>1, <3>1, RedFacts
        <5> QED BY <2>1, <3>3, <5>1, SidesFacts
      <4> QED BY <1>16, <2>1, <2>3, <3>1, <3>3, <4>1
    <3> QED BY <3>2, <3>3
  <2> QED BY <2>2, <2>3
<1> QED BY <1>8, <1>15, <1>17 DEF IdleColours

-----------------------------------------------------------------------------
(* Unlinking, and the ends. *)

\* If n is red nothing is lacking when it is cut out, otherwise one black node
\* is, where n was.
LEMMA CutColours ==
    ASSUME NEW u, NEW D, Shape(u, D), NEW M, M = Members(u, D), NEW n \in M, NEW c, NEW v, NEW r \in Sides,
           u[r][n] = c, u[Other(r)][n] = Nil, IsCut(u, v, n, c), NEW h, IdleColours(u, M, h)
    PROVE  /\ n \in u.red => IdleColours(v, M \ {n}, h)
           /\ n \notin u.red => EraseColours(v, c, u.up[n], M \ {n}, h)
<1>1. /\ v.red = u.red \ {n}
      /\ v.root = (IF n = u.root THEN c ELSE u.root)
      /\ \A x \in Nodes : v.up[x] = IF x = n THEN Nil ELSE IF x = c THEN u.up[n] ELSE u.up[x]
      /\ \A x \in Nodes \ {n}, k \in Sides : v[k][x] = IF u[k][x] = n THEN c ELSE u[k][x]
  BY DEF IsCut
<1>2. /\ M \subseteq Nodes /\ Nil \notin M /\ u.red \subseteq M /\ h \in [Nodes -> Nat]
      /\ (\A x \in M, k \in Sides : BlackOn(h, u[k][x]) + Unit(u.red, x) = h[x])
      /\ \A x \in u.red : u.up[x] # Nil /\ u.up[x] \notin u.red
  <2>1. \A x \in M, k \in Sides : Lack(Nil, "left", x, k) = 0
    BY MemberFacts DEF Lack
  <2>2. h \in [Nodes -> Nat]
        /\ \A x \in M, k \in Sides : BlackOn(h, u[k][x]) + Unit(u.red, x) + Lack(Nil, "left", x, k) = h[x]
    BY DEF IdleColours, Heights
  <2>3. M \subseteq Nodes /\ Nil \notin M /\ u.red \subseteq M
    BY RedFacts
  <2>4. \A x \in M, k \in Sides : BlackOn(h, u[k][x]) \in Nat /\ Unit(u.red, x) \in Nat
    BY <2>2, <2>3, RedFacts DEF BlackOn, Unit
  <2>5. \A x \in u.red : u.up[x] # Nil /\ u.up[x] \notin u.red
    BY <2>3 DEF IdleColours, Reds
  <2>6. ASSUME NEW x \in M, NEW k \in Sides PROVE BlackOn(h, u[k][x]) + Unit(u.red, x) = h[x]
    <3>1. Lack(Nil, "left", x, k) = 0 /\ BlackOn(h, u[k][x]) \in Nat /\ Unit(u.red, x) \in Nat
          /\ BlackOn(h, u[k][x]) + Unit(u.red, x) + Lack(Nil, "left", x, k) = h[x]
      BY <2>1, <2>2, <2>4
    <3> QED BY <3>1
  <2> QED BY <2>2, <2>3, <2>5, <2>6
<1>3. c # n /\ (c = Nil \/ (c \in M /\ u.up[c] = n))
  BY ChildOf
<1>4. \A x \in M \ {n} : u.up[x] = n => x = c
  <2> SUFFICES ASSUME NEW x \in M \ {n}, u.up[x] = n PROVE x = c
    OBVIOUS
  <2>1. PICK j \in Sides : u[j][n] = x
    BY <1>2, RedFacts
  <2> QED BY <1>2, <2>1, SidesFacts
<1>5. BlackOn(h, c) + Unit(u.red, n) = h[n] /\ BlackOn(h, c) \in Nat /\ h[n] \in Nat
  BY <1>2, <1>3 DEF BlackOn
<1>6. ASSUME NEW x \in M \ {n}, NEW k \in Sides, n \in u.red \/ u[k][x] # n
      PROVE  BlackOn(h, v[k][x]) + Unit(v.red, x) = h[x]
  <2>1. Unit(v.red, x) = Unit(u.red, x) /\ v[k][x] = IF u[k][x] = n THEN c ELSE u[k][x]
    BY <1>1, <1>2 DEF Unit
  <2>2. BlackOn(h, v[k][x]) = BlackOn(h, u[k][x])
    <3>1. CASE u[k][x] = n
      <4>1. Unit(u.red, n) = 0
        BY <1>6, <3>1 DEF Unit
      <4>2. BlackOn(h, n) = h[n]
        BY <1>2 DEF BlackOn
      <4> QED BY <1>5, <2>1, <3>1, <4>1, <4>2
    <3>2. CASE u[k][x] # n
      BY <2>1, <3>2
    <3> QED BY <3>1, <3>2
  <2> QED BY <1>2, <2>1, <2>2
<1>7. \A x \in v.red : x # n /\ (x = c \/ (v.up[x] # Nil /\ v.up[x] \notin v.red))
  <2> SUFFICES ASSUME NEW x \in v.red, x # c PROVE x # n /\ v.up[x] # Nil /\ v.up[x] \notin v.red
    BY <1>1, <1>3
  <2>1. x \in u.red /\ x # n /\ x \in Nodes
    BY <1>1, <1>2
  <2> QED BY <1>1, <1>2, <2>1
<1>8. \A x \in M \ {n}, k \in Sides : Lack(Nil, "left", x, k) = 0
  BY <1>2 DEF Lack
<1>9. \A x \in M \ {n} : h[x] \in Nat
  BY <1>2
<1>10. ASSUME n \in u.red PROVE IdleColours(v, M \ {n}, h)
  <2>1. c \notin u.red
    BY <1>2, <1>3, <1>10
  <2>2. Reds(v, v.red, Nil, Nil)
    BY <1>1, <1>7, <2>1 DEF Reds
  <2>3. \A x \in M \ {n}, k \in Sides : BlackOn(h, v[k][x]) + Unit(v.red, x) + Lack(Nil, "left", x, k) = h[x]
    BY <1>6, <1>8, <1>9, <1>10
  <2>4. Heights(v, v.red, M \ {n}, h, Nil, "left")
    BY <1>2, <2>3 DEF Heights
  <2> QED BY <2>2, <2>4 DEF IdleColours
<1>11. ASSUME n \notin u.red PROVE EraseColours(v, c, u.up[n], M \ {n}, h)
  <2>1. Reds(v, v.red, c, c)
    BY <1>7 DEF Reds
  <2>2. CASE u.up[n] = Nil
    <3>1. n = u.root
      BY <2>2, RedFacts
    <3>2. \A x \in M, k \in Sides : u[k][x] # n
      BY <1>2, <2>2, RedFacts
    <3>3. \A x \in M \ {n}, k \in Sides : BlackOn(h, v[k][x]) + Unit(v.red, x) + Lack(Nil, "left", x, k) = h[x]
      BY <1>6, <1>8, <1>9, <3>2
    <3>4. Heights(v, v.red, M \ {n}, h, Nil, "left")
      BY <1>2, <3>3 DEF Heights
    <3> QED BY <1>1, <1>3, <2>1, <2>2, <3>1, <3>4 DEF EraseColours
  <2>3. CASE u.up[n] # Nil
    <3> PICK p : p = u.up[n]
      OBVIOUS
    <3>1. p \in M /\ p # n /\ p # Nil
      BY <2>3, RedFacts
    <3>2. PICK d \in Sides : u[d][p] = n /\ u[Other(d)][p] # n
      BY <2>3, RedFacts
    <3>3. \A x \in M, k \in Sides : u[k][x] = n => x = p /\ k = d
      <4>1. \A x \in M, k \in Sides : u[k][x] = n => x = p
        BY <1>2, RedFacts
      <4> QED BY <3>2, <4>1, SidesFacts
    <3>4. Other(d) \in Sides /\ Other(d) # d
      BY SidesFacts
    <3>5. v[d][p] = c /\ v[Other(d)][p] = u[Other(d)][p]
      BY <1>1, <1>2, <3>1, <3>2, <3>4
    <3>6. BlackOn(h, n) = h[n] /\ Unit(u.red, n) = 1
      BY <1>2, <1>11 DEF BlackOn, Unit
    <3>7. BlackOn(h, n) + Unit(u.red, p) = h[p] /\ BlackOn(h, u[Other(d)][p]) + Unit(u.red, p) = h[p]
      BY <1>2, <3>1, <3>2, <3>4
    <3>8. u[Other(d)][p] # c
      <4>1. BlackOn(h, u[Other(d)][p]) >= 1
        <5>1. BlackOn(h, u[Other(d)][p]) \in Nat /\ Unit(u.red, p) \in Nat
          BY <1>2, <3>1, <3>4, RedFacts DEF BlackOn, Unit
        <5> QED BY <1>5, <3>6, <3>7, <5>1
      <4>2. u[Other(d)][p] # Nil
        BY <4>1 DEF BlackOn
      <4>3. u.up[u[Other(d)][p]] = p
        BY <3>1, <3>4, <4>2, RedFacts
      <4> QED BY <1>3, <3>1, <4>2, <4>3
    <3>9. ASSUME NEW x \in M \ {n}, NEW k \in Sides
          PROVE  BlackOn(h, v[k][x]) + Unit(v.red, x) + Lack(p, d, x, k) = h[x]
      <4>1. CASE x = p /\ k = d
        <5>1. Unit(v.red, p) = Unit(u.red, p) /\ Lack(p, d, x, k) = 1 /\ Unit(u.red, p) \in Nat
          BY <1>1, <3>1, <4>1 DEF Unit, Lack
        <5> QED BY <1>5, <3>5, <3>6, <3>7, <4>1, <5>1
      <4>2. CASE ~(x = p /\ k = d)
        <5>1. Lack(p, d, x, k) = 0
          BY <4>2 DEF Lack
        <5>2. BlackOn(h, v[k][x]) + Unit(v.red, x) = h[x]
          BY <1>6, <3>3, <4>2
        <5> QED BY <1>9, <5>1, <5>2
      <4> QED BY <4>1, <4>2
    <3>10. Heights(v, v.red, M \ {n}, h, p, d)
      BY <1>2, <3>9 DEF Heights
    <3>11. p # Nil /\ p \in M \ {n} /\ v[d][p] = c /\ v[Other(d)][p] # c
      BY <3>1, <3>5, <3>8
    <3> QED BY <1>3, <2>1, <3>10, <3>11 DEF EraseColours
  <2> QED BY <2>2, <2>3
<1> QED BY <1>10, <1>11

\* m takes the place and the colour of n, so that it has its height.
Moved(h, f, n, m, p, q) ==
    f = [h EXCEPT ![m] = h[n]] /\ p # m /\ q = (IF p = n THEN m ELSE p)

LEMMA PutHeights ==
    ASSUME NEW u, NEW D, Shape(u, D), NEW M, M = Members(u, D), NEW n \in M, NEW m \in Nodes \ M, NEW v,
           IsPut(u, v, n, m), NEW h, NEW p, NEW d, Heights(u, u.red, M, h, p, d),
           NEW q, NEW f, Moved(h, f, n, m, p, q)
    PROVE  Heights(v, v.red, (M \ {n}) \cup {m}, f, q, d)
<1>0. f = [h EXCEPT ![m] = h[n]] /\ p # m /\ q = (IF p = n THEN m ELSE p)
  BY DEF Moved
<1>1. /\ v.red = (IF n \in u.red THEN (u.red \ {n}) \cup {m} ELSE u.red \ {n})
      /\ \A k \in Sides : v[k][m] = u[k][n]
      /\ \A x \in Nodes \ {n, m}, k \in Sides : v[k][x] = IF u[k][x] = n THEN m ELSE u[k][x]
  BY DEF IsPut
<1>2. M \subseteq Nodes /\ Nil \notin M /\ u.red \subseteq M /\ h \in [Nodes -> Nat] /\ n \in Nodes /\ m # n /\ m # Nil
  BY RedFacts, NilFacts DEF Heights
<1>3. f \in [Nodes -> Nat] /\ f[m] = h[n] /\ \A x \in Nodes \ {m} : f[x] = h[x]
  BY <1>0, <1>2
<1>4. \A y \in M \cup {Nil} : BlackOn(f, IF y = n THEN m ELSE y) = BlackOn(h, y)
  BY <1>2, <1>3 DEF BlackOn
<1>5. ASSUME NEW x \in M, NEW k \in Sides
      PROVE  /\ u[k][x] \in M \cup {Nil} /\ u[k][x] # x
             /\ BlackOn(h, u[k][x]) + Unit(u.red, x) + Lack(p, d, x, k) = h[x]
  BY RedFacts DEF Heights
<1>6. ASSUME NEW k \in Sides PROVE BlackOn(f, v[k][m]) + Unit(v.red, m) + Lack(q, d, m, k) = f[m]
  <2>1. BlackOn(f, v[k][m]) = BlackOn(h, u[k][n])
    BY <1>1, <1>4, <1>5
  <2>2. Unit(v.red, m) = Unit(u.red, n) /\ Lack(q, d, m, k) = Lack(p, d, n, k)
    BY <1>0, <1>1, <1>2 DEF Unit, Lack
  <2> QED BY <1>3, <1>5, <2>1, <2>2
<1>7. ASSUME NEW x \in M \ {n}, NEW k \in Sides PROVE BlackOn(f, v[k][x]) + Unit(v.red, x) + Lack(q, d, x, k) = f[x]
  <2>1. x \in Nodes \ {n, m}
    BY <1>2
  <2>2. BlackOn(f, v[k][x]) = BlackOn(h, u[k][x])
    BY <1>1, <1>4, <1>5, <2>1
  <2>3. Unit(v.red, x) = Unit(u.red, x) /\ Lack(q, d, x, k) = Lack(p, d, x, k)
    BY <1>0, <1>1, <2>1 DEF Unit, Lack
  <2> QED BY <1>3, <1>5, <2>1, <2>2, <2>3
<1> QED BY <1>3, <1>6, <1>7 DEF Heights

LEMMA PutReds ==
    ASSUME NEW u, NEW D, Shape(u, D), NEW M, M = Members(u, D), NEW n \in M, NEW m \in Nodes \ M, NEW v,
           IsPut(u, v, n, m), NEW e, e # n, e = Nil \/ e \in M, Reds(u, u.red, e, e)
    PROVE  Reds(v, v.red, e, e)
<1>1. /\ v.red = (IF n \in u.red THEN (u.red \ {n}) \cup {m} ELSE u.red \ {n})
      /\ \A x \in Nodes : v.up[x] = IF x = m THEN u.up[n] ELSE IF x = n THEN Nil
                                    ELSE IF u.up[x] = n THEN m ELSE u.up[x]
  BY DEF IsPut
<1>2. M \subseteq Nodes /\ Nil \notin M /\ u.red \subseteq M /\ n \in Nodes /\ m # n /\ m # Nil
      /\ \A x \in M : u.up[x] \in M \cup {Nil} /\ u.up[x] # x
  BY RedFacts, NilFacts
<1>3. ASSUME NEW x \in v.red, x # e PROVE v.up[x] # Nil /\ (v.up[x] \notin v.red \/ v.up[x] = e)
  <2>1. CASE x = m
    <3>1. n \in u.red
      BY <1>1, <1>2, <2>1
    <3>2. u.up[n] # Nil /\ (u.up[n] \notin u.red \/ u.up[n] = e)
      BY <3>1 DEF Reds
    <3> QED BY <1>1, <1>2, <2>1, <3>2
  <2>2. CASE x # m
    <3>1. x \in u.red /\ x # n /\ x \in M /\ x \in Nodes
      BY <1>1, <1>2, <2>2
    <3>2. u.up[x] # Nil /\ (u.up[x] \notin u.red \/ u.up[x] = e)
      BY <1>3, <3>1 DEF Reds
    <3>3. v.up[x] = IF u.up[x] = n THEN m ELSE u.up[x]
      BY <1>1, <2>2, <3>1
    <3> QED BY <1>1, <1>2, <3>1, <3>2, <3>3
  <2> QED BY <2>1, <2>2
<1> QED BY <1>3 DEF Reds

LEMMA PutColours ==
    ASSUME NEW u, NEW D, Shape(u, D), NEW M, M = Members(u, D), NEW n \in M, NEW m \in Nodes \ M, NEW v,
           IsPut(u, v, n, m), NEW h, NEW e, NEW p, NEW q, q = IF p = n THEN m ELSE p, e # n, p # m
    PROVE  /\ IdleColours(u, M, h) => \E f : IdleColours(v, (M \ {n}) \cup {m}, f)
           /\ EraseColours(u, e, p, M, h) => \E f : EraseColours(v, e, q, (M \ {n}) \cup {m}, f)
<1> PICK f : f = [h EXCEPT ![m] = h[n]]
  OBVIOUS
<1>1. Nil \notin M /\ M \subseteq Nodes /\ m # n /\ m # Nil /\ n # Nil
  BY RedFacts, NilFacts
<1>4. Moved(h, f, n, m, p, q) /\ Moved(h, f, n, m, Nil, Nil)
  BY <1>1 DEF Moved
<1>2. ASSUME IdleColours(u, M, h) PROVE IdleColours(v, (M \ {n}) \cup {m}, f)
  <2>1. Heights(u, u.red, M, h, Nil, "left") /\ Reds(u, u.red, Nil, Nil)
    BY <1>2 DEF IdleColours
  <2>2. Heights(v, v.red, (M \ {n}) \cup {m}, f, Nil, "left")
    BY <1>4, <2>1, PutHeights
  <2>3. Reds(v, v.red, Nil, Nil)
    BY <1>1, <2>1, PutReds
  <2> QED BY <2>2, <2>3 DEF IdleColours
<1>3. ASSUME EraseColours(u, e, p, M, h) PROVE EraseColours(v, e, q, (M \ {n}) \cup {m}, f)
  <2>1. Reds(u, u.red, e, e) /\ (e = Nil \/ e \in M)
    BY <1>3 DEF EraseColours
  <2>2. Reds(v, v.red, e, e) /\ (e = Nil \/ e \in (M \ {n}) \cup {m})
    BY <2>1, PutReds
  <2>3. CASE p = Nil
    <3>1. e = u.root /\ Heights(u, u.red, M, h, Nil, "left") /\ q = Nil
      BY <1>1, <1>3, <2>3 DEF EraseColours
    <3>2. v.root = e
      BY <3>1 DEF IsPut
    <3>3. Heights(v, v.red, (M \ {n}) \cup {m}, f, Nil, "left")
      BY <1>4, <3>1, PutHeights
    <3> QED BY <2>2, <3>1, <3>2, <3>3 DEF EraseColours
  <2>4. CASE p # Nil
    <3>1. PICK d \in Sides : u[d][p] = e /\ u[Other(d)][p] # e /\ Heights(u, u.red, M, h, p, d)
      BY <1>3, <2>4 DEF EraseColours
    <3>2. p \in M
      BY <1>3, <2>4 DEF EraseColours
    <3>3. Heights(v, v.red, (M \ {n}) \cup {m}, f, q, d)
      BY <1>4, <3>1, PutHeights
    <3>4. v[d][q] = e /\ v[Other(d)][q] # e
      <4>1. /\ \A k \in Sides : v[k][m] = u[k][n]
            /\ \A x \in Nodes \ {n, m}, k \in Sides : v[k][x] = IF u[k][x] = n THEN m ELSE u[k][x]
        BY DEF IsPut
      <4>2. Other(d) \in Sides /\ e # m
        BY <1>1, <2>1, SidesFacts
      <4>3. CASE p = n
        BY <3>1, <4>1, <4>2, <4>3
      <4>4. CASE p # n
        BY <1>1, <3>1, <3>2, <4>1, <4>2, <4>4
      <4> QED BY <4>3, <4>4
    <3>5. q # Nil /\ q \in (M \ {n}) \cup {m}
      BY <1>1, <2>4, <3>2
    <3> QED BY <2>2, <3>3, <3>4, <3>5 DEF EraseColours
  <2> QED BY <2>3, <2>4
<1> QED BY <1>2, <1>3

\* A new node is an end if it is beyond all the others.
LEMMA EndsInsert ==
    ASSUME NEW M \in SUBSET Nodes, NEW n \in Nodes \ M, NEW e, NEW a, EndsOf(e, M),
           \A s \in Sides : a[s] = n \/ a[s] = e[s],
           \A s \in Sides : a[s] = n => \A w \in M : On(s, n, w),
           \A s \in Sides : a[s] # n => M # {} /\ \E w \in M : On(Other(s), n, w)
    PROVE  EndsOf(a, M \cup {n})
<1> SUFFICES ASSUME NEW s \in Sides PROVE IsOuter(a[s], M \cup {n}, s)
  BY DEF EndsOf
<1>1. CASE a[s] = n
  BY <1>1 DEF IsOuter
<1>2. CASE a[s] # n
  <2>1. a[s] = e[s] /\ M # {} /\ IsOuter(e[s], M, s)
    BY <1>2 DEF EndsOf
  <2>2. PICK w \in M : On(Other(s), n, w)
    BY <1>2
  <2>3. On(s, w, n)
    BY <2>2, OnFacts
  <2>4. On(s, e[s], n)
    BY <2>1, <2>2, <2>3, OnFacts DEF IsOuter
  <2> QED BY <2>1, <2>4 DEF IsOuter
<1> QED BY <1>1, <1>2

\* If an end goes, its neighbour is the end.
LEMMA EndsErase ==
    ASSUME NEW M \in SUBSET Nodes, NEW n \in M, NEW e, NEW a, NEW z, EndsOf(e, M), Nil \notin M,
           \A s \in Sides : a[s] = IF e[s] = n THEN z[s] ELSE e[s],
           \A s \in Sides : IsNext(z[s], M, {n}, Other(s))
    PROVE  EndsOf(a, M \ {n})
<1> SUFFICES ASSUME NEW s \in Sides
             PROVE  IF M \ {n} = {} THEN a[s] = Nil ELSE IsOuter(a[s], M \ {n}, s)
  BY DEF EndsOf
<1>1. IsOuter(e[s], M, s) /\ Other(s) \in Sides
  BY SidesFacts DEF EndsOf
<1>2. CASE e[s] # n
  BY <1>1, <1>2 DEF IsOuter
<1>3. CASE e[s] = n
  <2>1. a[s] = z[s] /\ IsNext(z[s], M, {n}, Other(s))
    BY <1>3
  <2>2. \A w \in M \ {n} : Beyond(w, M, {n}, Other(s))
    BY <1>1, <1>3, OnFacts DEF IsOuter, Beyond
  <2>3. \A w \in M : Beyond(w, M, {n}, Other(s)) => w # n
    BY OnFacts, <1>1 DEF Beyond
  <2>4. CASE z[s] = Nil /\ \A w \in M : ~Beyond(w, M, {n}, Other(s))
    BY <2>1, <2>2, <2>4
  <2>5. CASE Beyond(z[s], M, {n}, Other(s)) /\ \A w \in M : Beyond(w, M, {n}, Other(s)) => w = z[s] \/ On(Other(s), w, z[s])
    <3>1. z[s] \in M \ {n}
      BY <2>3, <2>5 DEF Beyond
    <3>2. \A w \in M \ {n} : w = z[s] \/ On(s, z[s], w)
      BY <2>2, <2>5, <3>1, OnFacts
    <3> QED BY <2>1, <3>1, <3>2 DEF IsOuter
  <2> QED BY <2>1, <2>4, <2>5 DEF IsNext
<1> QED BY <1>2, <1>3

-----------------------------------------------------------------------------
(* Every step keeps the invariant. *)

LEMMA InitIInv == Init => IInv
<1> SUFFICES ASSUME Init PROVE IInv
  OBVIOUS
<1> PICK D, h : D = [x \in Nodes |-> {}] /\ h = [x \in Nodes |-> 0]
  OBVIOUS
<1>1. t = Empty /\ ends = [s \in Sides |-> Nil] /\ pc = "idle" /\ node = Nil /\ parent = Nil
  BY DEF Init
<1>2. /\ t \in TreeType /\ t.root = Nil /\ t.red = {}
      /\ \A x \in Nodes : t.up[x] = Nil /\ t.left[x] = Nil /\ t.right[x] = Nil
  BY <1>1 DEF Empty, TreeType, MaybeNode
<1>3. Members(t, D) = {}
  BY <1>2 DEF Members, Below
<1>4. Shape(t, D)
  BY <1>2, <1>3 DEF Shape
<1>5. EndsOf(ends, {})
  BY <1>1 DEF EndsOf
<1>6. h \in [Nodes -> Nat]
  OBVIOUS
<1>7. IdleColours(t, {}, h)
  BY <1>2, <1>6 DEF IdleColours, Heights, Reds
<1> QED BY <1>1, <1>3, <1>4, <1>5, <1>7 DEF IInv, IInvFor, Colours

\* What the invariant says of the tree.
LEMMA StateFacts ==
    ASSUME NEW D, NEW h, IInvFor(D, h), NEW M, M = Members(t, D)
    PROVE  /\ Shape(t, D) /\ t \in TreeType /\ M \subseteq Nodes /\ Nil \notin M /\ EndsOf(ends, M)
           /\ pc = "idle" => node = Nil /\ parent = Nil /\ IdleColours(t, M, h)
           /\ pc = "insert_color" => InsertColours(t, node, M, h)
           /\ pc = "erase_color" => EraseColours(t, node, parent, M, h)
           /\ NodesIn(t) = M /\ \A n \in Nodes : Linked(t, n) <=> n \in M
<1>1. Shape(t, D) /\ EndsOf(ends, M) /\ Colours(t, pc, node, parent, M, h)
  BY DEF IInvFor
<1>2. t \in TreeType /\ M \subseteq Nodes /\ Nil \notin M
  BY <1>1, RedFacts
<1>3. NodesIn(t) = M
  BY <1>1, NodesInIs
<1> QED BY <1>1, <1>2, <1>3 DEF Colours, NodesIn

\* Steps that only recolour or rotate.
LEMMA SameNodes ==
    ASSUME NEW D, NEW h, IInvFor(D, h), NEW v, v = t', NEW E, Shape(v, E), Members(v, E) = Members(t, D),
           NEW f, UNCHANGED ends, Colours(v, pc', node', parent', Members(t, D), f)
    PROVE  IInv' /\ NodesIn(t') = NodesIn(t)
<1>1. EndsOf(ends', Members(t, D)) /\ Shape(t, D)
  BY DEF IInvFor
<1>2. NodesIn(t) = Members(t, D)
  BY <1>1, NodesInIs
<1> QED BY <1>1, <1>2, Keeps

LEMMA InsertIInv ==
    ASSUME IInv, NEW n \in Nodes, Insert(n)
    PROVE  IInv' /\ n \notin NodesIn(t) /\ NodesIn(t') = NodesIn(t) \cup {n}
<1> PICK D, h : IInvFor(D, h)
  BY DEF IInv
<1> PICK M : M = Members(t, D)
  OBVIOUS
<1> PICK d : d = Descent(t, n)
  OBVIOUS
<1> PICK p, s : p = d.at /\ s = d.side
  OBVIOUS
<1>1. /\ pc = "idle" /\ ~Linked(t, n) /\ s # "none"
      /\ t' = LinkNode(t, n, p, s)
      /\ ends' = [k \in Sides |-> IF Other(k) \notin d.taken THEN n ELSE ends[k]]
      /\ pc' = "insert_color" /\ node' = n
  BY DEF Insert
<1>2. /\ Shape(t, D) /\ t \in TreeType /\ M \subseteq Nodes /\ Nil \notin M /\ EndsOf(ends, M)
      /\ IdleColours(t, M, h) /\ n \notin M /\ NodesIn(t) = M
  BY <1>1, StateFacts
<1>3. t.root = Nil <=> M = {}
  BY <1>2, MemberFacts DEF Shape, Members, Below
<1>4. /\ p \in MaybeNode /\ p # n /\ (p = Nil => t.root = Nil)
      /\ ((p = Nil /\ s = "root") \/ (p # Nil /\ s \in Sides))
      /\ (p # Nil => /\ p \in M /\ s \in Sides /\ t[s][p] = Nil /\ On(s, n, p)
                     /\ \A y \in M, k \in Sides : p \in Below(D, t[k][y]) => On(k, n, y))
      /\ \A k \in Sides : /\ Other(k) \notin d.taken => \A w \in M : On(k, n, w)
                          /\ Other(k) \in d.taken => \E w \in M : On(Other(k), n, w)
  <2>1. CASE t.root = Nil
    <3>1. d = [at |-> Nil, side |-> "root", taken |-> {}]
      BY <2>1 DEF Descent
    <3>2. p = Nil /\ s = "root" /\ d.taken = {}
      BY <3>1
    <3> QED BY <1>2, <1>3, <2>1, <3>2, NilFacts DEF MaybeNode
  <2>2. CASE t.root # Nil
    <3>1. DescentEnds(t, D, n, d, t.root, {})
      BY <1>2, <2>2, DescentIs
    <3>2. M = D[t.root]
      BY <2>2 DEF Members, Below
    <3>3. p \in M /\ p # Nil /\ p # n /\ p \in MaybeNode
      BY <1>2, <3>1, <3>2 DEF DescentEnds, MaybeNode
    <3>4. /\ s \in Sides /\ t[s][p] = Nil /\ On(s, n, p)
          /\ \A y \in M, k \in Sides : p \in Below(D, t[k][y]) => On(k, n, y)
      BY <1>1, <3>1, <3>2 DEF DescentEnds
    <3>5. \A k \in Sides : /\ Other(k) \notin d.taken => \A w \in M : On(k, n, w)
                           /\ Other(k) \in d.taken => \E w \in M : On(Other(k), n, w)
      BY <1>1, <3>1, <3>2 DEF DescentEnds
    <3> QED BY <3>3, <3>4, <3>5
  <2> QED BY <2>1, <2>2
<1> PICK v : v = t'
  OBVIOUS
<1>5. IsLinked(t, v, n, p, s)
  BY <1>1, <1>2, <1>4, LinkLinks
<1>6. Shape(v, LinkD(D, n, p)) /\ Members(v, LinkD(D, n, p)) = M \cup {n}
  BY <1>2, <1>4, <1>5, LinkShape
<1>7. PICK f : InsertColours(v, n, M \cup {n}, f)
  BY <1>2, <1>4, <1>5, LinkColours
<1>8. EndsOf(ends', M \cup {n})
  <2>1. \A k \in Sides : ends'[k] = IF Other(k) \notin d.taken THEN n ELSE ends[k]
    BY <1>1
  <2>2. \A k \in Sides : ends'[k] = n \/ ends'[k] = ends[k]
    BY <2>1
  <2>3. \A k \in Sides : ends'[k] # n => M # {} /\ \E w \in M : On(Other(k), n, w)
    BY <1>4, <2>1
  <2>4. \A k \in Sides : ends'[k] = n => \A w \in M : On(k, n, w)
    <3> SUFFICES ASSUME NEW k \in Sides, ends'[k] = n PROVE Other(k) \notin d.taken
      BY <1>4
    <3> SUFFICES ASSUME Other(k) \in d.taken PROVE FALSE
      OBVIOUS
    <3>1. ends[k] = n /\ M # {}
      BY <1>4, <2>1
    <3>2. ends[k] \in M
      BY <1>2, <3>1 DEF EndsOf, IsOuter
    <3> QED BY <1>2, <3>1, <3>2
  <2> PICK a : a = ends'
    OBVIOUS
  <2>5. EndsOf(a, M \cup {n})
    BY <1>2, <2>2, <2>3, <2>4, EndsInsert
  <2> QED BY <2>5
<1>9. Colours(v, pc', node', parent', M \cup {n}, f)
  BY <1>1, <1>7 DEF Colours
<1> QED BY <1>2, <1>6, <1>8, <1>9, Keeps

LEMMA EndInsertIInv ==
    ASSUME IInv, EndInsert
    PROVE  IInv' /\ NodesIn(t') = NodesIn(t)
<1> PICK D, h : IInvFor(D, h)
  BY DEF IInv
<1> PICK M, v, R : M = Members(t, D) /\ v = t' /\ R = t.red \ {t.root}
  OBVIOUS
<1>1. /\ pc = "insert_color" /\ t.up[node] \notin t.red /\ v = [t EXCEPT !.red = R]
      /\ pc' = "idle" /\ node' = Nil /\ parent' = Nil /\ UNCHANGED ends
  BY DEF EndInsert, Done, IsBlack
<1>2. Shape(t, D) /\ t \in TreeType /\ M \subseteq Nodes /\ Nil \notin M /\ InsertColours(t, node, M, h) /\ t.red \subseteq M
  BY <1>1, StateFacts, RedFacts
<1>3. IsColored(t, v, R)
  BY <1>1, <1>2, ColoredLinks
<1>4. Shape(v, D) /\ Members(v, D) = M
  BY <1>2, <1>3, ColoredShape
<1>5. PICK f : Heights(v, v.red, M, f, Nil, "left")
  BY <1>2, <1>3, BlackenRoot DEF InsertColours
<1>6. Reds(v, v.red, Nil, Nil)
  <2>1. v.red = R /\ v.up = t.up
    BY <1>3 DEF IsColored
  <2>2. \A x \in R : t.up[x] # Nil
    BY <1>2, RedFacts
  <2>3. \A x \in R : x = node \/ t.up[x] \notin t.red \/ t.up[x] = Nil
    BY <1>2 DEF InsertColours, Reds
  <2> QED BY <1>1, <2>1, <2>2, <2>3 DEF Reds
<1>7. Colours(v, pc', node', parent', M, f)
  BY <1>1, <1>5, <1>6 DEF Colours, IdleColours
<1> QED BY <1>1, <1>4, <1>7, SameNodes

LEMMA RecolorUncleIInv ==
    ASSUME IInv, NEW s \in Sides, RecolorUncle(s)
    PROVE  IInv' /\ NodesIn(t') = NodesIn(t)
<1> PICK D, h : IInvFor(D, h)
  BY DEF IInv
<1> PICK M, v : M = Members(t, D) /\ v = t'
  OBVIOUS
<1>p. PICK p : p = t.up[node]
  OBVIOUS
<1>g. PICK g : g = t.up[p]
  OBVIOUS
<1>c. PICK c : c = t[Other(s)][g]
  OBVIOUS
<1>1. /\ pc = "insert_color" /\ p # Nil /\ p \in t.red /\ t[s][g] = p /\ c \in t.red
      /\ v = [t EXCEPT !.red = (t.red \ {c, p}) \cup {g}] /\ node' = g /\ UNCHANGED <<ends, pc, parent>>
  BY <1>p, <1>g, <1>c DEF RecolorUncle, InsertRound, IsRed
<1>2. Shape(t, D) /\ t \in TreeType /\ M \subseteq Nodes /\ Nil \notin M /\ InsertColours(t, node, M, h) /\ t.red \subseteq M
  BY <1>1, StateFacts, RedFacts
<1>3. g \in M
  <2>1. \A x \in M : t.up[x] \in M \cup {Nil} /\ (t.up[x] = Nil <=> x = t.root)
    BY <1>2, RedFacts
  <2>2. node \in M /\ \A x \in t.red : x # node => t.up[x] # Nil
    BY <1>2 DEF InsertColours, Reds
  <2>3. p # node /\ p \in M
    <3>1. node \in M => t.up[node] # node
      BY <1>2, RedFacts
    <3> QED BY <1>1, <1>2, <1>p, <2>2, <3>1
  <2> QED BY <1>1, <1>g, <2>1, <2>2, <2>3
<1>4. UncleCase(t, v, s, node, p, g, c)
  <2>1. (t.red \ {c, p}) \cup {g} \in SUBSET Nodes
    BY <1>2, <1>3
  <2>2. IsColored(t, v, (t.red \ {c, p}) \cup {g})
    BY <1>1, <1>2, <2>1, ColoredLinks
  <2> QED BY <1>1, <1>p, <1>g, <1>c, <2>2 DEF UncleCase
<1>5. Shape(v, D) /\ Members(v, D) = M
  <2>1. IsColored(t, v, (t.red \ {c, p}) \cup {g}) /\ (t.red \ {c, p}) \cup {g} \subseteq M
    BY <1>2, <1>3, <1>4 DEF UncleCase
  <2> QED BY <1>2, <2>1, ColoredShape
<1>6. PICK f : InsertColours(v, g, M, f)
  BY <1>2, <1>4, UncleColours
<1>7. Colours(v, pc', node', parent', M, f)
  BY <1>1, <1>6 DEF Colours
<1> QED BY <1>1, <1>5, <1>7, SameNodes

LEMMA RotateGrandparentIInv ==
    ASSUME IInv, NEW s \in Sides, RotateGrandparent(s)
    PROVE  IInv' /\ NodesIn(t') = NodesIn(t)
<1> PICK D, h : IInvFor(D, h)
  BY DEF IInv
<1> PICK M, v : M = Members(t, D) /\ v = t'
  OBVIOUS
<1> PICK p : p = t.up[node]
  OBVIOUS
<1> PICK g : g = t.up[p]
  OBVIOUS
<1>u. PICK u, top : /\ u = (IF t[Other(s)][p] = node THEN Rotate(t, p, s) ELSE t)
                  /\ top = (IF t[Other(s)][p] = node THEN node ELSE p)
  OBVIOUS
<1>r. PICK R : R = (u.red \ {top}) \cup {g}
  OBVIOUS
<1>z. PICK z : z = [u EXCEPT !.red = R]
  OBVIOUS
<1>1. /\ pc = "insert_color" /\ p # Nil /\ p \in t.red /\ t[s][g] = p /\ t[Other(s)][g] \notin t.red
      /\ v = Rotate(z, g, Other(s))
      /\ node' = (IF t[Other(s)][p] = node THEN p ELSE node)
      /\ UNCHANGED <<ends, pc, parent>>
  BY <1>u, <1>r, <1>z DEF RotateGrandparent, InsertRound, IsRed, IsBlack
<1>2. Shape(t, D) /\ t \in TreeType /\ M \subseteq Nodes /\ Nil \notin M /\ InsertColours(t, node, M, h) /\ t.red \subseteq M
  BY <1>1, StateFacts, RedFacts
<1>3. node \in M /\ p # node /\ p \in M /\ Other(s) \in Sides /\ Other(Other(s)) = s
  BY <1>1, <1>2, RedFacts, SidesFacts DEF InsertColours
<1>4. g \in M /\ g \notin t.red
  BY <1>1, <1>2, <1>3, RedFacts DEF InsertColours, Reds
\* After the first rotation, if there was one, e is outside its red parent top.
<1>5. PICK E, f, e : /\ Shape(u, E) /\ Members(u, E) = M /\ InsertColours(u, e, M, f) /\ e = node'
                     /\ u.up[e] = top /\ top \in u.red /\ u[s][top] = e /\ u.up[top] = g /\ u[s][g] = top
                     /\ u[Other(s)][g] \notin u.red
  <2>1. CASE t[Other(s)][p] = node
    <3> PICK w : w = t[s][node]
      OBVIOUS
    <3>1. u = Rotate(t, p, s) /\ top = node /\ node' = p
      BY <1>u, <1>1, <2>1
    <3>2. Rotated(t, u, p, s, node, w)
      <4>1. t[Other(s)][p] # Nil /\ p \in Members(t, D)
        BY <1>2, <1>3, <2>1
      <4>2. Rotated(t, Rotate(t, p, s), p, s, t[Other(s)][p], t[s][t[Other(s)][p]])
        BY <1>2, <4>1, RotateLinks
      <4> QED BY <2>1, <3>1, <4>2
    <3>3. /\ Shape(u, RotatedD(D, p, node, w)) /\ Members(u, RotatedD(D, p, node, w)) = M
          /\ (\E f : InsertColours(u, p, M, f)) /\ InnerDone(t, u, p, node, g, s)
      <4>1. InnerCase(t, M, h, node, s, p, g, w, u)
        BY <1>1, <1>2, <1>3, <2>1, <3>2 DEF InnerCase, UncleBlack
      <4> QED BY <1>2, <4>1, InnerColours
    <3> QED BY <3>1, <3>3 DEF InnerDone
  <2>2. CASE t[Other(s)][p] # node
    <3>1. u = t /\ top = p /\ node' = node
      BY <1>u, <1>1, <2>2
    <3>2. t[s][p] = node
      <4>1. PICK j \in Sides : t[j][p] = node
        BY <1>1, <1>2, <1>3, ParentOf
      <4> QED BY <2>2, <4>1, SidesFacts
    <3> QED BY <1>1, <1>2, <3>1, <3>2
  <2> QED BY <2>1, <2>2
<1>6. u \in TreeType /\ u.red \subseteq M
  BY <1>5, RedFacts
<1>7. IsColored(u, z, R)
  <2>1. R \in SUBSET Nodes
    BY <1>2, <1>4, <1>6, <1>r
  <2> QED BY <1>6, <1>z, <2>1, ColoredLinks
<1>8. Shape(z, E) /\ Members(z, E) = M
  <2>1. R \subseteq Members(u, E)
    BY <1>4, <1>5, <1>6, <1>r
  <2> QED BY <1>5, <1>7, <2>1, ColoredShape
<1>w. PICK w : w = u[Other(s)][top]
  OBVIOUS
<1>9. Rotated(z, v, g, Other(s), top, w)
  <2>1. z[s][g] = top /\ z[Other(s)][top] = w /\ top # Nil /\ top \in M
    <3>1. z[s] = u[s] /\ z[Other(s)] = u[Other(s)]
      BY <1>3, <1>7 DEF IsColored
    <3> QED BY <1>2, <1>5, <1>6, <1>w, <3>1
  <2>2. g \in Members(z, E) /\ z[Other(Other(s))][g] # Nil
    BY <1>3, <1>4, <1>8, <2>1
  <2>3. Rotated(z, Rotate(z, g, Other(s)), g, Other(s), z[Other(Other(s))][g], z[Other(s)][z[Other(Other(s))][g]])
    BY <1>3, <1>8, <2>2, RotateLinks
  <2> QED BY <1>1, <1>3, <2>1, <2>3
<1>10. /\ Shape(v, RotatedD(E, g, top, w)) /\ Members(v, RotatedD(E, g, top, w)) = M
       /\ \E i : InsertColours(v, e, M, i)
  <2>1. OuterCase(u, M, f, e, s, top, g, z, w, v)
    BY <1>5, <1>7, <1>9, <1>r, <1>w DEF OuterCase, UncleBlack
  <2>2. M = Members(u, E) /\ Shape(u, E)
    BY <1>5
  <2> QED BY <2>1, <2>2, OuterColours
<1>f. PICK F : F = RotatedD(E, g, top, w)
  OBVIOUS
<1>11. PICK i : InsertColours(v, e, M, i)
  BY <1>10
<1>12. Colours(v, pc', node', parent', M, i)
  BY <1>1, <1>5, <1>11 DEF Colours
<1>13. Shape(v, F) /\ Members(v, F) = Members(t, D) /\ UNCHANGED ends
  BY <1>1, <1>10, <1>f
<1> QED BY <1>12, <1>13, SameNodes

LEMMA EndEraseIInv ==
    ASSUME IInv, EndErase
    PROVE  IInv' /\ NodesIn(t') = NodesIn(t)
<1> PICK D, h : IInvFor(D, h)
  BY DEF IInv
<1> PICK M, v, R : M = Members(t, D) /\ v = t' /\ R = t.red \ {node}
  OBVIOUS
<1>1. /\ pc = "erase_color" /\ (node \in t.red \/ node = t.root) /\ v = [t EXCEPT !.red = R]
      /\ pc' = "idle" /\ node' = Nil /\ parent' = Nil /\ UNCHANGED ends
  BY DEF EndErase, Done, IsRed
<1>2. Shape(t, D) /\ t \in TreeType /\ M \subseteq Nodes /\ Nil \notin M /\ EraseColours(t, node, parent, M, h) /\ t.red \subseteq M
  BY <1>1, StateFacts, RedFacts
<1>3. IsColored(t, v, R)
  <2>1. R \in SUBSET Nodes
    BY <1>2
  <2> QED BY <1>1, <1>2, <2>1, ColoredLinks
<1>4. Shape(v, D) /\ Members(v, D) = M
  BY <1>2, <1>3, ColoredShape
<1>5. PICK f : Heights(v, v.red, M, f, Nil, "left")
  <2>1. CASE parent = Nil
    <3>1. node = t.root /\ Heights(t, t.red, M, h, Nil, "left")
      BY <1>2, <2>1 DEF EraseColours
    <3>2. R = t.red \ {t.root}
      BY <3>1
    <3> QED BY <1>2, <1>3, <3>1, <3>2, BlackenRoot
  <2>2. CASE parent # Nil
    <3>1. PICK d \in Sides : t[d][parent] = node /\ Heights(t, t.red, M, h, parent, d)
      BY <1>2, <2>2 DEF EraseColours
    <3>2. parent \in M
      BY <1>2, <2>2 DEF EraseColours
    <3>3. node \in t.red
      <4> SUFFICES ASSUME node = t.root PROVE FALSE
        BY <1>1
      <4>1. t.root \in M /\ t.root # Nil
        BY <1>2, <3>2, MemberFacts
      <4>2. t.up[node] = parent
        BY <1>2, <3>1, <3>2, <4>1, RedFacts
      <4>3. t.up[node] = Nil
        BY <1>2, <4>1, RedFacts
      <4> QED BY <2>2, <4>2, <4>3
    <3> QED BY <1>2, <1>3, <3>1, <3>2, <3>3, BlackenChild
  <2> QED BY <2>1, <2>2
<1>6. Reds(v, v.red, Nil, Nil)
  <2>1. v.red = R /\ v.up = t.up
    BY <1>3 DEF IsColored
  <2>2. \A x \in t.red : x = node \/ (t.up[x] # Nil /\ (t.up[x] \notin t.red \/ t.up[x] = node))
    BY <1>2 DEF EraseColours, Reds
  <2> QED BY <2>1, <2>2 DEF Reds
<1>7. Colours(v, pc', node', parent', M, f)
  BY <1>1, <1>5, <1>6 DEF Colours, IdleColours
<1> QED BY <1>1, <1>4, <1>7, SameNodes

\* What a round of __rb_erase_color finds.
LEMMA RoundFacts ==
    ASSUME NEW D, NEW h, IInvFor(D, h), NEW s \in Sides, EraseRound(s), NEW M, M = Members(t, D)
    PROVE  /\ Shape(t, D) /\ t \in TreeType /\ M \subseteq Nodes /\ Nil \notin M /\ t.red \subseteq M
           /\ Lacking(t, node, parent, s, M, h)
<1>1. pc = "erase_color" /\ node \notin t.red /\ node # t.root
      /\ s = IF t.left[parent] = node THEN "left" ELSE "right"
  BY DEF EraseRound, IsBlack
<1>2. Shape(t, D) /\ t \in TreeType /\ M \subseteq Nodes /\ Nil \notin M /\ EraseColours(t, node, parent, M, h) /\ t.red \subseteq M
  BY <1>1, StateFacts, RedFacts
<1>3. parent # Nil
  BY <1>1, <1>2 DEF EraseColours
<1>4. PICK d \in Sides : t[d][parent] = node /\ t[Other(d)][parent] # node /\ Heights(t, t.red, M, h, parent, d)
  BY <1>2, <1>3 DEF EraseColours
<1>5. s = d
  BY <1>1, <1>2, <1>4, Links, SidesFacts DEF Sides
<1> QED BY <1>1, <1>2, <1>3, <1>4, <1>5 DEF EraseColours, Lacking

LEMMA SiblingBlackIInv ==
    ASSUME IInv, NEW s \in Sides, SiblingBlack(s)
    PROVE  IInv' /\ NodesIn(t') = NodesIn(t)
<1> PICK D, h : IInvFor(D, h)
  BY DEF IInv
<1> PICK M, v : M = Members(t, D) /\ v = t'
  OBVIOUS
<1> PICK o : o = t[Other(s)][parent]
  OBVIOUS
<1> PICK R : R = t.red \cup {o}
  OBVIOUS
<1>1. /\ pc = "erase_color" /\ EraseRound(s) /\ o \notin t.red /\ t.left[o] \notin t.red /\ t.right[o] \notin t.red
      /\ v = [t EXCEPT !.red = R] /\ node' = parent /\ parent' = t.up[parent] /\ UNCHANGED <<ends, pc>>
  BY DEF SiblingBlack, EraseRound, IsBlack, Sibling
<1>2. /\ Shape(t, D) /\ t \in TreeType /\ M \subseteq Nodes /\ Nil \notin M /\ t.red \subseteq M
      /\ Lacking(t, node, parent, s, M, h)
  BY <1>1, RoundFacts
<1>3. o \in M
  <2>1. Siblings(t, M, node, parent, s, h, o)
    BY <1>2, LackingFacts
  <2> QED BY <2>1 DEF Siblings
<1>4. IsColored(t, v, R)
  <2>1. R \in SUBSET Nodes
    BY <1>2, <1>3
  <2> QED BY <1>1, <1>2, <2>1, ColoredLinks
<1>5. Shape(v, D) /\ Members(v, D) = M
  BY <1>2, <1>3, <1>4, ColoredShape
<1>6. PICK f : EraseColours(v, parent, t.up[parent], M, f)
  <2>1. \A k \in Sides : t[k][o] \notin t.red
    BY <1>1, <1>2, Links DEF Sides
  <2>2. /\ node \notin t.red /\ Reds(t, t.red, node, node)
        /\ parent \in M /\ t[s][parent] = node /\ t[Other(s)][parent] # node
        /\ Heights(t, t.red, M, h, parent, s)
    BY <1>2 DEF Lacking
  <2> QED BY <1>1, <1>2, <1>4, <2>1, <2>2, SiblingColours
<1>7. Colours(v, pc', node', parent', M, f)
  BY <1>1, <1>6 DEF Colours
<1> QED BY <1>1, <1>5, <1>7, SameNodes

\* The rotation of p, with z the tree in its new colours.
TurnHere(u, M, R, z, p, s, o, w) ==
    /\ R \subseteq M /\ z = [u EXCEPT !.red = R] /\ p \in M /\ s \in Sides
    /\ o = u[Other(s)][p] /\ o # Nil /\ w = u[s][o]

LEMMA TurnedTree ==
    ASSUME NEW u, NEW E, Shape(u, E), NEW M, M = Members(u, E), NEW R, NEW z, NEW p, NEW s, NEW o, NEW w,
           TurnHere(u, M, R, z, p, s, o, w)
    PROVE  IsColored(u, z, R) /\ Rotated(z, Rotate(z, p, s), p, s, o, w)
<1> USE DEF TurnHere
<1>1. u \in TreeType /\ M \subseteq Nodes
  BY RedFacts
<1>2. IsColored(u, z, R)
  BY <1>1, ColoredLinks
<1>3. Shape(z, E) /\ Members(z, E) = M
  BY <1>2, ColoredShape
<1>4. z[Other(s)][p] = o /\ z[s][o] = w /\ p \in Members(z, E) /\ z[Other(s)][p] # Nil
  <2>1. z[s] = u[s] /\ z[Other(s)] = u[Other(s)]
    BY <1>2, SidesFacts DEF IsColored
  <2> QED BY <1>3, <2>1
<1>5. Rotated(z, Rotate(z, p, s), p, s, z[Other(s)][p], z[s][z[Other(s)][p]])
  BY <1>3, <1>4, RotateLinks
<1> QED BY <1>2, <1>4, <1>5

LEMMA SiblingRedIInv ==
    ASSUME IInv, NEW s \in Sides, SiblingRed(s)
    PROVE  IInv' /\ NodesIn(t') = NodesIn(t)
<1> PICK D, h : IInvFor(D, h)
  BY DEF IInv
<1> PICK M, v : M = Members(t, D) /\ v = t'
  OBVIOUS
<1> PICK o : o = t[Other(s)][parent]
  OBVIOUS
<1> PICK w : w = t[s][o]
  OBVIOUS
<1> PICK R : R = (t.red \ {o}) \cup {parent}
  OBVIOUS
<1> PICK z : z = [t EXCEPT !.red = R]
  OBVIOUS
<1>1. /\ pc = "erase_color" /\ EraseRound(s) /\ o \in t.red
      /\ v = Rotate(z, parent, s) /\ UNCHANGED <<ends, pc, node, parent>>
  BY DEF SiblingRed, EraseRound, IsRed, Sibling
<1>2. /\ Shape(t, D) /\ t \in TreeType /\ M \subseteq Nodes /\ Nil \notin M /\ t.red \subseteq M
      /\ Lacking(t, node, parent, s, M, h)
  BY <1>1, RoundFacts
<1>3. parent \in M /\ o \in M /\ o # Nil
  BY <1>1, <1>2 DEF Lacking
<1>4. IsColored(t, z, R)
  <2>1. R \in SUBSET Nodes
    BY <1>2, <1>3
  <2> QED BY <1>2, <2>1, ColoredLinks
<1>5. Shape(z, D) /\ Members(z, D) = M
  BY <1>2, <1>3, <1>4, ColoredShape
<1>6. Rotated(z, v, parent, s, o, w)
  <2>1. z[Other(s)][parent] = o /\ z[s][o] = w /\ parent \in Members(z, D) /\ z[Other(s)][parent] # Nil
    <3>1. z[s] = t[s] /\ z[Other(s)] = t[Other(s)]
      BY <1>4, SidesFacts DEF IsColored
    <3> QED BY <1>3, <1>5, <3>1
  <2>2. Rotated(z, Rotate(z, parent, s), parent, s, z[Other(s)][parent], z[s][z[Other(s)][parent]])
    BY <1>5, <2>1, RotateLinks
  <2> QED BY <1>1, <2>1, <2>2
<1>7. /\ Shape(v, RotatedD(D, parent, o, w)) /\ Members(v, RotatedD(D, parent, o, w)) = M
      /\ \E f : EraseColours(v, node, parent, M, f)
  <2>1. RedSiblingCase(t, M, node, parent, s, h, o, z, w, v)
    BY <1>1, <1>2, <1>4, <1>6 DEF RedSiblingCase
  <2> QED BY <1>2, <2>1, RedSibling
<1> PICK E : E = RotatedD(D, parent, o, w)
  OBVIOUS
<1>8. PICK f : EraseColours(v, node, parent, M, f)
  BY <1>7
<1>9. Colours(v, pc', node', parent', M, f)
  BY <1>1, <1>8 DEF Colours
<1>10. Shape(v, E) /\ Members(v, E) = Members(t, D) /\ UNCHANGED ends
  BY <1>1, <1>7
<1> QED BY <1>9, <1>10, SameNodes

LEMMA SiblingFixesIInv ==
    ASSUME IInv, NEW s \in Sides, SiblingFixes(s)
    PROVE  IInv' /\ NodesIn(t') = NodesIn(t)
<1> PICK D, h : IInvFor(D, h)
  BY DEF IInv
<1> PICK M : M = Members(t, D)
  OBVIOUS
<1> PICK o : o = t[Other(s)][parent]
  OBVIOUS
<1>ir. PICK i, r : i = t[s][o] /\ r = Other(s)
  OBVIOUS
<1>s. PICK S : S = (t.red \ {i}) \cup {o}
  OBVIOUS
<1>x. PICK x : x = [t EXCEPT !.red = S]
  OBVIOUS
<1>u. PICK u : u = IF t[r][o] \in t.red THEN t ELSE Rotate(x, o, r)
  OBVIOUS
<1>o1. PICK o1 : o1 = u[r][parent]
  OBVIOUS
<1>q. PICK q : q = u[r][o1]
  OBVIOUS
<1>r. PICK R : R = (IF parent \in u.red THEN u.red \cup {o1} ELSE u.red \ {o1}) \ {parent, q}
  OBVIOUS
<1>z. PICK z : z = [u EXCEPT !.red = R]
  OBVIOUS
<1>v. PICK v : v = Rotate(z, parent, s)
  OBVIOUS
<1>1. /\ pc = "erase_color" /\ EraseRound(s) /\ o \notin t.red
      /\ (\E k \in {"left", "right"} : t[k][o] \in t.red)
      /\ t' = [v EXCEPT !.red = v.red \ {v.root}] /\ pc' = "idle" /\ node' = Nil /\ parent' = Nil /\ UNCHANGED ends
  <2> DEFINE oo == Sibling(s)
  <2> DEFINE uu == IF IsRed(t, t[Other(s)][oo]) THEN t
                   ELSE Rotate([t EXCEPT !.red = (t.red \ {t[s][oo]}) \cup {oo}], oo, Other(s))
  <2> DEFINE o2 == uu[Other(s)][parent]
  <2> DEFINE vv == [uu EXCEPT !.red = (IF IsRed(uu, parent) THEN uu.red \cup {o2} ELSE uu.red \ {o2})
                                         \ {parent, uu[Other(s)][o2]}]
  <2> DEFINE ww == Rotate(vv, parent, s)
  <2>1. /\ EraseRound(s) /\ IsBlack(t, oo) /\ (\E k \in {"left", "right"} : IsRed(t, t[k][oo]))
        /\ t' = [ww EXCEPT !.red = ww.red \ {ww.root}] /\ UNCHANGED ends
        /\ pc' = "idle" /\ node' = Nil /\ parent' = Nil
    BY DEF SiblingFixes, Done
  <2>2. oo = o
    BY DEF Sibling
  <2> HIDE DEF oo
  <2>3. uu = u
    BY <2>2, <1>ir, <1>s, <1>x, <1>u DEF IsRed
  <2> HIDE DEF uu
  <2>4. o2 = o1
    BY <2>3, <1>ir, <1>o1
  <2> HIDE DEF o2
  <2>5. vv = z
    BY <2>3, <2>4, <1>ir, <1>q, <1>r, <1>z DEF IsRed
  <2> HIDE DEF vv
  <2>6. ww = v
    BY <2>5, <1>v
  <2> HIDE DEF ww
  <2>7. pc = "erase_color"
    BY <2>1 DEF EraseRound
  <2> QED BY <2>1, <2>2, <2>6, <2>7 DEF IsRed, IsBlack
<1>2. /\ Shape(t, D) /\ t \in TreeType /\ M \subseteq Nodes /\ Nil \notin M /\ t.red \subseteq M
      /\ Lacking(t, node, parent, s, M, h)
  BY <1>1, RoundFacts
<1>3. parent \in M /\ o \in M /\ o # Nil /\ r \in Sides /\ Other(r) = s
  <2>1. Siblings(t, M, node, parent, s, h, o)
    BY <1>2, LackingFacts
  <2> QED BY <1>2, <1>ir, <2>1, SidesFacts DEF Siblings, Lacking
\* After the first rotation, if there was one, the red child of the sibling is outside.
<1>4. PICK E, f : /\ Shape(u, E) /\ Members(u, E) = M /\ Lacking(u, node, parent, s, M, f)
                  /\ o1 \notin u.red /\ q \in u.red
  <2>1. CASE t[r][o] \in t.red
    BY <1>1, <1>2, <1>ir, <1>u, <1>o1, <1>q, <2>1
  <2>2. CASE t[r][o] \notin t.red
    <3>1. i \in t.red
      BY <1>1, <1>2, <1>ir, <2>2, SidesFacts DEF Sides
    <3>w. PICK w : w = t[r][i]
      OBVIOUS
    <3>2. S \subseteq M /\ i # Nil /\ i = t[Other(r)][o]
      BY <1>2, <1>3, <1>ir, <1>s, <3>1
    <3>3. IsColored(t, x, S) /\ Rotated(x, Rotate(x, o, r), o, r, i, w)
      <4>1. TurnHere(t, M, S, x, o, r, i, w)
        BY <1>3, <1>x, <3>2, <3>w DEF TurnHere
      <4> QED BY <1>2, <4>1, TurnedTree
    <3>4. u = Rotate(x, o, r)
      BY <1>u, <2>2
    <3>5. FixInnerCase(t, M, node, parent, s, h, o, i, x, w, u)
      BY <1>1, <1>2, <1>ir, <1>s, <2>2, <3>1, <3>3, <3>4, <3>w DEF FixInnerCase
    <3>6. /\ Shape(u, RotatedD(D, o, i, w)) /\ Members(u, RotatedD(D, o, i, w)) = M
          /\ \E f : Lacking(u, node, parent, s, M, f)
          /\ u[Other(s)][parent] = i /\ i \notin u.red /\ u[Other(s)][i] = o /\ o \in u.red
      BY <1>2, <3>5, FixInner
    <3> QED BY <1>ir, <1>o1, <1>q, <3>6
  <2> QED BY <2>1, <2>2
<1>w. PICK w : w = u[s][o1]
  OBVIOUS
<1>5. o1 # Nil /\ o1 \in M /\ R \subseteq M
  <2>1. o1 = u[Other(s)][parent] /\ M = Members(u, E) /\ Shape(u, E) /\ Lacking(u, node, parent, s, M, f)
    BY <1>4, <1>ir, <1>o1
  <2>2. Siblings(u, M, node, parent, s, f, o1)
    BY <2>1, LackingFacts
  <2>3. o1 # Nil /\ o1 \in M /\ u.red \subseteq M
    BY <2>2 DEF Siblings
  <2> QED BY <1>3, <1>r, <2>3
<1>6. IsColored(u, z, R) /\ Rotated(z, v, parent, s, o1, w)
  <2>1. M = Members(u, E) /\ Shape(u, E)
    BY <1>4
  <2>2. TurnHere(u, M, R, z, parent, s, o1, w)
    BY <1>3, <1>5, <1>ir, <1>o1, <1>z, <1>w DEF TurnHere
  <2> QED BY <1>v, <2>1, <2>2, TurnedTree
<1>7. /\ Shape(v, RotatedD(E, parent, o1, w)) /\ Members(v, RotatedD(E, parent, o1, w)) = M
      /\ \E i1 : IdleColours(v, M, i1)
  <2>1. M = Members(u, E) /\ Shape(u, E)
    BY <1>4
  <2>2. FixOuterCase(u, M, node, parent, s, f, o1, q, z, w, v)
    BY <1>4, <1>6, <1>ir, <1>o1, <1>q, <1>r, <1>w DEF FixOuterCase
  <2> QED BY <2>1, <2>2, FixOuter
<1>f. PICK F : F = RotatedD(E, parent, o1, w)
  OBVIOUS
<1>8. PICK j : IdleColours(v, M, j)
  BY <1>7
\* The root is black already.
<1>9. t' = v
  <2>1. Shape(v, F) /\ Members(v, F) = M
    BY <1>7, <1>f
  <2>2. v.root \notin v.red
    <3> SUFFICES ASSUME v.root \in v.red PROVE FALSE
      OBVIOUS
    <3>1. v.root \in M /\ v.root # Nil
      BY <1>2, <2>1, RedFacts
    <3>2. v.up[v.root] = Nil
      BY <2>1, <3>1, RedFacts
    <3> QED BY <1>8, <3>1, <3>2 DEF IdleColours, Reds
  <2>3. v.red \ {v.root} = v.red /\ v \in TreeType
    BY <2>1, <2>2, RedFacts
  <2>4. t' = [v EXCEPT !.red = v.red]
    BY <1>1, <2>3
  <2> QED BY <2>3, <2>4 DEF TreeType
<1>10. Colours(v, pc', node', parent', M, j)
  BY <1>1, <1>8 DEF Colours
<1>11. Shape(v, F) /\ Members(v, F) = Members(t, D) /\ UNCHANGED ends
  BY <1>1, <1>7, <1>f
<1> QED BY <1>9, <1>10, <1>11, SameNodes

\* n has two children, and its successor m is cut out, which gives u, and put in
\* its place.
SupplantCase(t0, M, n, m, c, u, v, h, q) ==
    /\ n \in M /\ IsSuccessor(t0, n, m) /\ c = t0.right[m] /\ IdleColours(t0, M, h)
    /\ u = CutTree(t0, m, c) /\ IsPut(u, v, n, m)
    /\ q = IF t0.up[m] = n THEN m ELSE t0.up[m]

SupplantDone(t0, M, n, m, c, v, q, E, f) ==
    /\ Shape(v, E) /\ Members(v, E) = M \ {n}
    /\ m \in t0.red => IdleColours(v, M \ {n}, f)
    /\ m \notin t0.red => EraseColours(v, c, q, M \ {n}, f)

LEMMA SupplantColours ==
    ASSUME NEW t0, NEW D, Shape(t0, D), NEW M, M = Members(t0, D), NEW n, NEW m, NEW c, NEW u, NEW v, NEW h, NEW q,
           SupplantCase(t0, M, n, m, c, u, v, h, q)
    PROVE  \E E, f : SupplantDone(t0, M, n, m, c, v, q, E, f)
<1>1. n \in M /\ IsSuccessor(t0, n, m) /\ c = t0.right[m] /\ IdleColours(t0, M, h) /\ IsPut(u, v, n, m)
  BY DEF SupplantCase
<1>2. t0 \in TreeType /\ M \subseteq Nodes /\ Nil \notin M
  BY RedFacts
<1>3. /\ m \in M /\ m \in Nodes /\ m # n /\ m # t0.root /\ m \in D[t0.right[n]]
      /\ t0.left[m] = Nil
      /\ \A x \in M \ {n, m}, s \in Sides : On(s, x, n) => On(s, x, m)
  BY <1>1, Successor
<1>4. t0["right"][m] = c /\ t0[Other("right")][m] = Nil /\ "right" \in Sides
  BY <1>1, <1>2, <1>3, Links, SidesFacts DEF Sides
<1>5. IsCut(t0, u, m, c)
  <2>1. c \in MaybeNode
    <3>1. t0["right"] = t0.right /\ t0["right"] \in [Nodes -> MaybeNode]
      BY <1>2, Links DEF Sides
    <3> QED BY <1>1, <1>3, <3>1
  <2>2. IsCut(t0, CutTree(t0, m, c), m, c)
    BY <1>2, <1>3, <2>1, CutTreeLinks
  <2> QED BY <2>2 DEF SupplantCase
<1>6. Shape(u, CutD(D, m)) /\ Members(u, CutD(D, m)) = M \ {m}
  BY <1>3, <1>4, <1>5, CutShape
<1>7. /\ m \in t0.red => IdleColours(u, M \ {m}, h)
      /\ m \notin t0.red => EraseColours(u, c, t0.up[m], M \ {m}, h)
  BY <1>1, <1>3, <1>4, <1>5, CutColours
<1>8. c # n /\ t0.up[m] # m
  <2>1. t0.up[m] # m
    BY <1>3, RedFacts
  <2>2. c # n
    <3> SUFFICES ASSUME c = n PROVE FALSE
      OBVIOUS
    <3>1. n # Nil /\ n \in D[n]
      BY <1>1, MemberFacts
    <3>2. D[n] \subseteq D[m]
      BY <1>3, <1>4, <3>1, ChildFacts
    <3>3. t0["right"][n] # Nil /\ t0["right"][n] = t0.right[n]
      BY <1>1, <1>2, Links DEF IsSuccessor
    <3>4. t0.right[n] \in M /\ n \notin D[t0.right[n]]
      BY <1>1, <1>4, <3>3, ChildFacts
    <3>5. D[m] \subseteq D[t0.right[n]]
      BY <1>3, <3>4, Within
    <3> QED BY <3>1, <3>2, <3>4, <3>5
  <2> QED BY <2>1, <2>2
<1>9. PICK E, M1 : E = CutD(D, m) /\ M1 = M \ {m}
  OBVIOUS
<1>10. Shape(u, E) /\ M1 = Members(u, E) /\ n \in M1 /\ m \in Nodes \ M1 /\ (M1 \ {n}) \cup {m} = M \ {n}
  BY <1>1, <1>3, <1>6, <1>9
<1>11. Shape(v, PutD(E, n, m)) /\ Members(v, PutD(E, n, m)) = M \ {n}
  <2>1. \A x \in Members(u, E) \ {n}, s \in Sides : On(s, x, n) => On(s, x, m)
    BY <1>3, <1>9, <1>10
  <2>2. n \in Members(u, E) /\ m \in Nodes \ Members(u, E)
    BY <1>10
  <2>3. Members(v, PutD(E, n, m)) = (Members(u, E) \ {n}) \cup {m} /\ Shape(v, PutD(E, n, m))
    BY <1>1, <1>10, <2>1, <2>2, PutShape
  <2> QED BY <1>10, <2>3
<1>12. PICK p : p = t0.up[m]
  OBVIOUS
<1>13. q = (IF p = n THEN m ELSE p) /\ p # m
  BY <1>8, <1>12 DEF SupplantCase
<1>14. /\ IdleColours(u, M1, h) => \E f : IdleColours(v, (M1 \ {n}) \cup {m}, f)
       /\ EraseColours(u, c, p, M1, h) => \E f : EraseColours(v, c, q, (M1 \ {n}) \cup {m}, f)
  BY <1>1, <1>8, <1>10, <1>13, PutColours
<1>15. CASE m \in t0.red
  <2>1. PICK f : IdleColours(v, M \ {n}, f)
    BY <1>7, <1>9, <1>10, <1>14, <1>15
  <2> QED BY <1>11, <1>15, <2>1 DEF SupplantDone
<1>16. CASE m \notin t0.red
  <2>1. PICK f : EraseColours(v, c, q, M \ {n}, f)
    BY <1>7, <1>9, <1>10, <1>12, <1>14, <1>16
  <2> QED BY <1>11, <1>16, <2>1 DEF SupplantDone
<1> QED BY <1>15, <1>16

LEMMA EraseIInv ==
    ASSUME IInv, NEW n \in Nodes, Erase(n)
    PROVE  IInv' /\ n \in NodesIn(t) /\ NodesIn(t') = NodesIn(t) \ {n}
<1> PICK D, h : IInvFor(D, h)
  BY DEF IInv
<1> PICK M, v : M = Members(t, D) /\ v = t'
  OBVIOUS
<1> PICK e : e = IF t.left[n] # Nil /\ t.right[n] # Nil THEN Supplant(t, n) ELSE Unlink(t, n)
  OBVIOUS
<1>1. /\ pc = "idle" /\ Linked(t, n) /\ v = Freed(e.tree, n)
      /\ ends' = [s \in Sides |-> IF ends[s] = n THEN Neighbour(t, n, Other(s)) ELSE ends[s]]
      /\ \/ e.black /\ pc' = "erase_color" /\ node' = e.child /\ parent' = e.parent
         \/ ~e.black /\ UNCHANGED <<pc, node, parent>>
  BY DEF Erase
<1>2. /\ Shape(t, D) /\ t \in TreeType /\ M \subseteq Nodes /\ Nil \notin M /\ EndsOf(ends, M)
      /\ IdleColours(t, M, h) /\ n \in M /\ node = Nil /\ parent = Nil
      /\ NodesIn(t) = M
  BY <1>1, StateFacts
<1>3. EndsOf(ends', M \ {n})
  <2> PICK a, y : a = ends' /\ y = [s \in Sides |-> Neighbour(t, n, Other(s))]
    OBVIOUS
  <2>1. \A s \in Sides : a[s] = IF ends[s] = n THEN y[s] ELSE ends[s]
    BY <1>1
  <2>2. \A s \in Sides : IsNext(y[s], M, {n}, Other(s))
    <3> SUFFICES ASSUME NEW s \in Sides PROVE IsNext(y[s], M, {n}, Other(s))
      OBVIOUS
    <3>1. Other(s) \in Sides /\ y[s] = Neighbour(t, n, Other(s))
      BY SidesFacts
    <3> QED BY <1>2, <3>1, NeighbourIs
  <2>3. EndsOf(a, M \ {n})
    BY <1>2, <2>1, <2>2, EndsErase
  <2> QED BY <2>3
<1>4. PICK E, f : /\ Shape(v, E) /\ Members(v, E) = M \ {n}
                  /\ e.black => EraseColours(v, e.child, e.parent, M \ {n}, f)
                  /\ ~e.black => IdleColours(v, M \ {n}, f)
  <2>1. CASE t.left[n] = Nil \/ t.right[n] = Nil
    <3>1. e = Unlink(t, n)
      BY <2>1
    <3>2. /\ IsCut(t, v, n, e.child) /\ e.parent = t.up[n] /\ e.black = (n \notin t.red)
          /\ \E s \in Sides : t[s][n] = e.child /\ t[Other(s)][n] = Nil
      BY <1>1, <1>2, <2>1, <3>1, UnlinkLinks
    <3> PICK c : c = e.child
      OBVIOUS
    <3>3. PICK r \in Sides : t[r][n] = c /\ t[Other(r)][n] = Nil
      BY <3>2
    <3>4. IsCut(t, v, n, c)
      BY <3>2
    <3>5. Shape(v, CutD(D, n)) /\ Members(v, CutD(D, n)) = M \ {n}
      BY <1>2, <3>3, <3>4, CutShape
    <3>6. /\ n \in t.red => IdleColours(v, M \ {n}, h)
          /\ n \notin t.red => EraseColours(v, c, t.up[n], M \ {n}, h)
      BY <1>2, <3>3, <3>4, CutColours
    <3> QED BY <3>2, <3>5, <3>6
  <2>2. CASE t.left[n] # Nil /\ t.right[n] # Nil
    <3>1. e = Supplant(t, n)
      BY <2>2
    <3>m. PICK m : m = Down(t, t.right[n], "left")
      OBVIOUS
    <3>c. PICK c : c = t.right[m]
      OBVIOUS
    <3>2. IsSuccessor(t, n, m)
      BY <2>2, <3>m DEF IsSuccessor
    <3>3. /\ IsPut(CutTree(t, m, c), v, n, m) /\ e.child = c /\ e.black = (m \notin t.red)
          /\ e.parent = IF t.up[m] = n THEN m ELSE t.up[m]
      BY <1>1, <1>2, <3>1, <3>2, <3>c, SupplantLinks
    <3>q. PICK q : q = IF t.up[m] = n THEN m ELSE t.up[m]
      OBVIOUS
    <3>u. PICK u : u = CutTree(t, m, c)
      OBVIOUS
    <3>4. SupplantCase(t, M, n, m, c, u, v, h, q)
      BY <1>2, <3>2, <3>3, <3>c, <3>q, <3>u DEF SupplantCase
    <3>5. PICK E, f : SupplantDone(t, M, n, m, c, v, q, E, f)
      BY <1>2, <3>4, SupplantColours
    <3> QED BY <3>3, <3>5, <3>q DEF SupplantDone
  <2> QED BY <2>1, <2>2
<1>5. Colours(v, pc', node', parent', M \ {n}, f)
  BY <1>1, <1>2, <1>4 DEF Colours
<1> QED BY <1>2, <1>3, <1>4, <1>5, Keeps

-----------------------------------------------------------------------------
(* A list with one node more and one less. *)

\* The list o without what is at i.
CutAt(o, i) == SubSeq(o, 1, i - 1) \o SubSeq(o, i + 1, Len(o))

LEMMA CutAtFacts ==
    ASSUME NEW o \in Seq(Nodes), NEW i \in 1 .. Len(o), NEW c, c = CutAt(o, i)
    PROVE  /\ c \in Seq(Nodes) /\ Len(c) = Len(o) - 1
           /\ \A j \in 1 .. Len(o) - 1 : (j < i => c[j] = o[j]) /\ (~(j < i) => c[j] = o[j + 1])
<1>1. PICK l : l = Len(o) /\ l \in Nat
  OBVIOUS
<1>2. PICK a, b : a = SubSeq(o, 1, i - 1) /\ b = SubSeq(o, i + 1, l)
  OBVIOUS
<1>3. a \in Seq(Nodes) /\ Len(a) = i - 1 /\ \A j \in 1 .. i - 1 : a[j] = o[j]
  <2>1. \A j \in 1 .. i - 1 : o[j] \in Nodes
    BY <1>1
  <2>2. 1 \in Int /\ i - 1 \in Int /\ i - 1 >= 0
    BY <1>1
  <2> QED BY <1>1, <1>2, <2>1, <2>2, SubSeqProperties
<1>4. b \in Seq(Nodes) /\ Len(b) = l - i /\ \A j \in 1 .. l - i : b[j] = o[i + j]
  <2>1. \A j \in (i + 1) .. l : o[j] \in Nodes
    BY <1>1
  <2>2. i + 1 \in Int /\ l \in Int /\ i <= l
    BY <1>1
  <2>3. /\ b \in Seq(Nodes) /\ Len(b) = IF i + 1 <= l THEN l - (i + 1) + 1 ELSE 0
        /\ \A j \in 1 .. l - (i + 1) + 1 : b[j] = o[i + 1 + j - 1]
    BY <1>2, <2>1, <2>2, SubSeqProperties
  <2>4. \A j \in 1 .. l - i : i + 1 + j - 1 = i + j /\ j \in 1 .. l - (i + 1) + 1
    BY <1>1
  <2> QED BY <1>1, <2>2, <2>3, <2>4
<1>5. c = a \o b
  BY <1>1, <1>2 DEF CutAt
<1>6. /\ c \in Seq(Nodes) /\ Len(c) = l - 1
      /\ \A j \in 1 .. l - 1 : c[j] = IF j <= i - 1 THEN a[j] ELSE b[j - (i - 1)]
  <2>1. /\ c \in Seq(Nodes) /\ Len(c) = Len(a) + Len(b)
        /\ \A j \in 1 .. Len(a) + Len(b) : c[j] = IF j <= Len(a) THEN a[j] ELSE b[j - Len(a)]
    BY <1>3, <1>4, <1>5, ConcatProperties
  <2>2. Len(a) + Len(b) = l - 1
    BY <1>1, <1>3, <1>4
  <2> QED BY <1>3, <2>1, <2>2
<1>7. ASSUME NEW j \in 1 .. l - 1 PROVE (j < i => c[j] = o[j]) /\ (~(j < i) => c[j] = o[j + 1])
  <2>1. CASE j < i
    BY <1>1, <1>3, <1>6, <2>1
  <2>2. CASE ~(j < i)
    <3>1. j - (i - 1) \in 1 .. l - i /\ i + (j - (i - 1)) = j + 1 /\ ~(j <= i - 1)
      BY <1>1, <2>2
    <3> QED BY <1>4, <1>6, <2>2, <3>1
  <2> QED BY <2>1, <2>2
<1> QED BY <1>1, <1>6, <1>7

LEMMA ListCut ==
    ASSUME NEW S, NEW o, IsList(o, S), NEW i \in 1 .. Len(o), NEW c, c = CutAt(o, i)
    PROVE  IsList(c, S \ {o[i]})
<1>1. PICK l : l = Len(o) /\ l \in Nat
  BY DEF IsList
<1>2. /\ o \in Seq(Nodes) /\ S = {o[k] : k \in 1 .. l}
      /\ \A j, k \in 1 .. l : j < k => Key[o[j]] < Key[o[k]]
      /\ \A k \in 1 .. l : o[k] \in Nodes /\ Key[o[k]] \in Nat
  <2>1. o \in Seq(Nodes) /\ S = {o[k] : k \in 1 .. l} /\ \A j, k \in 1 .. l : j < k => Key[o[j]] < Key[o[k]]
    BY <1>1 DEF IsList
  <2>2. \A k \in 1 .. l : o[k] \in Nodes
    BY <1>1, <2>1
  <2> QED BY <2>1, <2>2, NilFacts
<1>3. /\ c \in Seq(Nodes) /\ Len(c) = l - 1
      /\ \A j \in 1 .. l - 1 : (j < i => c[j] = o[j]) /\ (~(j < i) => c[j] = o[j + 1])
  BY <1>1, <1>2, CutAtFacts
<1>4. \A j, k \in 1 .. l : j # k => o[j] # o[k]
  <2> SUFFICES ASSUME NEW j \in 1 .. l, NEW k \in 1 .. l, j # k, o[j] = o[k] PROVE FALSE
    OBVIOUS
  <2>1. j < k \/ k < j
    BY <1>1
  <2> QED BY <1>2, <2>1
<1>5. S \ {o[i]} = {c[k] : k \in 1 .. Len(c)}
  <2>1. ASSUME NEW k \in 1 .. l, k # i PROVE \E j \in 1 .. l - 1 : c[j] = o[k]
    <3>1. CASE k < i
      <4>1. k \in 1 .. l - 1
        BY <1>1, <3>1
      <4> QED BY <1>3, <3>1, <4>1
    <3>2. CASE ~(k < i)
      <4>1. PICK j : j = k - 1
        OBVIOUS
      <4>2. j \in 1 .. l - 1 /\ j + 1 = k /\ ~(j < i)
        BY <1>1, <2>1, <3>2, <4>1
      <4> QED BY <1>3, <4>2
    <3> QED BY <3>1, <3>2
  <2>2. ASSUME NEW j \in 1 .. l - 1 PROVE c[j] \in S \ {o[i]}
    <3>1. CASE j < i
      <4>1. j \in 1 .. l /\ j # i
        BY <1>1, <3>1
      <4> QED BY <1>1, <1>2, <1>3, <1>4, <3>1, <4>1
    <3>2. CASE ~(j < i)
      <4>1. j + 1 \in 1 .. l /\ j + 1 # i
        BY <1>1, <3>2
      <4>2. o[j + 1] \in S /\ o[j + 1] # o[i]
        BY <1>1, <1>2, <1>4, <4>1
      <4> QED BY <1>3, <3>2, <4>2
    <3> QED BY <3>1, <3>2
  <2>3. \A x \in S \ {o[i]} : \E k \in 1 .. l : k # i /\ o[k] = x
    BY <1>2
  <2>4. \A y \in S \ {o[i]} : \E j \in 1 .. l - 1 : c[j] = y
    <3> SUFFICES ASSUME NEW y \in S \ {o[i]} PROVE \E j \in 1 .. l - 1 : c[j] = y
      OBVIOUS
    <3>1. PICK k \in 1 .. l : k # i /\ o[k] = y
      BY <2>3
    <3> QED BY <2>1, <3>1
  <2>5. Len(c) = l - 1
    BY <1>3
  <2> QED BY <2>2, <2>4, <2>5
<1>6. ASSUME NEW j \in 1 .. Len(c), NEW k \in 1 .. Len(c), j < k
      PROVE  Key[c[j]] < Key[c[k]]
  <2>1. PICK p : p = IF j < i THEN j ELSE j + 1
    OBVIOUS
  <2>2. PICK q : q = IF k < i THEN k ELSE k + 1
    OBVIOUS
  <2>3. p \in 1 .. l /\ q \in 1 .. l /\ p < q
    BY <1>1, <1>3, <1>6, <2>1, <2>2
  <2>4. c[j] = o[p] /\ c[k] = o[q]
    BY <1>3, <2>1, <2>2
  <2> QED BY <1>2, <2>3, <2>4
<1> QED BY <1>3, <1>5, <1>6 DEF IsList

\* What Index!Insert does.
IsPutIn(a, n, b) == \E k \in 0 .. Len(a) : b = SubSeq(a, 1, k) \o <<n>> \o SubSeq(a, k + 1, Len(a))

LEMMA ListInsert ==
    ASSUME NEW S, NEW n \in Nodes, n \notin S, NEW a, IsList(a, S), NEW T, T = S \cup {n}, NEW b, IsList(b, T)
    PROVE  (\A m \in S : Key[m] # Key[n]) /\ IsPutIn(a, n, b)
<1>1. PICK l : l = Len(b) /\ l \in Nat
  BY DEF IsList
<1>2. /\ b \in Seq(Nodes) /\ S \cup {n} = {b[k] : k \in 1 .. l}
      /\ \A j, k \in 1 .. l : j < k => Key[b[j]] < Key[b[k]]
      /\ \A k \in 1 .. l : b[k] \in Nodes /\ Key[b[k]] \in Nat
  <2>1. b \in Seq(Nodes) /\ S \cup {n} = {b[k] : k \in 1 .. l} /\ \A j, k \in 1 .. l : j < k => Key[b[j]] < Key[b[k]]
    BY <1>1 DEF IsList
  <2>2. \A k \in 1 .. l : b[k] \in Nodes
    BY <1>1, <2>1
  <2> QED BY <2>1, <2>2, NilFacts
<1>3. PICK i \in 1 .. l : b[i] = n
  BY <1>2
<1>4. PICK c : c = CutAt(b, i)
  OBVIOUS
<1>5. IsList(c, S)
  <2>1. IsList(c, (S \cup {n}) \ {b[i]})
    BY <1>1, <1>4, ListCut
  <2>2. (S \cup {n}) \ {b[i]} = S
    BY <1>3
  <2> QED BY <2>1, <2>2
<1>6. c = a
  BY <1>5, ListUnique
<1>7. /\ a \in Seq(Nodes) /\ Len(a) = l - 1
      /\ \A j \in 1 .. l - 1 : (j < i => a[j] = b[j]) /\ (~(j < i) => a[j] = b[j + 1])
  <2>1. /\ c \in Seq(Nodes) /\ Len(c) = Len(b) - 1
        /\ \A j \in 1 .. Len(b) - 1 : (j < i => c[j] = b[j]) /\ (~(j < i) => c[j] = b[j + 1])
    <3>1. b \in Seq(Nodes) /\ i \in 1 .. Len(b) /\ c = CutAt(b, i)
      BY <1>1, <1>2, <1>3, <1>4
    <3> QED BY ONLY <3>1, CutAtFacts
  <2> QED BY <1>1, <1>6, <2>1
<1>8. \A m \in S : Key[m] # Key[n]
  <2> SUFFICES ASSUME NEW m \in S, Key[m] = Key[n] PROVE FALSE
    OBVIOUS
  <2>1. PICK j \in 1 .. l : b[j] = m
    BY <1>2
  <2>2. j < i \/ i < j
    BY <1>1, <1>3, <2>1
  <2> QED BY <1>2, <1>3, <2>1, <2>2
<1>9. PICK k : k = i - 1
  OBVIOUS
<1>10. k \in 0 .. Len(a) /\ k \in Nat /\ l - 1 \in Nat /\ k <= l - 1
  BY <1>1, <1>7, <1>9
<1>x. PICK x : x = SubSeq(a, 1, k)
  OBVIOUS
<1>y. PICK y : y = SubSeq(a, k + 1, l - 1)
  OBVIOUS
<1>o. PICK o : o = <<n>>
  OBVIOUS
<1>z. PICK z : z = x \o o
  OBVIOUS
<1>e. PICK e : e = z \o y
  OBVIOUS
<1>12. x \in Seq(Nodes) /\ Len(x) = k /\ \A j \in 1 .. k : x[j] = a[j]
  <2>1. \A j \in 1 .. k : a[j] \in Nodes
    BY <1>7, <1>10
  <2>2. 1 \in Int /\ k \in Int
    BY <1>10
  <2>3. /\ x \in Seq(Nodes) /\ Len(x) = IF 1 <= k THEN k - 1 + 1 ELSE 0
        /\ \A j \in 1 .. k - 1 + 1 : x[j] = a[1 + j - 1]
    BY <1>x, <2>1, <2>2, SubSeqProperties
  <2> QED BY <1>10, <2>3
<1>13. y \in Seq(Nodes) /\ Len(y) = l - 1 - k /\ \A j \in 1 .. l - 1 - k : y[j] = a[k + j]
  <2>1. \A j \in (k + 1) .. (l - 1) : a[j] \in Nodes
    BY <1>7, <1>10
  <2>2. k + 1 \in Int /\ l - 1 \in Int
    BY <1>10
  <2>3. /\ y \in Seq(Nodes) /\ Len(y) = IF k + 1 <= l - 1 THEN l - 1 - (k + 1) + 1 ELSE 0
        /\ \A j \in 1 .. l - 1 - (k + 1) + 1 : y[j] = a[k + 1 + j - 1]
    BY <1>y, <2>1, <2>2, SubSeqProperties
  <2>4. \A j \in 1 .. l - 1 - k : k + 1 + j - 1 = k + j /\ j \in 1 .. l - 1 - (k + 1) + 1
    BY <1>1, <1>10
  <2>5. Len(y) = l - 1 - k
    <3>1. k \in Nat /\ l \in Nat /\ k <= l - 1
      BY <1>1, <1>10
    <3>2. (IF k + 1 <= l - 1 THEN l - 1 - (k + 1) + 1 ELSE 0) = l - 1 - k
      BY <3>1
    <3> QED BY <2>3, <3>2
  <2>6. \A j \in 1 .. l - 1 - k : y[j] = a[k + j]
    BY <2>3, <2>4
  <2> QED BY <2>3, <2>5, <2>6
<1>14. z \in Seq(Nodes) /\ Len(z) = k + 1 /\ z[k + 1] = n /\ \A j \in 1 .. k : z[j] = a[j]
  <2>1. o \in Seq(Nodes) /\ Len(o) = 1 /\ o[1] = n
    BY <1>o
  <2>2. /\ z \in Seq(Nodes) /\ Len(z) = Len(x) + Len(o)
        /\ \A j \in 1 .. Len(x) + Len(o) : z[j] = IF j <= Len(x) THEN x[j] ELSE o[j - Len(x)]
    BY <1>12, <1>z, <2>1, ConcatProperties
  <2>3. /\ z \in Seq(Nodes) /\ Len(z) = k + 1
        /\ \A j \in 1 .. k + 1 : z[j] = IF j <= k THEN x[j] ELSE o[j - k]
    BY <1>12, <2>1, <2>2
  <2>4. z[k + 1] = o[1]
    BY <1>10, <2>3
  <2> QED BY <1>10, <1>12, <2>1, <2>3, <2>4
<1>15. /\ e \in Seq(Nodes) /\ Len(e) = l
       /\ \A j \in 1 .. l : e[j] = IF j <= k + 1 THEN z[j] ELSE y[j - (k + 1)]
  <2>1. /\ e \in Seq(Nodes) /\ Len(e) = Len(z) + Len(y)
        /\ \A j \in 1 .. Len(z) + Len(y) : e[j] = IF j <= Len(z) THEN z[j] ELSE y[j - Len(z)]
    BY <1>13, <1>14, <1>e, ConcatProperties
  <2>2. Len(z) + Len(y) = l
    BY <1>1, <1>10, <1>13, <1>14
  <2> QED BY <1>14, <2>1, <2>2
<1>16. ASSUME NEW j \in 1 .. l PROVE e[j] = b[j]
  <2>1. CASE j < i
    <3>1. j \in 1 .. k /\ j <= k + 1 /\ j \in 1 .. l - 1
      BY <1>1, <1>9, <2>1
    <3> QED BY <1>7, <1>14, <1>15, <2>1, <3>1
  <2>2. CASE j = i
    <3>1. j = k + 1
      BY <1>9, <2>2
    <3> QED BY <1>3, <1>10, <1>14, <1>15, <2>2, <3>1
  <2>3. CASE j > i
    <3>1. PICK g : g = j - (k + 1)
      OBVIOUS
    <3>2. g \in 1 .. l - 1 - k /\ k + g = j - 1 /\ ~(j <= k + 1) /\ k + g \in 1 .. l - 1 /\ ~(k + g < i) /\ k + g + 1 = j
      BY <1>1, <1>9, <1>10, <2>3, <3>1
    <3>3. e[j] = y[g] /\ y[g] = a[k + g]
      BY <1>13, <1>15, <3>1, <3>2
    <3>4. a[k + g] = b[k + g + 1]
      BY <1>7, <3>2
    <3> QED BY <3>2, <3>3, <3>4
  <2> QED BY <1>1, <2>1, <2>2, <2>3
<1>17. b = e
  <2>1. Len(b) = Len(e) /\ \A j \in 1 .. Len(b) : b[j] = e[j]
    BY <1>1, <1>15, <1>16
  <2> QED BY <1>2, <1>15, <2>1, SeqEqual
<1> QED BY <1>7, <1>8, <1>10, <1>17, <1>x, <1>y, <1>o, <1>z, <1>e DEF IsPutIn

-----------------------------------------------------------------------------
(* The invariant holds in every state, and gives the order. *)

LEMMA RebalanceKeeps ==
    ASSUME IInv, Rebalance
    PROVE  IInv' /\ NodesIn(t') = NodesIn(t)
<1>1. CASE EndInsert
  BY <1>1, EndInsertIInv
<1>2. CASE EndErase
  BY <1>2, EndEraseIInv
<1>3. ASSUME NEW s \in Sides,
             RecolorUncle(s) \/ RotateGrandparent(s) \/ SiblingRed(s) \/ SiblingBlack(s) \/ SiblingFixes(s)
      PROVE  IInv' /\ NodesIn(t') = NodesIn(t)
  <2>1. CASE RecolorUncle(s)
    BY <2>1, RecolorUncleIInv
  <2>2. CASE RotateGrandparent(s)
    BY <2>2, RotateGrandparentIInv
  <2>3. CASE SiblingRed(s)
    BY <2>3, SiblingRedIInv
  <2>4. CASE SiblingBlack(s)
    BY <2>4, SiblingBlackIInv
  <2>5. CASE SiblingFixes(s)
    BY <2>5, SiblingFixesIInv
  <2> QED BY <1>3, <2>1, <2>2, <2>3, <2>4, <2>5
<1> QED BY <1>1, <1>2, <1>3 DEF Rebalance

LEMMA SameKeeps ==
    ASSUME IInv, UNCHANGED vars
    PROVE  IInv' /\ NodesIn(t') = NodesIn(t) /\ t' = t
<1>1. t' = t /\ ends' = ends /\ pc' = pc /\ node' = node /\ parent' = parent
  BY DEF vars
<1> QED BY <1>1 DEF IInv, IInvFor

\* Whatever a step does, it puts in a node, takes one out, or keeps them.
LEMMA StepKeeps ==
    ASSUME IInv, [Next]_vars
    PROVE  /\ IInv'
           /\ \/ \E n \in Nodes : n \notin NodesIn(t) /\ NodesIn(t') = NodesIn(t) \cup {n}
              \/ \E n \in Nodes : n \in NodesIn(t) /\ NodesIn(t') = NodesIn(t) \ {n}
              \/ NodesIn(t') = NodesIn(t)
<1>1. ASSUME NEW n \in Nodes, Insert(n)
      PROVE  IInv' /\ n \notin NodesIn(t) /\ NodesIn(t') = NodesIn(t) \cup {n}
  BY <1>1, InsertIInv
<1>2. ASSUME NEW n \in Nodes, Erase(n)
      PROVE  IInv' /\ n \in NodesIn(t) /\ NodesIn(t') = NodesIn(t) \ {n}
  BY <1>2, EraseIInv
<1>3. ASSUME NEW n \in Nodes, RefuseInsert(n)
      PROVE  IInv' /\ NodesIn(t') = NodesIn(t)
  <2>1. UNCHANGED vars
    BY <1>3 DEF RefuseInsert
  <2> QED BY <2>1, SameKeeps
<1>4. CASE Rebalance
  BY <1>4, RebalanceKeeps
<1>5. CASE UNCHANGED vars
  BY <1>5, SameKeeps
<1> QED BY <1>1, <1>2, <1>3, <1>4, <1>5 DEF Next

LEMMA OrderIs ==
    ASSUME IInv
    PROVE  IsList(InOrder(t), NodesIn(t))
<1>1. PICK D, h : Shape(t, D)
  BY DEF IInv, IInvFor
<1> QED BY <1>1, InOrderIs, NodesInIs

LEMMA OrderIsAfter ==
    ASSUME IInv'
    PROVE  IsList(InOrder(t'), NodesIn(t'))
<1>1. PICK v : v = t'
  OBVIOUS
<1>2. PICK D, h : Shape(v, D)
  BY <1>1 DEF IInv, IInvFor
<1> QED BY <1>1, <1>2, InOrderIs, NodesInIs

\* The invariant: the links of the nodes make a search tree, rb_leftmost and
\* rb_rightmost are its ends, and between two rounds of a rebalancing loop the
\* only fault is the one the next round is there for: a red node may have a red
\* parent, or below a node one black node may be lacking.
THEOREM InvariantHolds == Spec => []IInv
<1>1. Init => IInv
  BY InitIInv
<1>2. IInv /\ [Next]_vars => IInv'
  BY StepKeeps
<1> QED BY <1>1, <1>2, PTL DEF Spec

\* The red-black tree implements the index the buffer cache relies on: a call of
\* rb_insert puts the node in at its place among the keys, or refuses it when the
\* key is there; rb_erase takes out the node and no other; and no rotation or
\* recolouring of a rebalancing loop changes what the tree holds or its order.
THEOREM ImplementsIndex == Spec => Implements
<1>1. Init => Index!Init
  <2> SUFFICES ASSUME Init PROVE InOrder(t) = <<>>
    BY DEF Index!Init
  <2>1. IsList(InOrder(t), NodesIn(t))
    BY InitIInv, OrderIs
  <2>2. NodesIn(t) = {}
    <3>1. t.root = Nil /\ \A n \in Nodes : t.up[n] = Nil
      BY DEF Init, Empty
    <3> QED BY <3>1, NilFacts DEF NodesIn, Linked
  <2> QED BY <2>1, <2>2, ListEmpty, ListUnique
<1>2. ASSUME IInv, [Next]_vars PROVE [Index!Next]_(InOrder(t))
  <2>a. PICK a : a = InOrder(t)
    OBVIOUS
  <2>b. PICK b : b = InOrder(t)'
    OBVIOUS
  <2>1. IsList(a, NodesIn(t)) /\ IsList(b, NodesIn(t'))
    BY <1>2, <2>a, <2>b, StepKeeps, OrderIs, OrderIsAfter
  <2>2. Index!Held = NodesIn(t)
    BY <2>1, <2>a DEF IsList, Index!Held
  <2>3. ASSUME NEW n \in Nodes, n \notin NodesIn(t), NodesIn(t') = NodesIn(t) \cup {n}
        PROVE  Index!Insert(n)
    <3>0. PICK S, T : /\ S = NodesIn(t) /\ T = NodesIn(t') /\ n \notin S /\ T = S \cup {n}
                      /\ IsList(a, S) /\ IsList(b, T)
      BY <2>1, <2>3
    <3>1. (\A m \in S : Key[m] # Key[n]) /\ IsPutIn(a, n, b)
      BY <3>0, ListInsert
    <3>2. \A j, k \in 1 .. Len(b) : j < k => Key[b[j]] < Key[b[k]]
      BY <2>1 DEF IsList
    <3> QED BY <2>2, <2>a, <2>b, <3>0, <3>1, <3>2 DEF Index!Insert, Index!Sorted, IsPutIn
  <2>4. ASSUME NEW n \in Nodes, n \in NodesIn(t), NodesIn(t') = NodesIn(t) \ {n}
        PROVE  Index!Erase(n)
    <3>1. PICK k \in 1 .. Len(a) : a[k] = n
      BY <2>1, <2>4 DEF IsList
    <3>2. IsList(CutAt(a, k), NodesIn(t) \ {a[k]})
      BY <2>1, ListCut
    <3>3. b = CutAt(a, k)
      BY <2>1, <2>4, <3>1, <3>2, ListUnique
    <3> QED BY <2>a, <2>b, <3>1, <3>3 DEF Index!Erase, CutAt
  <2>5. CASE NodesIn(t') = NodesIn(t)
    <3>1. b = a
      BY <2>1, <2>5, ListUnique
    <3> QED BY <2>a, <2>b, <3>1
  <2> QED BY <1>2, <2>3, <2>4, <2>5, StepKeeps DEF Index!Next
<1> QED BY <1>1, <1>2, InvariantHolds, PTL DEF Spec, Implements, Index!Spec

-----------------------------------------------------------------------------
(* The colours between calls. *)

\* Every way down from a node of the tree has the number of black nodes that h
\* gives: what Balanced counts.
LEMMA BlackCounts ==
    ASSUME NEW u, NEW D, Shape(u, D), NEW M, M = Members(u, D), NEW h, IdleColours(u, M, h), NEW b,
           b[Nil] = {0},
           \A x \in Nodes : b[x] = {i + (IF x \in u.red THEN 0 ELSE 1) : i \in b[u.left[x]] \cup b[u.right[x]]}
    PROVE  \A x \in M : b[x] = {h[x]}
<1>1. PICK S : S = {x \in M : b[x] = {h[x]}}
  OBVIOUS
<1>2. /\ u \in TreeType /\ M \subseteq Nodes /\ Nil \notin M /\ h \in [Nodes -> Nat]
      /\ \A x \in M, k \in Sides : BlackOn(h, u[k][x]) + Unit(u.red, x) + Lack(Nil, "left", x, k) = h[x]
  BY RedFacts DEF IdleColours, Heights
<1>3. ASSUME NEW x \in M, \A s \in Sides : u[s][x] # Nil => u[s][x] \in S
      PROVE  x \in S
  <2>1. x # Nil /\ x \in Nodes /\ "left" \in Sides /\ "right" \in Sides /\ u.left = u["left"] /\ u.right = u["right"]
    BY <1>2, Links DEF Sides
  <2>2. \A k \in Sides : b[u[k][x]] = {BlackOn(h, u[k][x])}
    BY <1>1, <1>3 DEF BlackOn
  <2>3. \A k \in Sides : BlackOn(h, u[k][x]) + Unit(u.red, x) + 0 = h[x]
    BY <1>2, <2>1 DEF Lack
  <2>4. \A k \in Sides : BlackOn(h, u[k][x]) \in Nat
    <3> SUFFICES ASSUME NEW k \in Sides PROVE BlackOn(h, u[k][x]) \in Nat
      OBVIOUS
    <3>1. u[k][x] \in Nodes \cup {Nil}
      BY <1>2, <2>1, Links DEF MaybeNode
    <3> QED BY <1>2, <3>1 DEF BlackOn
  <2>5. Unit(u.red, x) \in Nat /\ Unit(u.red, x) = (IF x \in u.red THEN 0 ELSE 1)
    BY DEF Unit
  <2>6. PICK j : j = BlackOn(h, u["left"][x]) /\ j \in Nat
    BY <2>1, <2>4
  <2>7. PICK e : e = (IF x \in u.red THEN 0 ELSE 1) /\ e \in Nat
    BY <2>5
  <2>8. j + e = h[x] /\ BlackOn(h, u["right"][x]) = j
    <3>1. PICK k : k = BlackOn(h, u["right"][x]) /\ k \in Nat
      BY <2>1, <2>4
    <3>2. j + e + 0 = h[x] /\ k + e + 0 = h[x]
      BY <2>1, <2>3, <2>5, <2>6, <2>7, <3>1
    <3>3. h[x] \in Nat
      BY <1>2, <2>1
    <3> QED BY <2>6, <2>7, <3>1, <3>2, <3>3
  <2>9. b[u["left"][x]] = {j} /\ b[u["right"][x]] = {j}
    BY <2>1, <2>2, <2>6, <2>8
  <2>10. b[x] = {i + e : i \in b[u["left"][x]] \cup b[u["right"][x]]}
    BY <2>1, <2>7
  <2>11. b[x] = {i + e : i \in {j}}
    BY <2>9, <2>10
  <2>12. b[x] = {h[x]}
    BY <2>8, <2>11
  <2> QED BY <1>1, <2>12
<1>4. Members(u, D) \subseteq S
  BY <1>3, BottomUp
<1> QED BY <1>1, <1>4

\* There is a function that counts as Balanced does.
LEMMA BlackExists ==
    ASSUME NEW D, Shape(t, D), NEW M, M = Members(t, D), NEW h, IdleColours(t, M, h)
    PROVE  \E f : f = [x \in Nodes \cup {Nil} |->
                          IF x = Nil THEN {0}
                          ELSE {b + (IF IsRed(t, x) THEN 0 ELSE 1) : b \in f[t.left[x]] \cup f[t.right[x]]}]
<1>0. PICK b : b = [x \in MaybeNode |-> IF x = Nil THEN {0} ELSE IF x \in M THEN {h[x]} ELSE {1}]
  OBVIOUS
<1>1. /\ t \in TreeType /\ M \subseteq Nodes /\ Nil \notin M /\ t.red \subseteq M /\ h \in [Nodes -> Nat]
      /\ \A x \in M, k \in Sides : BlackOn(h, t[k][x]) + Unit(t.red, x) + Lack(Nil, "left", x, k) = h[x]
      /\ \A x \in M, k \in Sides : t[k][x] \in M \cup {Nil}
  BY RedFacts DEF IdleColours, Heights
<1>2. \A x \in M : b[x] = {h[x]}
  BY <1>0, <1>1 DEF MaybeNode
<1>3. b[Nil] = {0}
  BY <1>0 DEF MaybeNode
<1>4. ASSUME NEW x \in Nodes, NEW e, e = IF x \in t.red THEN 0 ELSE 1
      PROVE  b[x] = {i + e : i \in b[t.left[x]] \cup b[t.right[x]]}
  <2>1. CASE x \notin M
    <3>1. t.left[x] = Nil /\ t.right[x] = Nil /\ x \notin t.red
      BY <2>1 DEF Shape
    <3>2. b[x] = {1} /\ e = 1
      BY <1>0, <1>4, <2>1, <3>1, NilFacts DEF MaybeNode
    <3>3. {i + e : i \in b[t.left[x]] \cup b[t.right[x]]} = {i + 1 : i \in {0}}
      BY <1>3, <3>1, <3>2
    <3>4. 0 + 1 = 1
      OBVIOUS
    <3> QED BY <3>2, <3>3, <3>4
  <2>2. CASE x \in M
    <3>1. x # Nil /\ "left" \in Sides /\ "right" \in Sides /\ t.left = t["left"] /\ t.right = t["right"]
      BY <1>1, <2>2, Links DEF Sides
    <3>2. \A k \in Sides : b[t[k][x]] = {BlackOn(h, t[k][x])}
      BY <1>1, <1>2, <1>3, <2>2 DEF BlackOn
    <3>3. \A k \in Sides : BlackOn(h, t[k][x]) \in Nat
      BY <1>1, <2>2 DEF BlackOn
    <3>4. PICK j, k : j = BlackOn(h, t["left"][x]) /\ k = BlackOn(h, t["right"][x]) /\ j \in Nat /\ k \in Nat
      BY <3>1, <3>3
    <3>5. e \in Nat /\ e = Unit(t.red, x)
      BY <1>4 DEF Unit
    <3>6. j + e + 0 = h[x] /\ k + e + 0 = h[x]
      BY <1>1, <2>2, <3>1, <3>4, <3>5 DEF Lack
    <3>7. j + e = h[x] /\ k = j
      <4>1. h[x] \in Nat /\ j \in Nat /\ k \in Nat /\ e \in Nat
        BY <1>1, <2>2, <3>4, <3>5
      <4> QED BY <3>6, <4>1
    <3>8. b[t["left"][x]] = {j} /\ b[t["right"][x]] = {j}
      BY <3>1, <3>2, <3>4, <3>7
    <3>9. {i + e : i \in b[t.left[x]] \cup b[t.right[x]]} = {i + e : i \in {j}}
      BY <3>1, <3>8
    <3> QED BY <1>2, <2>2, <3>7, <3>9
  <2> QED BY <2>1, <2>2
<1>5. DOMAIN b = MaybeNode /\ b = [x \in MaybeNode |-> b[x]]
  BY <1>0
<1>6. ASSUME NEW x \in MaybeNode
      PROVE  b[x] = IF x = Nil THEN {0}
                    ELSE {i + (IF x \in t.red THEN 0 ELSE 1) : i \in b[t.left[x]] \cup b[t.right[x]]}
  <2>1. CASE x = Nil
    BY <1>3, <2>1
  <2>2. CASE x # Nil
    <3>1. x \in Nodes
      BY <2>2 DEF MaybeNode
    <3>2. b[x] = {i + (IF x \in t.red THEN 0 ELSE 1) : i \in b[t.left[x]] \cup b[t.right[x]]}
      BY <1>4, <3>1
    <3> QED BY <2>2, <3>2
  <2> QED BY <2>1, <2>2
<1>7. b = [x \in MaybeNode |->
              IF x = Nil THEN {0}
              ELSE {i + (IF x \in t.red THEN 0 ELSE 1) : i \in b[t.left[x]] \cup b[t.right[x]]}]
  BY <1>5, <1>6
<1> QED BY <1>7 DEF IsRed, MaybeNode

\* Between calls no red node has a red parent, the root is black, and every way
\* down meets as many black nodes: after each of the rotations and recolourings
\* of rb_insert_color and __rb_erase_color the next round repairs what is left,
\* and nothing is left when the loop ends.
THEOREM BalancedBetweenCalls == Spec => []Balanced
<1>1. ASSUME IInv PROVE Balanced
  <2> SUFFICES ASSUME pc = "idle" PROVE Balanced
    BY DEF Balanced
  <2> DEFINE black[x \in Nodes \cup {Nil}] ==
                IF x = Nil THEN {0}
                ELSE {b + (IF IsRed(t, x) THEN 0 ELSE 1) : b \in black[t.left[x]] \cup black[t.right[x]]}
  <2>1. PICK D, h : IInvFor(D, h)
    BY <1>1 DEF IInv
  <2>2. PICK M : M = Members(t, D)
    OBVIOUS
  <2>3. Shape(t, D) /\ IdleColours(t, M, h) /\ h \in [Nodes -> Nat] /\ M \subseteq Nodes
       /\ t.red \subseteq Nodes
    BY <2>1, <2>2, StateFacts, Links DEF IdleColours, Heights
  <2>4. \A n \in t.red : t.up[n] # Nil /\ IsBlack(t, t.up[n])
    BY <2>3, NilFacts DEF IdleColours, Reds, IsBlack
  <2>5. black = [x \in Nodes \cup {Nil} |->
                    IF x = Nil THEN {0}
                    ELSE {b + (IF IsRed(t, x) THEN 0 ELSE 1) : b \in black[t.left[x]] \cup black[t.right[x]]}]
    <3>1. \E f : f = [x \in Nodes \cup {Nil} |->
                    IF x = Nil THEN {0}
                    ELSE {b + (IF IsRed(t, x) THEN 0 ELSE 1) : b \in f[t.left[x]] \cup f[t.right[x]]}]
      BY <2>2, <2>3, BlackExists
    <3> QED BY <3>1
  <2>6. Balanced = (Cardinality(black[t.root]) = 1)
    BY <2>4 DEF Balanced
  <2>7. PICK f : f = black
    OBVIOUS
  <2> HIDE DEF black
  <2>8. /\ f[Nil] = {0}
        /\ \A x \in Nodes : f[x] = {b + (IF x \in t.red THEN 0 ELSE 1) : b \in f[t.left[x]] \cup f[t.right[x]]}
    BY <2>5, <2>7, NilFacts DEF IsRed
  <2>9. \A x \in M : f[x] = {h[x]}
    BY <2>2, <2>3, <2>8, BlackCounts
  <2>10. t.root = Nil \/ t.root \in M
    BY <2>2, <2>3 DEF Shape
  <2>11. \E k : f[t.root] = {k}
    BY <2>8, <2>9, <2>10
  <2> QED BY <2>6, <2>7, <2>11, FS_Singleton
<1> QED BY <1>1, InvariantHolds, PTL

-----------------------------------------------------------------------------
(* The walks. *)

\* rb_leftmost, rb_rightmost, rb_first and rb_last are the ends of the order of
\* the keys, and rb_next and rb_prev lead from a node to its neighbours in it,
\* in the middle of a call too; rb_erase advances rb_leftmost and rb_rightmost
\* by them.
THEOREM WalksAgreeAlways == Spec => []WalksAgree
<1>1. ASSUME IInv PROVE WalksAgree
  <2>1. PICK D, h : IInvFor(D, h)
    BY <1>1 DEF IInv
  <2>2. PICK M : M = Members(t, D)
    OBVIOUS
  <2>3. Shape(t, D) /\ t \in TreeType /\ M \subseteq Nodes /\ Nil \notin M /\ EndsOf(ends, M)
    BY <2>1, <2>2, StateFacts
  <2>4. PICK o : o = InOrder(t)
    OBVIOUS
  <2>5. PICK l : l = Len(o)
    OBVIOUS
  <2>6. /\ l \in Nat /\ M = {o[k] : k \in 1 .. l}
        /\ \A j, k \in 1 .. l : j < k => Key[o[j]] < Key[o[k]]
    <3>1. IsList(o, M)
      BY <2>2, <2>3, <2>4, InOrderIs
    <3>2. /\ o \in Seq(Nodes) /\ M = {o[k] : k \in 1 .. Len(o)}
          /\ \A j, k \in 1 .. Len(o) : j < k => Key[o[j]] < Key[o[k]]
      BY <3>1 DEF IsList
    <3>3. Len(o) \in Nat
      BY <3>2
    <3> QED BY <2>5, <3>2, <3>3
  <2>7. M = {} <=> l = 0
    <3>1. CASE l = 0
      BY <2>6, <3>1
    <3>2. CASE l # 0
      <4>1. 1 \in 1 .. l
        BY <2>6, <3>2
      <4>2. o[1] \in M
        BY <2>6, <4>1
      <4> QED BY <3>2, <4>2
    <3> QED BY <3>1, <3>2
  <2>8. \A s \in Sides : IF M = {} THEN Outermost(t, s) = Nil ELSE IsOuter(Outermost(t, s), M, s)
    <3> SUFFICES ASSUME NEW s \in Sides
                 PROVE  IF M = {} THEN Outermost(t, s) = Nil ELSE IsOuter(Outermost(t, s), M, s)
      OBVIOUS
    <3>1. CASE t.root = Nil
      BY <2>2, <3>1 DEF Members, Below, Outermost
    <3>2. CASE t.root # Nil
      <4>1. t.root \in M /\ M = D[t.root]
        BY <2>2, <2>3, <3>2 DEF Shape, Members, Below
      <4>2. IsOuter(Down(t, t.root, s), D[t.root], s)
        BY <2>2, <2>3, <4>1, DownIs
      <4> QED BY <3>2, <4>1, <4>2 DEF Outermost
    <3> QED BY <3>1, <3>2
  <2>9. ASSUME l # 0
        PROVE  IsOuter(o[1], M, "left") /\ IsOuter(o[l], M, "right") /\ 1 \in 1 .. l /\ l \in 1 .. l
    <3>1. 1 \in 1 .. l /\ l \in 1 .. l
      BY <2>6, <2>9
    <3>2. \A k \in 1 .. l : (k = 1 \/ 1 < k) /\ (k = l \/ k < l)
      BY <2>6
    <3> QED BY <2>6, <3>1, <3>2 DEF IsOuter, On
  <2>10. \A k \in 1 .. l : o[k] \in M /\ o[k] \in Nodes
    BY <2>3, <2>6
  <2>11. ASSUME NEW k \in 1 .. l
         PROVE  /\ IsNext(IF k + 1 \in 1 .. l THEN o[k + 1] ELSE Nil, M, {o[k]}, "right")
                /\ IsNext(IF k - 1 \in 1 .. l THEN o[k - 1] ELSE Nil, M, {o[k]}, "left")
    <3>0. \A j \in 1 .. l : Key[o[j]] \in Nat
      BY <2>10, NilFacts
    <3>1. \A j \in 1 .. l : /\ Beyond(o[j], M, {o[k]}, "right") <=> k < j
                            /\ Beyond(o[j], M, {o[k]}, "left") <=> j < k
      <4> SUFFICES ASSUME NEW j \in 1 .. l
                   PROVE  /\ Key[o[k]] < Key[o[j]] <=> k < j
                          /\ Key[o[j]] < Key[o[k]] <=> j < k
        BY <2>10 DEF Beyond, On
      <4>1. j < k \/ j = k \/ k < j
        OBVIOUS
      <4> QED BY <2>6, <3>0, <4>1
    <3>2. ASSUME k + 1 \in 1 .. l PROVE IsNext(IF k + 1 \in 1 .. l THEN o[k + 1] ELSE Nil, M, {o[k]}, "right")
      <4>1. \A j \in 1 .. l : k < j => j = k + 1 \/ k + 1 < j
        OBVIOUS
      <4>2. \A j \in 1 .. l : k < j => o[j] = o[k + 1] \/ On("right", o[j], o[k + 1])
        BY <2>6, <3>2, <4>1 DEF On
      <4>3. Beyond(o[k + 1], M, {o[k]}, "right")
        BY <3>1, <3>2
      <4>4. \A v \in M : Beyond(v, M, {o[k]}, "right") => v = o[k + 1] \/ On("right", v, o[k + 1])
        BY <2>6, <3>1, <4>2
      <4>5. IsNext(o[k + 1], M, {o[k]}, "right")
        BY <4>3, <4>4 DEF IsNext
      <4> QED BY <3>2, <4>5
    <3>3. ASSUME k + 1 \notin 1 .. l PROVE IsNext(IF k + 1 \in 1 .. l THEN o[k + 1] ELSE Nil, M, {o[k]}, "right")
      <4>1. \A j \in 1 .. l : ~(k < j)
        BY <2>6, <3>3
      <4>2. IsNext(Nil, M, {o[k]}, "right")
        BY <2>6, <3>1, <4>1 DEF IsNext
      <4> QED BY <3>3, <4>2
    <3>4. ASSUME k - 1 \in 1 .. l PROVE IsNext(IF k - 1 \in 1 .. l THEN o[k - 1] ELSE Nil, M, {o[k]}, "left")
      <4>1. \A j \in 1 .. l : j < k => j = k - 1 \/ j < k - 1
        OBVIOUS
      <4>2. \A j \in 1 .. l : j < k => o[j] = o[k - 1] \/ On("left", o[j], o[k - 1])
        BY <2>6, <3>4, <4>1 DEF On
      <4>3. Beyond(o[k - 1], M, {o[k]}, "left")
        BY <3>1, <3>4
      <4>4. \A v \in M : Beyond(v, M, {o[k]}, "left") => v = o[k - 1] \/ On("left", v, o[k - 1])
        BY <2>6, <3>1, <4>2
      <4>5. IsNext(o[k - 1], M, {o[k]}, "left")
        BY <4>3, <4>4 DEF IsNext
      <4> QED BY <3>4, <4>5
    <3>5. ASSUME k - 1 \notin 1 .. l PROVE IsNext(IF k - 1 \in 1 .. l THEN o[k - 1] ELSE Nil, M, {o[k]}, "left")
      <4>1. \A j \in 1 .. l : ~(j < k)
        BY <2>6, <3>5
      <4>2. IsNext(Nil, M, {o[k]}, "left")
        BY <2>6, <3>1, <4>1 DEF IsNext
      <4> QED BY <3>5, <4>2
    <3> QED BY <3>2, <3>3, <3>4, <3>5
  <2> DEFINE At(k) == IF k \in 1 .. l THEN o[k] ELSE Nil
  <2>12. /\ ends["left"] = At(1) /\ ends["right"] = At(l)
         /\ Outermost(t, "left") = At(1) /\ Outermost(t, "right") = At(l)
    <3>0. "left" \in Sides /\ "right" \in Sides
      BY DEF Sides
    <3>1. CASE l = 0
      <4>1. 1 \notin 1 .. l /\ l \notin 1 .. l /\ M = {}
        BY <2>7, <3>1
      <4> QED BY <2>3, <2>8, <3>0, <4>1 DEF EndsOf
    <3>2. CASE l # 0
      <4>1. M # {} /\ At(1) = o[1] /\ At(l) = o[l]
        BY <2>7, <2>9, <3>2
      <4>2. IsOuter(o[1], M, "left") /\ IsOuter(o[l], M, "right")
        BY <2>9, <3>2
      <4>3. /\ IsOuter(ends["left"], M, "left") /\ IsOuter(ends["right"], M, "right")
            /\ IsOuter(Outermost(t, "left"), M, "left") /\ IsOuter(Outermost(t, "right"), M, "right")
        BY <2>3, <2>8, <3>0, <4>1 DEF EndsOf
      <4>4. ends["left"] = o[1] /\ ends["right"] = o[l]
        BY <2>3, <3>0, <4>2, <4>3, OuterUnique
      <4>5. Outermost(t, "left") = o[1] /\ Outermost(t, "right") = o[l]
        BY <2>3, <3>0, <4>2, <4>3, OuterUnique
      <4> QED BY <4>1, <4>4, <4>5
    <3> QED BY <3>1, <3>2
  <2>13. ASSUME NEW k \in 1 .. l
         PROVE  Neighbour(t, o[k], "right") = At(k + 1) /\ Neighbour(t, o[k], "left") = At(k - 1)
    <3>0. "left" \in Sides /\ "right" \in Sides
      BY DEF Sides
    <3>1. /\ IsNext(Neighbour(t, o[k], "right"), M, {o[k]}, "right")
          /\ IsNext(Neighbour(t, o[k], "left"), M, {o[k]}, "left")
      BY <2>2, <2>3, <2>10, <3>0, NeighbourIs
    <3>2. IsNext(At(k + 1), M, {o[k]}, "right") /\ IsNext(At(k - 1), M, {o[k]}, "left")
      BY <2>11
    <3> HIDE DEF At
    <3> QED BY <2>3, <3>0, <3>1, <3>2, NextUnique
  <2> QED BY <2>4, <2>5, <2>12, <2>13 DEF WalksAgree
<1> QED BY <1>1, InvariantHolds, PTL
=============================================================================
