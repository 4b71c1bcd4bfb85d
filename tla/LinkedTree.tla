----------------------------- MODULE LinkedTree -----------------------------
(***************************************************************************)
(* Binary trees as src/295.c and src/414.c keep them: nodes with a colour, *)
(* a size, two children and a parent.  A tree is a record of the fields of *)
(* its nodes; the children are told apart by a side, so that what the code *)
(* writes twice, mirrored, is written once.  The steps are those of        *)
(* 295.c; 414.c has the same and guards them.                              *)
(***************************************************************************)
EXTENDS Integers, FiniteSets

CONSTANT MaxNodes    \* nodes are numbered in the order in which malloc gives them out

Nil == 0
TreeNodes == 1 .. MaxNodes
Pointers == TreeNodes \cup {Nil}
Sides == {"left", "right"}
Opposite(side) == IF side = "left" THEN "right" ELSE "left"

EmptyTree ==
    [root |-> Nil, count |-> 0, red |-> {},
     val |-> [n \in TreeNodes |-> 0], size |-> [n \in TreeNodes |-> 0],
     parent |-> [n \in TreeNodes |-> Nil],
     child |-> [side \in Sides |-> [n \in TreeNodes |-> Nil]]]

\* A red node without links.
newNode(t, v) ==
    LET n == t.count + 1
    IN  [t EXCEPT !.count = n, !.val[n] = v, !.size[n] = 1, !.red = @ \cup {n}]

nodeSize(t, n) == IF n = Nil THEN 0 ELSE t.size[n]
Resized(t, n) ==
    [t EXCEPT !.size[n] = 1 + nodeSize(t, t.child["left"][n]) + nodeSize(t, t.child["right"][n])]

\* Where a search for v that does not stop at v goes from n.
SideFor(t, n, v) == IF v < t.val[n] THEN "left" ELSE "right"

\* Hang n below y, or make it the root.
Hang(t, y, n) ==
    LET u == [t EXCEPT !.parent[n] = y]
    IN  IF y = Nil THEN [u EXCEPT !.root = n]
        ELSE [u EXCEPT !.child[SideFor(t, y, t.val[n])][y] = n]

\* Let y take the place of x below x's parent.
Replace(t, x, y) ==
    LET p == t.parent[x]
        u == [t EXCEPT !.parent[y] = p]
    IN  CASE p = Nil -> [u EXCEPT !.root = y]
          [] p # Nil /\ x = t.child["left"][p] -> [u EXCEPT !.child["left"][p] = y]
          [] p # Nil /\ x # t.child["left"][p] -> [u EXCEPT !.child["right"][p] = y]

\* leftRotate and rightRotate: x goes down to the given side, its other child up.
Rotate(t, side, x) ==
    LET up == Opposite(side)
        y == t.child[up][x]
        b == t.child[side][y]
        u == [Replace(t, x, y) EXCEPT !.child[up][x] = b, !.child[side][y] = x, !.parent[x] = y]
        w == IF b = Nil THEN u ELSE [u EXCEPT !.parent[b] = x]
    IN  Resized(Resized(w, x), y)

IsRed(t, n) == n # Nil /\ n \in t.red
Blacken(t, ns) == [t EXCEPT !.red = @ \ ns]
Redden(t, n) == [t EXCEPT !.red = @ \cup {n}]

\* The value at position k, counted from the given side, as kthSmallest and
\* findKthLargest look for it by the sizes; the latter has -1 for a null pointer,
\* the former would follow it.
Kth(t, side, k) ==
    LET find[n \in Pointers] ==
            [i \in Int |->
                LET before == nodeSize(t, t.child[side][n])
                IN  IF n = Nil THEN -1
                    ELSE IF i = before + 1 THEN t.val[n]
                    ELSE IF i <= before THEN find[t.child[side][n]][i]
                    ELSE find[t.child[Opposite(side)][n]][i - before - 1]]
    IN  find[t.root][k]

-----------------------------------------------------------------------------
\* What the trees are, for the properties.  The nodes at and below n, if the
\* links make a tree, and the number of black nodes on the way down to each end.
Members(t) ==
    LET below[d \in Nat] ==
            IF d = 0 THEN {t.root} \ {Nil}
            ELSE {t.child[side][n] : side \in Sides, n \in below[d - 1]} \ {Nil}
    IN  UNION {below[d] : d \in 0 .. MaxNodes}

IsAncestor(t, a, n) ==
    LET above[d \in Nat] ==
            IF d = 0 THEN n
            ELSE IF above[d - 1] = Nil THEN Nil ELSE t.parent[above[d - 1]]
    IN  \E d \in 0 .. MaxNodes : above[d] = a

Subtree(t, n) == {m \in Members(t) : IsAncestor(t, n, m)}

\* Children and parents agree.
WellLinked(t) ==
    LET members == Members(t)
    IN  /\ t.root # Nil => t.parent[t.root] = Nil
        /\ \A n \in members : \A side \in Sides :
               t.child[side][n] # Nil =>
                   /\ t.parent[t.child[side][n]] = n
                   /\ t.child[side][n] # t.child[Opposite(side)][n]
        /\ \A n \in members \ {t.root} : t.parent[n] \in members

\* Below a node, smaller or equal values on the left, greater or equal ones on
\* the right: rotations take equal values to either side.
Ordered(t) ==
    \A n \in Members(t) :
        /\ t.child["left"][n] # Nil =>
               \A m \in Subtree(t, t.child["left"][n]) : t.val[m] <= t.val[n]
        /\ t.child["right"][n] # Nil =>
               \A m \in Subtree(t, t.child["right"][n]) : t.val[m] >= t.val[n]

\* The black nodes from n down along the parents, for every n with a free child.
BlackDepth(t, n) == Cardinality({a \in Members(t) \ t.red : IsAncestor(t, a, n)})
Ends(t) == {n \in Members(t) : \E side \in Sides : t.child[side][n] = Nil}
EqualBlackDepths(t) == \A n, m \in Ends(t) : BlackDepth(t, n) = BlackDepth(t, m)

=============================================================================
