---------------------------- MODULE MedianFinder ----------------------------
(***************************************************************************)
(* src/295.c: the median of a growing collection of numbers, from a red-   *)
(* black tree whose nodes know the sizes of their subtrees.  The turns of  *)
(* the two loops of an insertion are steps of their own, so that what the  *)
(* loops keep up can be stated.                                            *)
(***************************************************************************)
EXTENDS LinkedTree

CONSTANTS Numbers,    \* the numbers added, small enough for the sum of two not to overflow
          NoAnswer

VARIABLES tree,
          pc,        \* "idle", "descend" in insertRBT, "fixup" in insertFixup, "freed"
          x, y,      \* insertRBT's search: the next node and the one before it
          z,         \* the new node, and where the fixup has got to
          answer     \* twice the last median

vars == <<tree, pc, x, y, z, answer>>

\* medianFinderCreate.
Init ==
    /\ tree = EmptyTree
    /\ pc = "idle"
    /\ x = Nil /\ y = Nil /\ z = Nil
    /\ answer = NoAnswer

\* medianFinderAddNum, to the top of the search loop.
AddNum(num) ==
    /\ pc = "idle" /\ tree.count < MaxNodes
    /\ tree' = newNode(tree, num)
    /\ z' = tree.count + 1
    /\ x' = tree.root /\ y' = Nil
    /\ pc' = "descend"
    /\ UNCHANGED answer

Descend ==
    /\ pc = "descend" /\ x # Nil
    /\ tree' = [tree EXCEPT !.size[x] = @ + 1]
    /\ y' = x
    /\ x' = tree.child[SideFor(tree, x, tree.val[z])][x]
    /\ UNCHANGED <<pc, z, answer>>

Attach ==
    /\ pc = "descend" /\ x = Nil
    /\ tree' = Hang(tree, y, z)
    /\ pc' = "fixup"
    /\ answer' = NoAnswer
    /\ UNCHANGED <<x, y, z>>

-----------------------------------------------------------------------------
\* insertFixup: one action per turn of its loop.
Parent == tree.parent[z]
Grandparent == tree.parent[Parent]
ParentSide == IF Parent = tree.child["left"][Grandparent] THEN "left" ELSE "right"
Uncle == tree.child[Opposite(ParentSide)][Grandparent]
Clash == pc = "fixup" /\ IsRed(tree, Parent)

Recolour ==
    /\ Clash /\ IsRed(tree, Uncle)
    /\ tree' = Redden(Blacken(tree, {Parent, Uncle}), Grandparent)
    /\ z' = Grandparent
    /\ UNCHANGED <<pc, x, y, answer>>

\* An inner grandchild is rotated outwards first; z is then its old parent.
\* Mutant: z stays where it was.
StraightenMutant(side) ==
    IF z = tree.child[Opposite(side)][Parent]
    THEN [tree |-> Rotate(tree, side, Parent), z |-> z]
    ELSE [tree |-> tree, z |-> z]
Straighten(side) ==
    IF z = tree.child[Opposite(side)][Parent]
    THEN [tree |-> Rotate(tree, side, Parent), z |-> Parent]
    ELSE [tree |-> tree, z |-> z]

Restructure ==
    /\ Clash /\ ~IsRed(tree, Uncle)
    /\ LET s == Straighten(ParentSide)
           t == Redden(Blacken(s.tree, {s.tree.parent[s.z]}), Grandparent)
       IN  /\ tree' = Rotate(t, Opposite(ParentSide), Grandparent)
           /\ z' = s.z
    /\ UNCHANGED <<pc, x, y, answer>>

Fixed ==
    /\ pc = "fixup" /\ ~IsRed(tree, Parent)
    /\ tree' = Blacken(tree, {tree.root})
    /\ pc' = "idle"
    /\ x' = Nil /\ y' = Nil /\ z' = Nil
    /\ UNCHANGED answer

-----------------------------------------------------------------------------
\* medianFinderFindMedian, called when there is a number.
\* Mutant: the upper one of two middle numbers is taken for both.
MiddleMutant(n) == <<n \div 2 + 1, n \div 2 + 1>>
Middle(n) == IF n % 2 = 1 THEN <<n \div 2 + 1, n \div 2 + 1>> ELSE <<n \div 2, n \div 2 + 1>>

FindMedian ==
    /\ pc = "idle" /\ tree.root # Nil
    /\ LET middle == Middle(nodeSize(tree, tree.root))
       IN  answer' = Kth(tree, "left", middle[1]) + Kth(tree, "left", middle[2])
    /\ UNCHANGED <<tree, pc, x, y, z>>

\* medianFinderFree; the nodes go with the finder.
Free ==
    /\ pc = "idle"
    /\ tree' = EmptyTree
    /\ pc' = "freed"
    /\ answer' = NoAnswer
    /\ UNCHANGED <<x, y, z>>

Next ==
    \/ \E num \in Numbers : AddNum(num)
    \/ Descend \/ Attach
    \/ Recolour \/ Restructure \/ Fixed
    \/ FindMedian \/ Free

Spec == Init /\ [][Next]_vars

-----------------------------------------------------------------------------
\* The links, the order and the sizes that kthSmallest relies on are right at
\* every turn of the two loops; a search has counted the new node already in
\* the nodes it has passed.
Passed == {n \in Members(tree) : pc = "descend" /\ IsAncestor(tree, n, y)}
SearchTree ==
    /\ WellLinked(tree) /\ Ordered(tree)
    /\ Members(tree) = IF pc = "descend" THEN (1 .. tree.count) \ {z} ELSE 1 .. tree.count
    /\ \A n \in Members(tree) :
           tree.size[n] = Cardinality(Subtree(tree, n)) + IF n \in Passed THEN 1 ELSE 0

\* The search tree has the colours that bound its depth: as many black nodes on
\* every way down, also between two turns of the fixup, and no red child of a red
\* node except z under its parent; the root is black when the fixup is done.
RedBlack ==
    /\ SearchTree
    /\ EqualBlackDepths(tree)
    /\ \A n \in Members(tree) \cap tree.red :
           \/ ~IsRed(tree, tree.parent[n]) /\ (n = tree.root => pc = "fixup" /\ n = z)
           \/ pc = "fixup" /\ n = z

\* The finder implements MedianStore: a number counts once it is in the tree, and
\* the answer is the median of all that have been added.
TimesIn(t) == [v \in Numbers |-> Cardinality({n \in Members(t) : t.val[n] = v})]
Store == INSTANCE MedianStore
             WITH Values <- Numbers, None <- NoAnswer, times <- TimesIn(tree), twice <- answer
ImplementsMedianStore == Store!Spec

=============================================================================
