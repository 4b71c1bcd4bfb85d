------------------------------ MODULE ThirdMax ------------------------------
(***************************************************************************)
(* src/414.c: the third largest of the distinct numbers of an array, by    *)
(* putting them into a red-black tree one by one.  As in MedianFinder the  *)
(* turns of the loops are steps of their own.  The array is not fixed in   *)
(* advance: its next number is chosen when it is looked at.                *)
(***************************************************************************)
EXTENDS LinkedTree

CONSTANTS Numbers, NoResult

VARIABLES tree,
          pc,       \* "idle" between two insertions, "descend" and "climb" in
                    \* insertValue, "fixup" in fixInsert, "done"
          val,      \* the number to insert
          x, y, z,  \* x: the node a loop has come to, y: the one before it, z: the new node
          result,
          seen      \* history: the numbers the array has had so far

vars == <<tree, pc, val, x, y, z, result, seen>>

Init ==
    /\ tree = EmptyTree
    /\ pc = "idle"
    /\ val \in Numbers
    /\ x = Nil /\ y = Nil /\ z = Nil
    /\ result = NoResult
    /\ seen = {}

insertValue(num) ==
    /\ pc = "idle"
    /\ num \in seen \/ tree.count < MaxNodes
    /\ pc' = "descend"
    /\ val' = num /\ seen' = seen \cup {num}
    /\ x' = tree.root /\ y' = Nil
    /\ UNCHANGED <<tree, z, result>>

Descend ==
    /\ pc = "descend" /\ x # Nil
    /\ val # tree.val[x]
    /\ y' = x /\ x' = tree.child[SideFor(tree, x, val)][x]
    /\ UNCHANGED <<tree, pc, val, z, result, seen>>

Duplicate ==
    /\ pc = "descend" /\ x # Nil
    /\ val = tree.val[x]
    /\ pc' = "idle"
    /\ UNCHANGED <<tree, val, x, y, z, result, seen>>

Attach ==
    /\ pc = "descend" /\ x = Nil
    /\ tree' = Hang(newNode(tree, val), y, tree.count + 1)
    /\ z' = tree.count + 1 /\ x' = z'
    /\ pc' = "climb"
    /\ UNCHANGED <<val, y, result, seen>>

\* The sizes are computed anew from z up to the root.
\* Mutant: only the new node's parent is brought up to date.
AfterMutant(n) == IF n = z THEN tree.parent[n] ELSE Nil
After(n) == tree.parent[n]
Climb ==
    /\ pc = "climb" /\ x # Nil
    /\ tree' = Resized(tree, x)
    /\ x' = After(x)
    /\ UNCHANGED <<pc, val, y, z, result, seen>>

Climbed ==
    /\ pc = "climb" /\ x = Nil
    /\ pc' = "fixup"
    /\ UNCHANGED <<tree, val, x, y, z, result, seen>>

-----------------------------------------------------------------------------
\* fixInsert.  Both branches look for the uncle on the right of the grandparent;
\* in the second one that is the parent itself, which is red, so the rotations
\* of lines 117 to 127 are not reached (TreeSound).
Parent == tree.parent[z]
Grandparent == tree.parent[Parent]
OnLeft == Grandparent # Nil /\ Parent = tree.child["left"][Grandparent]
Uncle == IF Grandparent = Nil THEN Nil ELSE tree.child["right"][Grandparent]
Clash == pc = "fixup" /\ z # tree.root /\ IsRed(tree, Parent)

Recolour ==
    /\ Clash /\ IsRed(tree, Uncle)
    /\ tree' = Redden(Blacken(tree, {Parent, Uncle}), Grandparent)
    /\ z' = Grandparent
    /\ UNCHANGED <<pc, val, x, y, result, seen>>

\* leftRotate and rightRotate do nothing where there is nothing to turn.
GuardedRotate(t, side, n) ==
    IF n = Nil \/ t.child[Opposite(side)][n] = Nil THEN t ELSE Rotate(t, side, n)

TurnParent ==
    /\ Clash /\ OnLeft /\ ~IsRed(tree, Uncle)
    /\ z = tree.child["right"][Parent]
    /\ tree' = GuardedRotate(tree, "left", Parent)
    /\ z' = Parent
    /\ UNCHANGED <<pc, val, x, y, result, seen>>

TurnGrandparent ==
    /\ Clash /\ OnLeft /\ ~IsRed(tree, Uncle)
    /\ z # tree.child["right"][Parent]
    /\ tree' = GuardedRotate(Redden(Blacken(tree, {Parent}), Grandparent), "right", Grandparent)
    /\ UNCHANGED <<pc, val, x, y, z, result, seen>>

Fixed ==
    /\ pc = "fixup" /\ ~Clash
    /\ tree' = Blacken(tree, {tree.root})
    /\ pc' = "idle"
    /\ x' = Nil /\ y' = Nil /\ z' = Nil
    /\ UNCHANGED <<val, result, seen>>

\* The end of thirdMax, for an array that has a number.
\* Mutant: with exactly three numbers the largest is taken.
PlaceMutant(n) == IF n <= 3 THEN 1 ELSE 3
Place(n) == IF n < 3 THEN 1 ELSE 3
Answer ==
    /\ pc = "idle" /\ tree.root # Nil
    /\ result' = Kth(tree, "right", Place(nodeSize(tree, tree.root)))
    /\ pc' = "done"
    /\ UNCHANGED <<tree, val, x, y, z, seen>>

Next ==
    \/ \E num \in Numbers : insertValue(num)
    \/ Descend \/ Duplicate \/ Attach \/ Climb \/ Climbed
    \/ Recolour \/ TurnParent \/ TurnGrandparent \/ Fixed
    \/ Answer

Spec == Init /\ [][Next]_vars

-----------------------------------------------------------------------------
\* The tree stays a search tree of the numbers seen at every turn of the fixup,
\* with right sizes: the colours are lost on the right-hand side, where the
\* fixup looks at the wrong uncle (line 109), but nothing the answer needs is.
\* A red parent has a grandparent, so no null pointer is followed, and on the
\* right-hand side the uncle found is the parent itself.
TreeSound ==
    /\ WellLinked(tree) /\ Ordered(tree)
    /\ Members(tree) = 1 .. tree.count
    /\ Clash => Grandparent # Nil /\ (~OnLeft => Uncle = Parent)
    /\ pc \in {"idle", "fixup", "done"} =>
           /\ {tree.val[n] : n \in Members(tree)} = seen
           /\ Cardinality(seen) = tree.count
           /\ \A n \in Members(tree) : tree.size[n] = Cardinality(Subtree(tree, n))

\* The result is the third largest of the distinct numbers of the array, or the
\* largest if there are not three of them.
Above(n) == {m \in seen : m > n}
ThirdMaxIsRight ==
    pc = "done" =>
        /\ result \in seen
        /\ Cardinality(Above(result)) = IF Cardinality(seen) < 3 THEN 0 ELSE 2

=============================================================================
