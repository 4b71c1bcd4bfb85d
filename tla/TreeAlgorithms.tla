-------------------------- MODULE TreeAlgorithms --------------------------
(***************************************************************************)
(* The functions on binary trees and lists of src/450.c, 98.c, 700.c, 94.c,*)
(* 104.c, 100.c, 1382.c, 109.c and 876.c.  They get a tree or a list that  *)
(* nothing else points into, so a tree is NULL or a record with its        *)
(* subtrees in it, and a list is the sequence of its values.  The          *)
(* recursions are functions on trees and on places of a list.              *)
(***************************************************************************)
EXTENDS FiniteSetsExt, Integers, SequencesExt

CONSTANTS LONG_MAX,   \* of limits.h: above every int
          Levels      \* bound: the levels of a tree

LONG_MIN == -LONG_MAX - 1
Ints == LONG_MIN + 1 .. LONG_MAX - 1

NULL == <<>>
TreeNode(v, l, r) == [val |-> v, left |-> l, right |-> r]

\* The trees of at most so many levels.
UpTo(levels) ==
    LET trees[n \in 0 .. levels] ==
            IF n = 0 THEN {NULL}
            ELSE {NULL} \cup [val : Ints, left : trees[n - 1], right : trees[n - 1]]
    IN  trees[levels]

Tree == UpTo(Levels)

-----------------------------------------------------------------------------
\* 450.c
findMin(node) ==
    LET least[t \in Tree \ {NULL}] == IF t.left = NULL THEN t ELSE least[t.left]
    IN  least[node]

\* Mutant: a node with two children takes over the value of its right child.
deleteNodeMutant(root, key) ==
    LET without[t \in Tree] ==
            [k \in Int |->
                IF t = NULL THEN NULL
                ELSE IF k < t.val THEN TreeNode(t.val, without[t.left][k], t.right)
                ELSE IF k > t.val THEN TreeNode(t.val, t.left, without[t.right][k])
                ELSE IF t.left = NULL THEN t.right
                ELSE IF t.right = NULL THEN t.left
                ELSE TreeNode(t.right.val, t.left, without[t.right][t.right.val])]
    IN  without[root][key]
deleteNode(root, key) ==
    LET without[t \in Tree] ==
            [k \in Int |->
                IF t = NULL THEN NULL
                ELSE IF k < t.val THEN TreeNode(t.val, without[t.left][k], t.right)
                ELSE IF k > t.val THEN TreeNode(t.val, t.left, without[t.right][k])
                ELSE IF t.left = NULL THEN t.right
                ELSE IF t.right = NULL THEN t.left
                ELSE LET temp == findMin(t.right)
                     IN  TreeNode(temp.val, t.left, without[t.right][temp.val])]
    IN  without[root][key]

\* 98.c
helper(node, min, max) ==
    LET within[t \in Tree] ==
            [b \in Int \X Int |->
                t = NULL \/ /\ t.val > b[1] /\ t.val < b[2]
                            /\ within[t.left][<<b[1], t.val>>]
                            /\ within[t.right][<<t.val, b[2]>>]]
    IN  within[node][<<min, max>>]

isValidBST(root) == helper(root, LONG_MIN, LONG_MAX)

\* 700.c
searchBST(root, v) ==
    LET found[t \in Tree] ==
            IF t = NULL \/ t.val = v THEN t ELSE found[IF v < t.val THEN t.left ELSE t.right]
    IN  found[root]

\* 94.c: root, the stack and the result.  An iteration of the outer loop takes a node
\* from the stack, after the inner loop has put the way down to the left on it.
inorderTraversal(root) ==
    LET visit[s \in Tree \X Seq(Tree \ {NULL}) \X Seq(Int)] ==
            IF s[1] # NULL THEN visit[<<s[1].left, Append(s[2], s[1]), s[3]>>]
            ELSE IF s[2] = <<>> THEN s[3]
            ELSE visit[<<Last(s[2]).right, Front(s[2]), Append(s[3], Last(s[2]).val)>>]
    IN  visit[<<root, <<>>, <<>>>>]

\* 104.c
maxDepth(root) ==
    LET depth[t \in Tree] == IF t = NULL THEN 0 ELSE Max({depth[t.left], depth[t.right]}) + 1
    IN  depth[root]

\* 100.c
isSameTree(p, q) ==
    LET same[t \in Tree] ==
            [u \in Tree |->
                IF t = NULL \/ u = NULL THEN t = NULL /\ u = NULL
                ELSE t.val = u.val /\ same[t.left][u.left] /\ same[t.right][u.right]]
    IN  same[p][q]

\* 1382.c: the nodes in order, linked anew; only their values stay.
inorder(root) ==
    LET arr[t \in Tree] == IF t = NULL THEN <<>> ELSE arr[t.left] \o <<t.val>> \o arr[t.right]
    IN  arr[root]

buildBalanced(arr, start, end) ==
    LET built[p \in (1 .. Len(arr) + 1) \X (0 .. Len(arr))] ==
            IF p[1] > p[2] THEN NULL
            ELSE LET mid == p[1] + (p[2] - p[1]) \div 2
                 IN  TreeNode(arr[mid], built[<<p[1], mid - 1>>], built[<<mid + 1, p[2]>>])
    IN  built[<<start, end>>]

balanceBST(root) == buildBalanced(inorder(root), 1, Len(inorder(root)))

\* 109.c and 876.c: where slow is when fast can go no further towards end.
Middle(start, end) ==
    LET slow[p \in Nat \X (0 .. end)] ==
            IF p[2] # end /\ p[2] + 1 # end THEN slow[<<p[1] + 1, p[2] + 2>>] ELSE p[1]
    IN  slow[<<start, start>>]

\* 109.c
buildTree(list, start, end) ==
    LET Stretches == {p \in (1 .. Len(list) + 1) \X (1 .. Len(list) + 1) : p[1] <= p[2]}
        built[p \in Stretches] ==
            IF p[1] = p[2] THEN NULL
            ELSE LET slow == Middle(p[1], p[2])
                 IN  TreeNode(list[slow], built[<<p[1], slow>>], built[<<slow + 1, p[2]>>])
    IN  built[<<start, end>>]

sortedListToBST(list) == buildTree(list, 1, Len(list) + 1)

\* 876.c
middleNode(list) == Middle(1, Len(list) + 1)

-----------------------------------------------------------------------------
Ascending(s) == \A i \in 2 .. Len(s) : s[i - 1] < s[i]

\* The fewest levels that n nodes fit into.
Lowest(n) ==
    LET full[d \in Nat] == IF d = 0 THEN 0 ELSE 2 * full[d - 1] + 1
    IN  Min({d \in 0 .. n : n <= full[d]})

\* The stack of 94.c gives the order that the recursion of 1382.c gives; 98.c takes
\* a tree for a search tree exactly if that order is ascending.
TraversalIsRight(t) == inorderTraversal(t) = inorder(t) /\ isValidBST(t) = Ascending(inorder(t))

\* In a search tree, whatever the key: 700.c finds it if it is there, and 450.c takes
\* exactly it out and leaves a search tree; 100.c sees whether anything has changed.
SearchIsRight(t) ==
    LET vals == Range(inorder(t))
    IN  isValidBST(t) =>
            \A key \in UNION {v - 1 .. v + 1 : v \in vals \cup {0}} :
                /\ Ascending(inorder(deleteNode(t, key)))
                /\ Range(inorder(deleteNode(t, key))) = vals \ {key}
                /\ searchBST(t, key) = NULL <=> key \notin vals
                /\ searchBST(t, key) # NULL => searchBST(t, key).val = key
                /\ isSameTree(t, deleteNode(t, key)) <=> key \notin vals

\* The trees built by 1382.c and 109.c hold the same values in the same order and
\* are as low as 104.c can measure, and 876.c gives the second of two middles.
BuiltIsRight(t) ==
    LET s == inorder(t)
    IN  /\ \A built \in {balanceBST(t), sortedListToBST(s)} :
               inorder(built) = s /\ maxDepth(built) = Lowest(Len(s))
        /\ s # <<>> => middleNode(s) = Len(s) \div 2 + 1

\* All trees of n nodes with these values.
TreesOf(n, vals) ==
    LET of[m \in 0 .. n] ==
            IF m = 0 THEN {NULL}
            ELSE UNION {{TreeNode(v, l, r) : v \in vals, l \in of[s], r \in of[m - 1 - s]}
                        : s \in 0 .. m - 1}
    IN  of[n]

=============================================================================
