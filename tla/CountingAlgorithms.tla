------------------------ MODULE CountingAlgorithms ------------------------
(***************************************************************************)
(* Three ways to count without looking at every pair: the Fenwick tree of  *)
(* src/1649.c, the search tree with counts of src/315.c and the merge sort *)
(* of src/327.c.  Arrays are sequences, so positions count from 1.         *)
(***************************************************************************)
EXTENDS FiniteSetsExt, Integers, SequencesExt

CONSTANTS MAX_VAL, MOD   \* of 1649.c: the largest instruction, and 1000000007

-----------------------------------------------------------------------------
\* 1649.c.  index & -index is the lowest bit of index that is set.
LowBit(index) ==
    LET lowest[n \in Nat \ {0}] == IF n % 2 = 1 THEN 1 ELSE 2 * lowest[n \div 2]
    IN  lowest[index]

update(bit, index, v) ==
    LET after[n \in Nat \ {0}] ==
            IF n > MAX_VAL THEN bit ELSE [after[n + LowBit(n)] EXCEPT ![n] = @ + v]
    IN  after[index]

query(bit, index) ==
    LET res[n \in 0 .. MAX_VAL] == IF n = 0 THEN 0 ELSE bit[n] + res[n - LowBit(n)]
    IN  res[index]

\* bit and cost after the first instructions.
createSortedArray(instructions) ==
    LET after[i \in 0 .. Len(instructions)] ==
            IF i = 0 THEN [bit |-> [p \in 1 .. MAX_VAL |-> 0], cost |-> 0]
            ELSE LET s == after[i - 1]
                     x == instructions[i]
                     less == query(s.bit, x - 1)
                     greater == i - 1 - query(s.bit, x)
                 IN  [bit |-> update(s.bit, x, 1),
                      cost |-> (s.cost + Min({less, greater})) % MOD]
    IN  after[Len(instructions)].cost

-----------------------------------------------------------------------------
\* 315.c.  A tree is NULL or a node; its count is the size of its left subtree.
NULL == <<>>

\* The trees of at most so many levels.
Trees(levels) ==
    LET trees[n \in 0 .. levels] ==
            IF n = 0 THEN {NULL}
            ELSE {NULL} \cup [val : Int, count : Int, left : trees[n - 1], right : trees[n - 1]]
    IN  trees[levels]

\* Mutant: the root is not counted on the way to the right.
insertMutant(levels, root, v, count) ==
    LET into[a \in Trees(levels) \X Int] ==
            LET t == a[1]
                c == a[2]
            IN  IF t = NULL
                THEN [root |-> [val |-> v, count |-> 0, left |-> NULL, right |-> NULL], smaller |-> c]
                ELSE IF v <= t.val
                THEN LET l == into[<<t.left, c>>]
                     IN  [root |-> [t EXCEPT !.count = @ + 1, !.left = l.root], smaller |-> l.smaller]
                ELSE LET r == into[<<t.right, c + t.count>>]
                     IN  [root |-> [t EXCEPT !.right = r.root], smaller |-> r.smaller]
    IN  into[<<root, count>>]
\* Into a tree of at most so many levels.
insert(levels, root, v, count) ==
    LET into[a \in Trees(levels) \X Int] ==
            LET t == a[1]
                c == a[2]
            IN  IF t = NULL
                THEN [root |-> [val |-> v, count |-> 0, left |-> NULL, right |-> NULL], smaller |-> c]
                ELSE IF v <= t.val
                THEN LET l == into[<<t.left, c>>]
                     IN  [root |-> [t EXCEPT !.count = @ + 1, !.left = l.root], smaller |-> l.smaller]
                ELSE LET r == into[<<t.right, c + t.count + 1>>]
                     IN  [root |-> [t EXCEPT !.right = r.root], smaller |-> r.smaller]
    IN  into[<<root, count>>]

\* From the last number to the first: the tree and the answer after so many of them.
countSmaller(nums) ==
    LET after[n \in 0 .. Len(nums)] ==
            IF n = 0 THEN [root |-> NULL, smaller |-> 0]
            ELSE insert(n - 1, after[n - 1].root, nums[Len(nums) - n + 1], 0)
    IN  [i \in 1 .. Len(nums) |-> after[Len(nums) - i + 1].smaller]

-----------------------------------------------------------------------------
\* 327.c.  Where a while loop over the places below right stops that goes on as long as
\* what stands there is less than bound.
Stop(s, from, right, bound) ==
    CHOOSE p \in from .. right :
        /\ p = right \/ s[p] >= bound
        /\ \A q \in from .. p - 1 : s[q] < bound

\* The loop over the left half, after the turn for place i: k, j and t only ever move to
\* the right.
Turns(s, left, mid, right, lower, upper, count) ==
    LET turn[i \in left - 1 .. mid - 1] ==
            IF i = left - 1
            THEN [k |-> mid, j |-> mid, t |-> mid, cache |-> <<>>, count |-> count]
            ELSE LET b == turn[i - 1]
                     k == Stop(s, b.k, right, s[i] + lower)
                     j == Stop(s, b.j, right, s[i] + upper + 1)
                     t == Stop(s, b.t, right, s[i])
                 IN  [k |-> k, j |-> j, t |-> t, count |-> b.count + j - k,
                      cache |-> b.cache \o SubSeq(s, b.t, t - 1) \o <<s[i]>>]
    IN  turn[mid - 1]

\* Sorts the sums from left to right - 1 and counts the pairs among them whose
\* difference is between lower and upper.
mergeCount(sums, left, right, lower, upper) ==
    LET merged[p \in (left .. right) \X (left .. right) \X [DOMAIN sums -> Int]] ==
            LET a == p[1]
                z == p[2]
            IN  IF z - a <= 1 THEN [sums |-> p[3], count |-> 0]
                ELSE LET mid == (a + z) \div 2
                         l == merged[<<a, mid, p[3]>>]
                         r == merged[<<mid, z, l.sums>>]
                         end == Turns(r.sums, a, mid, z, lower, upper, l.count + r.count)
                     IN  [sums |-> SubSeq(r.sums, 1, a - 1) \o end.cache
                                       \o SubSeq(r.sums, end.t, Len(r.sums)),
                          count |-> end.count]
    IN  merged[<<left, right, sums>>]

countRangeSum(nums, lower, upper) ==
    LET sums[n \in 1 .. Len(nums) + 1] == IF n = 1 THEN 0 ELSE sums[n - 1] + nums[n - 1]
    IN  mergeCount(sums, 1, Len(nums) + 2, lower, upper).count

-----------------------------------------------------------------------------
\* The cost of a sorted array is the sum, instruction by instruction, of the
\* smaller one of the numbers of smaller and of larger instructions before it.
CostIsRight(instructions) ==
    LET Smaller(i) == Cardinality({h \in 1 .. i - 1 : instructions[h] < instructions[i]})
        Larger(i) == Cardinality({h \in 1 .. i - 1 : instructions[h] > instructions[i]})
        cost[i \in 0 .. Len(instructions)] ==
            IF i = 0 THEN 0 ELSE cost[i - 1] + Min({Smaller(i), Larger(i)})
    IN  createSortedArray(instructions) = cost[Len(instructions)] % MOD

\* Each entry is the number of smaller numbers to its right, equal ones left out.
SmallerIsRight(nums) ==
    countSmaller(nums) =
        [i \in DOMAIN nums |-> Cardinality({j \in i + 1 .. Len(nums) : nums[j] < nums[i]})]

\* The count is that of the ranges of numbers whose sum is within the bounds.
SumOf(s) ==
    LET sum[n \in 0 .. Len(s)] == IF n = 0 THEN 0 ELSE sum[n - 1] + s[n]
    IN  sum[Len(s)]
RangesAreRight(nums, lower, upper) ==
    countRangeSum(nums, lower, upper) =
        Cardinality({r \in (DOMAIN nums) \X (DOMAIN nums) :
                        r[1] <= r[2] /\ SumOf(SubSeq(nums, r[1], r[2])) \in lower .. upper})

=============================================================================
