--------------------------- MODULE SlidingWindow ---------------------------
(***************************************************************************)
(* src/239.c: the maximum of every window of k numbers of an array, with a *)
(* queue of the positions that can still become a maximum.  The turns of   *)
(* the for loop and of the while loop in it are steps.                     *)
(***************************************************************************)
EXTENDS Integers

CONSTANTS Numbers,     \* what the array holds
          MaxSize      \* bound: the size of the array

VARIABLES nums, numsSize, k,   \* the arguments
          result,              \* as far as it has been written
          dq, head, tail, i,   \* the locals
          pc                   \* "expire" in line 16, "pop" in line 17 and after

vars == <<nums, numsSize, k, result, dq, head, tail, i, pc>>
arguments == <<nums, numsSize, k>>

\* The early return keeps out an empty array and a window that does not fit.
Init ==
    /\ numsSize \in 1 .. MaxSize
    /\ k \in 1 .. numsSize
    /\ nums \in [0 .. numsSize - 1 -> Numbers]
    /\ result = [r \in {} |-> 0]
    /\ dq = [p \in 0 .. numsSize - 1 |-> 0]
    /\ head = 0 /\ tail = 0 /\ i = 0
    /\ pc = "expire"

\* Mutant: one position too late.
TooOldMutant(p) == p < i - k
TooOld(p) == p <= i - k

Expire ==
    /\ pc = "expire" /\ i < numsSize
    /\ head' = IF head < tail /\ TooOld(dq[head]) THEN head + 1 ELSE head
    /\ pc' = "pop"
    /\ UNCHANGED <<arguments, result, dq, tail, i>>

CanPop == head < tail /\ nums[dq[tail - 1]] <= nums[i]

Pop ==
    /\ pc = "pop" /\ CanPop
    /\ tail' = tail - 1
    /\ UNCHANGED <<arguments, result, dq, head, i, pc>>

Push ==
    /\ pc = "pop" /\ ~CanPop
    /\ dq' = [dq EXCEPT ![tail] = i]
    /\ tail' = tail + 1
    /\ result' = IF i >= k - 1
                 THEN [r \in 0 .. i - k + 1 |-> IF r = i - k + 1 THEN nums[dq'[head]] ELSE result[r]]
                 ELSE result
    /\ i' = i + 1
    /\ pc' = "expire"
    /\ UNCHANGED <<arguments, head>>

Next == Expire \/ Pop \/ Push

Spec == Init /\ [][Next]_vars

-----------------------------------------------------------------------------
\* What has been written of the result is right: entry r is the largest of the k
\* numbers from r on, although a turn drops at most one position that is too old
\* (line 16), and all entries have been written when the loop is over.
IsMaximum(m, r) ==
    /\ \E p \in r .. r + k - 1 : nums[p] = m
    /\ \A p \in r .. r + k - 1 : nums[p] <= m

WindowsAreMaxima ==
    /\ \A r \in DOMAIN result : IsMaximum(result[r], r)
    /\ i = numsSize => DOMAIN result = 0 .. numsSize - k

=============================================================================
