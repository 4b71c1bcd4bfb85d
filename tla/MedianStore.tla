---------------------------- MODULE MedianStore ----------------------------
(***************************************************************************)
(* What src/295.c promises: numbers are added, with repetitions, and the   *)
(* median of those added so far is given on request.                       *)
(***************************************************************************)
EXTENDS Integers, FiniteSetsExt

CONSTANTS Values, None

VARIABLES times,    \* times[v]: how often v has been added
          twice     \* the answer to the last request, as twice the median

storeVars == <<times, twice>>

Init == times = [v \in Values |-> 0] /\ twice = None

Total == MapThenSumSet(LAMBDA v : times[v], Values)
UpTo(v) == MapThenSumSet(LAMBDA w : times[w], {w \in Values : w <= v})

\* The number at position k when they are put in order.
At(k) == CHOOSE v \in Values : UpTo(v) >= k /\ UpTo(v) - times[v] < k

AddNum(v) == times' = [times EXCEPT ![v] = @ + 1] /\ twice' = None

FindMedian ==
    /\ Total > 0
    /\ twice' = At((Total + 1) \div 2) + At(Total \div 2 + 1)
    /\ UNCHANGED times

Free == Init'

Next == Free \/ FindMedian \/ \E v \in Values : AddNum(v)

Spec == Init /\ [][Next]_storeVars

=============================================================================
