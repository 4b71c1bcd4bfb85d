----------------------------- MODULE NumberBag -----------------------------
(***************************************************************************)
(* What src/1206.c promises: a collection of numbers with repetitions, to  *)
(* which one adds, from which one erases one occurrence at a time, and     *)
(* which one can search.                                                   *)
(***************************************************************************)
EXTENDS Integers

CONSTANTS Vals, NoAnswer

VARIABLES times,    \* times[v]: how often v is in the collection
          answer    \* of the last call; NoAnswer if it has none

bagVars == <<times, answer>>

Init == times = [v \in Vals |-> 0] /\ answer = NoAnswer

Add(v) == times' = [times EXCEPT ![v] = @ + 1] /\ answer' = NoAnswer

Search(v) == answer' = (times[v] > 0) /\ UNCHANGED times

Erase(v) ==
    /\ answer' = (times[v] > 0)
    /\ times' = IF times[v] > 0 THEN [times EXCEPT ![v] = @ - 1] ELSE times

Free == times' = [v \in Vals |-> 0] /\ answer' = NoAnswer

Next == Free \/ \E v \in Vals : Add(v) \/ Search(v) \/ Erase(v)

Spec == Init /\ [][Next]_bagVars

=============================================================================
