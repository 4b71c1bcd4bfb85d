------------------------ MODULE MCConcurrentHashMap ------------------------
(***************************************************************************)
(* ConcurrentHashMap for TLC: of the three keys two share a bucket.        *)
(***************************************************************************)
EXTENDS ConcurrentHashMap, TLC

CONSTANTS k1, k2, k3

MCKeys == {k1, k2, k3}
MCHashOf == [k \in MCKeys |-> IF k = k3 THEN 1 ELSE 0]

Symmetry == Permutations(Threads) \cup Permutations(Values) \cup Permutations(Nodes)
                \cup Permutations({k1, k2})

=============================================================================
