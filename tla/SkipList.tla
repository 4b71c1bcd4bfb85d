------------------------------ MODULE SkipList ------------------------------
(***************************************************************************)
(* src/1206.c: a skip list.  Every node is on the lowest list and on as    *)
(* many of the lists above it as rand decides when it is added, which is   *)
(* any number here.  forward[n] has as many pointers as node n, so that    *)
(* every evaluation of the model stays inside the nodes' arrays.           *)
(***************************************************************************)
EXTENDS Integers, FiniteSets, Sequences

CONSTANTS Vals,
          MAX_LEVEL,
          Nodes,     \* the addresses malloc gives to nodes
          Top,       \* the node at obj->head, which holds no number
          Null

VARIABLES val, forward,   \* the fields of the allocated nodes; the level of n
                          \* is the number of pointers in forward[n]
          level,          \* obj->level
          answer,         \* of the last call; Null if it has none
          freed           \* has skiplistFree been called?

vars == <<val, forward, level, answer, freed>>

\* skiplistCreate.
Init ==
    /\ val = [n \in {} |-> 0]
    /\ forward = [n \in {Top} |-> [i \in 0 .. MAX_LEVEL - 1 |-> Null]]
    /\ level = 1
    /\ answer = Null
    /\ freed = FALSE

live == DOMAIN val

\* The nodes on list i.
Reaching(i) == {n \in live : i \in DOMAIN forward[n]}

\* Where the while loop on list i comes to from node n: the last node before v.
\* Mutant: the descent goes on over equal numbers.
BeforeMutant(i, v) ==
    LET from[n \in Reaching(i) \cup {Top}] ==
            LET next == forward[n][i]
            IN  IF next # Null /\ val[next] <= v THEN from[next] ELSE n
    IN  from
Before(i, v) ==
    LET from[n \in Reaching(i) \cup {Top}] ==
            LET next == forward[n][i]
            IN  IF next # Null /\ val[next] < v THEN from[next] ELSE n
    IN  from

\* The array update of a descent for v; above the level of the list, the head.
update(v) ==
    LET at[i \in 0 .. MAX_LEVEL] == IF i >= level THEN Top ELSE Before(i, v)[at[i + 1]]
    IN  at

\* The node that the lowest list continues with: cur at the end of a descent.
Found(v) == forward[update(v)[0]][0]
Hits(v) == Found(v) # Null /\ val[Found(v)] = v

-----------------------------------------------------------------------------
skiplistSearch(v) ==
    /\ ~freed
    /\ answer' = Hits(v)
    /\ UNCHANGED <<val, forward, level, freed>>

\* The pointers that lead past position v are turned, on the lists below lvl.
skiplistAdd(v) ==
    /\ ~freed
    /\ \E n \in Nodes \ live, lvl \in 1 .. MAX_LEVEL :
           /\ level' = IF lvl > level THEN lvl ELSE level
           /\ val' = [m \in live \cup {n} |-> IF m = n THEN v ELSE val[m]]
           /\ forward' =
                  [m \in live \cup {Top, n} |->
                      IF m = n THEN [i \in 0 .. lvl - 1 |-> forward[update(v)[i]][i]]
                      ELSE [i \in DOMAIN forward[m] |->
                               IF i < lvl /\ update(v)[i] = m THEN n ELSE forward[m][i]]]
    /\ answer' = Null
    /\ UNCHANGED freed

\* The lists from 0 up to the first that does not continue with n: the loop that
\* unlinks n breaks there.
Linked(n, v) ==
    {i \in 0 .. level - 1 : \A j \in 0 .. i : forward[update(v)[j]][j] = n}

\* The while loop after the free, with the pointers of the head as they are then.
\* Mutant: an empty list stays in use.
LoweredMutant(pointers) == level
Lowered(pointers) ==
    CHOOSE l \in 1 .. level :
        /\ l = 1 \/ pointers[l - 1] # Null
        /\ \A i \in l .. level - 1 : pointers[i] = Null

\* skiplistErase of a number that is there.
Unlink(v) ==
    /\ ~freed
    /\ Hits(v)
    /\ LET n == Found(v)
       IN  /\ val' = [m \in live \ {n} |-> val[m]]
           /\ forward' = [m \in (live \cup {Top}) \ {n} |->
                             [i \in DOMAIN forward[m] |->
                                 IF i \in Linked(n, v) /\ update(v)[i] = m
                                 THEN forward[n][i] ELSE forward[m][i]]]
    /\ level' = Lowered(forward'[Top])
    /\ answer' = TRUE
    /\ UNCHANGED freed

\* skiplistErase of one that is not.
Missed(v) ==
    /\ ~freed
    /\ ~Hits(v)
    /\ answer' = FALSE
    /\ UNCHANGED <<val, forward, level, freed>>

\* skiplistFree goes along the lowest list.
Along ==
    LET from[n \in live \cup {Top}] ==
            LET next == forward[n][0]
            IN  IF next = Null THEN <<>> ELSE <<next>> \o from[next]
    IN  from[Top]

skiplistFree ==
    /\ ~freed
    /\ val' = [n \in live \ {Along[m] : m \in DOMAIN Along} |-> val[n]]
    /\ forward' = [n \in DOMAIN val' |-> forward[n]]
    /\ freed' = TRUE
    /\ answer' = Null
    /\ UNCHANGED level

Next ==
    \/ skiplistFree
    \/ \E v \in Vals : skiplistSearch(v) \/ skiplistAdd(v) \/ Unlink(v) \/ Missed(v)

Spec == Init /\ [][Next]_vars

-----------------------------------------------------------------------------
\* Every list is what is left of the lowest one when the nodes that do not reach
\* up to it are taken out, so that a node is on all the lists up to its height and
\* on each at the same place among equal numbers; the lowest list is sorted, holds
\* all nodes that are allocated, and the level is that of the highest node.  (The
\* break in line 77 and the strict comparisons of the descents rely on it.)
LeadsOn(list, m, i) ==
    \E q \in m + 1 .. Len(list) + 1 :
        /\ forward[list[m]][i] = IF q > Len(list) THEN Null ELSE list[q]
        /\ q <= Len(list) => list[q] \in Reaching(i)
        /\ \A r \in m + 1 .. q - 1 : list[r] \notin Reaching(i)
LevelsNested ==
    IF freed THEN live = {}
    ELSE LET list == <<Top>> \o Along
         IN  /\ \A m \in DOMAIN list : \A i \in DOMAIN forward[list[m]] : LeadsOn(list, m, i)
             /\ {Along[m] : m \in DOMAIN Along} = live
             /\ \A m \in 2 .. Len(Along) : val[Along[m - 1]] <= val[Along[m]]
             /\ level = 1 \/ Reaching(level - 1) # {}
             /\ \A i \in level .. MAX_LEVEL - 1 : Reaching(i) = {}

\* The lists implement the collection of NumberBag: each erase takes away exactly
\* one occurrence, and no order of calls hides a number from the search.
Bag == INSTANCE NumberBag
           WITH NoAnswer <- Null,
                times <- [v \in Vals |-> Cardinality({n \in live : val[n] = v})]
ImplementsBag == Bag!Spec

=============================================================================
