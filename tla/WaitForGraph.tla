---------------------------- MODULE WaitForGraph ----------------------------
(***************************************************************************)
(* detect_deadlock of src/transaction_mvcc.c: the depth-first search over  *)
(* wait_for with its arrays visited and stack.  The argument g is wait_for *)
(* as a function from a node v to the nodes u with wait_for[v][u] = 1.     *)
(***************************************************************************)
EXTENDS Integers

\* The search state: the arrays visited and stack as the sets of nodes set to
\* 1, and found once the value 1 is on its way up.
SearchStates(n) ==
    [visited : SUBSET (0 .. n - 1), stack : SUBSET (0 .. n - 1), found : BOOLEAN]
Start == [visited |-> {}, stack |-> {}, found |-> FALSE]

Enter(v, s) == [s EXCEPT !.visited = @ \cup {v}, !.stack = @ \cup {v}]

\* Mutant: v stays on the stack.
LeaveMutant(v, s) == s
Leave(v, s) == IF s.found THEN s ELSE [s EXCEPT !.stack = @ \ {v}]

\* The loop of detect_cycle_util(v, n) from u on, in a search state s.
Successors(g, n) ==
    LET from[v \in 0 .. n - 1] == [u \in 0 .. n |-> [s \in SearchStates(n) |->
            IF u = n THEN s
            ELSE IF u \notin g[v] THEN from[v][u + 1][s]
            ELSE LET below == IF u \in s.visited THEN s ELSE Leave(u, from[u][0][Enter(u, s)])
                 IN  IF below.found \/ u \in below.stack THEN [below EXCEPT !.found = TRUE]
                     ELSE from[v][u + 1][below]]]
    IN  from

detect_cycle_util(g, n, v, s) == Leave(v, Successors(g, n)[v][0][Enter(v, s)])

\* The loop of detect_deadlock after its first turns.
detect_deadlock(g, n) ==
    LET after[i \in 0 .. n] ==
            IF i = 0 THEN Start
            ELSE LET s == after[i - 1]
                 IN  IF s.found \/ i - 1 \in s.visited THEN s
                     ELSE detect_cycle_util(g, n, i - 1, s)
    IN  after[n].found

-----------------------------------------------------------------------------
\* There is a nonempty set from each of whose nodes one can go on inside the set; in
\* a finite graph this says that there is a cycle.
HasCycle(g) ==
    \E S \in SUBSET DOMAIN g : S # {} /\ \A v \in S : g[v] \cap S # {}

=============================================================================
