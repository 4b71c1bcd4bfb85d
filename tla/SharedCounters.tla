-------------------------- MODULE SharedCounters --------------------------
(***************************************************************************)
(* src/Shared_counter.c, and src/Shared_Counter.c which is the same program*)
(* with other names: the parent forks WORKERS children, each of which adds *)
(* to a counter of its own in shared memory, and prints the counters when  *)
(* it has waited as often as it has forked.  fork, and the shmat of a      *)
(* child, may fail; the segment itself is there.                           *)
(***************************************************************************)
EXTENDS FiniteSets, Integers

CONSTANTS WORKERS, OPERATIONS

Workers == 0 .. WORKERS - 1

VARIABLES pc,         \* of the parent: "fork", "wait", "done", or "died"
          i,          \* the variable of the loop the parent is in
          child,      \* child[w]: "none", "new", "attached", "failed", "exited" or "reaped"
          lost,       \* history: the children that could not attach
          j,          \* j[w]: the loop counter of child w
          counter,    \* the shared memory
          removed,    \* has IPC_RMID been called?
          printed     \* printed[w], and -1 before it is printed

vars == <<pc, i, child, lost, j, counter, removed, printed>>

Init ==
    /\ pc = "fork" /\ i = 0
    /\ child = [w \in Workers |-> "none"]
    /\ lost = {}
    /\ j = [w \in Workers |-> 0]
    /\ counter = [w \in Workers |-> 0]
    /\ removed = FALSE
    /\ printed = [w \in Workers |-> -1]

-----------------------------------------------------------------------------
\* The parent.
Fork ==
    /\ pc = "fork" /\ i < WORKERS
    /\ child' = [child EXCEPT ![i] = "new"]
    /\ i' = i + 1
    /\ UNCHANGED <<pc, lost, j, counter, removed, printed>>

\* die: the children that there are go on, and the segment stays.
ForkFails ==
    /\ pc = "fork" /\ i < WORKERS
    /\ pc' = "died"
    /\ UNCHANGED <<i, child, lost, j, counter, removed, printed>>

StartWaiting ==
    /\ pc = "fork" /\ i = WORKERS
    /\ pc' = "wait" /\ i' = 0
    /\ UNCHANGED <<child, lost, j, counter, removed, printed>>

\* wait returns when some child has ended, whichever and however.
Wait ==
    /\ pc = "wait" /\ i < WORKERS
    /\ \E w \in Workers : /\ child[w] \in {"failed", "exited"}
                          /\ child' = [child EXCEPT ![w] = "reaped"]
    /\ i' = i + 1
    /\ UNCHANGED <<pc, lost, j, counter, removed, printed>>

PrintCounters ==
    /\ pc = "wait" /\ i = WORKERS
    /\ printed' = counter
    /\ removed' = TRUE
    /\ pc' = "done"
    /\ UNCHANGED <<i, child, lost, j, counter>>

Parent == Fork \/ ForkFails \/ StartWaiting \/ Wait \/ PrintCounters

-----------------------------------------------------------------------------
\* A child.
Attach(w) ==
    /\ child[w] = "new"
    /\ child' = [child EXCEPT ![w] = "attached"]
    /\ UNCHANGED <<pc, i, lost, j, counter, removed, printed>>

AttachFails(w) ==
    /\ child[w] = "new"
    /\ child' = [child EXCEPT ![w] = "failed"]
    /\ lost' = lost \cup {w}
    /\ UNCHANGED <<pc, i, j, counter, removed, printed>>

Increment(w) ==
    /\ child[w] = "attached" /\ j[w] < OPERATIONS
    /\ counter' = [counter EXCEPT ![w] = @ + 1]
    /\ j' = [j EXCEPT ![w] = @ + 1]
    /\ UNCHANGED <<pc, i, child, lost, removed, printed>>

Exit(w) ==
    /\ child[w] = "attached" /\ j[w] = OPERATIONS
    /\ child' = [child EXCEPT ![w] = "exited"]
    /\ UNCHANGED <<pc, i, lost, j, counter, removed, printed>>

Child(w) == Attach(w) \/ AttachFails(w) \/ Increment(w) \/ Exit(w)

Next == Parent \/ \E w \in Workers : Child(w)

Spec == Init /\ [][Next]_vars

-----------------------------------------------------------------------------
\* What is printed for a worker is OPERATIONS, or 0 if it could not attach, so that
\* the sum is the expected one exactly if all attached: the parent neither prints a
\* counter that is still counted up nor removes the segment under a child, although
\* wait tells it only that some child has ended, and its status is not looked at.
WorkersExact ==
    /\ pc = "done" =>
           \A w \in Workers : printed[w] = IF w \in lost THEN 0 ELSE OPERATIONS
    /\ removed => \A w \in Workers : child[w] = "reaped"

=============================================================================
