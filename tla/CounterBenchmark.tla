------------------------- MODULE CounterBenchmark -------------------------
(***************************************************************************)
(* src/Atomic_counter_Mutex_Counter.c: num_threads threads count together, *)
(* first in a long that a mutex guards, then in an atomic_long.  main      *)
(* creates them, joins them, prints the counter and does it once more.     *)
(***************************************************************************)
EXTENDS Integers

CONSTANTS num_threads, iterations, NoOwner

Threads == 0 .. num_threads - 1

VARIABLES worker,    \* "mutex" or "atomic"; "none" when main has returned
          i,         \* main's loop counter; num_threads when all are created
          pc,        \* pc[t]: "new", "loop", "add", "unlock" or "returned"
          turn,      \* turn[t]: the i of the worker
          old,       \* old[t]: mutex_counter as mutex_counter++ has read it
          mutex, mutex_counter, atomic_counter,
          printed    \* what has been printed, by worker; -1 before

vars == <<worker, i, pc, turn, old, mutex, mutex_counter, atomic_counter, printed>>
counters == <<mutex_counter, atomic_counter>>

NewThreads ==
    /\ pc' = [t \in Threads |-> "new"]
    /\ turn' = [t \in Threads |-> 0]

Init ==
    /\ worker = "mutex" /\ i = 0
    /\ pc = [t \in Threads |-> "new"]
    /\ turn = [t \in Threads |-> 0]
    /\ old = [t \in Threads |-> 0]
    /\ mutex = NoOwner
    /\ mutex_counter = 0 /\ atomic_counter = 0
    /\ printed = [w \in {"mutex", "atomic"} |-> -1]

-----------------------------------------------------------------------------
\* run_benchmark, called twice by main.
Create ==
    /\ worker # "none" /\ i < num_threads
    /\ pc' = [pc EXCEPT ![i] = "loop"]
    /\ i' = i + 1
    /\ UNCHANGED <<worker, turn, old, mutex, counters, printed>>

\* The joins have come back.
\* Mutant: the last thread is not joined.
JoinedMutant == i = num_threads /\ \A t \in 0 .. num_threads - 2 : pc[t] = "returned"
Joined == i = num_threads /\ \A t \in Threads : pc[t] = "returned"

PrintMutex ==
    /\ worker = "mutex" /\ Joined
    /\ printed' = [printed EXCEPT !["mutex"] = mutex_counter]
    /\ worker' = "atomic" /\ i' = 0
    /\ atomic_counter' = 0
    /\ NewThreads
    /\ UNCHANGED <<old, mutex, mutex_counter>>

PrintAtomic ==
    /\ worker = "atomic" /\ Joined
    /\ printed' = [printed EXCEPT !["atomic"] = atomic_counter]
    /\ worker' = "none"
    /\ UNCHANGED <<i, pc, turn, old, mutex, counters>>

Main == Create \/ PrintMutex \/ PrintAtomic

-----------------------------------------------------------------------------
\* worker_mutex: the increment reads, then writes.
Lock(t) ==
    /\ worker = "mutex" /\ pc[t] = "loop" /\ turn[t] < iterations
    /\ mutex = NoOwner
    /\ mutex' = t
    /\ old' = [old EXCEPT ![t] = mutex_counter]
    /\ pc' = [pc EXCEPT ![t] = "add"]
    /\ UNCHANGED <<worker, i, turn, counters, printed>>

Add(t) ==
    /\ pc[t] = "add"
    /\ mutex_counter' = old[t] + 1
    /\ pc' = [pc EXCEPT ![t] = "unlock"]
    /\ UNCHANGED <<worker, i, turn, old, mutex, atomic_counter, printed>>

Unlock(t) ==
    /\ pc[t] = "unlock"
    /\ mutex' = NoOwner
    /\ turn' = [turn EXCEPT ![t] = @ + 1]
    /\ pc' = [pc EXCEPT ![t] = "loop"]
    /\ UNCHANGED <<worker, i, old, counters, printed>>

\* worker_atomic: one step reads and writes.
FetchAdd(t) ==
    /\ worker = "atomic" /\ pc[t] = "loop" /\ turn[t] < iterations
    /\ atomic_counter' = atomic_counter + 1
    /\ turn' = [turn EXCEPT ![t] = @ + 1]
    /\ UNCHANGED <<worker, i, pc, old, mutex, mutex_counter, printed>>

Return(t) ==
    /\ pc[t] = "loop" /\ turn[t] = iterations
    /\ pc' = [pc EXCEPT ![t] = "returned"]
    /\ UNCHANGED <<worker, i, turn, old, mutex, counters, printed>>

Thread(t) == Lock(t) \/ Add(t) \/ Unlock(t) \/ FetchAdd(t) \/ Return(t)

Next == Main \/ \E t \in Threads : Thread(t)

Spec == Init /\ [][Next]_vars

-----------------------------------------------------------------------------
\* Both counters are printed with no increment lost, which the throughput takes for
\* granted (line 66), and no thread of the first benchmark runs on into the second.
CountersExact ==
    /\ printed["mutex"] \in {-1, num_threads * iterations}
    /\ printed["atomic"] \in {-1, num_threads * iterations}
    /\ worker # "mutex" => mutex = NoOwner

=============================================================================
