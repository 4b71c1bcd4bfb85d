-------------------------- MODULE ProducerConsumer --------------------------
(***************************************************************************)
(* src/producer_consumer.c: producer and consumer threads around one ring  *)
(* buffer that a mutex and two condition variables guard, and a main       *)
(* thread that returns, which ends the process, once the producers are     *)
(* joined.                                                                 *)
(*                                                                         *)
(* A thread passes through the control points                              *)
(*   "lock"    blocked in pthread_mutex_lock                               *)
(*   "test"    holding the lock, about to evaluate the while condition     *)
(*   "wait"    inside pthread_cond_wait, the lock released                 *)
(*   "relock"  woken inside pthread_cond_wait, reacquiring the lock        *)
(*   "body"    holding the lock, past the loop                             *)
(*   "unlock"  holding the lock, the slot written or read, a signal sent   *)
(*   "print"   (consumers) the item is in a local variable, not yet shown  *)
(* so the test of the condition and the use of the slot are separate       *)
(* steps: only the lock keeps other threads from running in between.       *)
(***************************************************************************)
EXTENDS Integers, Sequences, FiniteSets

CONSTANTS Producers,            \* threads that run producer()
          Consumers,            \* threads that run consumer()
          QUEUE_SIZE,           \* slots of the ring
          ITEMS_PER_PRODUCER,   \* iterations of a producer's loop
          SpuriousWakeups,      \* may pthread_cond_wait return unsignalled?
          NoThread,             \* nobody owns the mutex
          NoItem                \* a slot or a local that holds no item

ASSUME QueueAssumption ==
    /\ QUEUE_SIZE \in Nat \ {0}
    /\ ITEMS_PER_PRODUCER \in Nat \ {0}
    /\ SpuriousWakeups \in BOOLEAN
    /\ Producers \cap Consumers = {}
    /\ NoThread \notin Producers \cup Consumers

VARIABLES buffer, head, tail, count, lock,   \* the fields of queue_t
          pc,        \* pc[t]: the control point of thread t
          i,         \* i[p]: the loop counter of producer p
          item,      \* item[c]: the local variable of consumer c
          main,      \* the control point of main
          popped,    \* history: the items popped, in order
          printed    \* history: the items a consumer has printed

vars == <<buffer, head, tail, count, lock, pc, i, item, main, popped, printed>>

Threads == Producers \cup Consumers
Slots   == 0 .. QUEUE_SIZE - 1

\* The code builds the item as id * 1000 + i, which names the pair.
Items == Producers \X (0 .. ITEMS_PER_PRODUCER - 1)

-----------------------------------------------------------------------------
\* queue_init, on the zero-initialised global q.
Init ==
    /\ buffer = [s \in Slots |-> NoItem]
    /\ head = 0
    /\ tail = 0
    /\ count = 0
    /\ lock = NoThread
    /\ pc = [t \in Threads |-> "new"]
    /\ i = [p \in Producers |-> 0]
    /\ item = [c \in Consumers |-> NoItem]
    /\ main = "spawn"
    /\ popped = <<>>
    /\ printed = {}

\* main creates the producers, then the consumers; a created thread runs at
\* once and blocks first on the mutex.
Spawn(t) ==
    /\ main = "spawn"
    /\ pc[t] = "new"
    /\ t \in Consumers => \A p \in Producers : pc[p] # "new"
    /\ pc' = [pc EXCEPT ![t] = "lock"]
    /\ main' = IF \A u \in Threads \ {t} : pc[u] # "new" THEN "join" ELSE "spawn"
    /\ UNCHANGED <<buffer, head, tail, count, lock, i, item, popped, printed>>

\* Mutant: main joins one producer only.
AllJoinedMutant == \E p \in Producers : pc[p] = "done"
AllJoined == \A p \in Producers : pc[p] = "done"

\* main returns after the last pthread_join: the consumers die with it.
Return ==
    /\ main = "join"
    /\ AllJoined
    /\ main' = "returned"
    /\ UNCHANGED <<buffer, head, tail, count, lock, pc, i, item, popped, printed>>

Running == main # "returned"
-----------------------------------------------------------------------------
Acquire(t) ==
    /\ Running
    /\ pc[t] = "lock"
    /\ lock = NoThread
    /\ lock' = t
    /\ pc' = [pc EXCEPT ![t] = "test"]
    /\ UNCHANGED <<buffer, head, tail, count, i, item, main, popped, printed>>

\* Mutant: a full queue is not full.
MustWaitMutant(t) == IF t \in Producers THEN count > QUEUE_SIZE ELSE count = 0
\* The condition of the while loop around pthread_cond_wait.
MustWait(t) == IF t \in Producers THEN count = QUEUE_SIZE ELSE count = 0

Enter(t) ==
    /\ Running
    /\ pc[t] = "test"
    /\ ~MustWait(t)
    /\ pc' = [pc EXCEPT ![t] = "body"]
    /\ UNCHANGED <<buffer, head, tail, count, lock, i, item, main, popped, printed>>

Wait(t) ==
    /\ Running
    /\ pc[t] = "test"
    /\ MustWait(t)
    /\ lock' = NoThread
    /\ pc' = [pc EXCEPT ![t] = "wait"]
    /\ UNCHANGED <<buffer, head, tail, count, i, item, main, popped, printed>>

\* POSIX lets pthread_cond_wait return although nobody signalled.
WakeSpuriously(t) ==
    /\ Running
    /\ SpuriousWakeups
    /\ pc[t] = "wait"
    /\ pc' = [pc EXCEPT ![t] = "relock"]
    /\ UNCHANGED <<buffer, head, tail, count, lock, i, item, main, popped, printed>>

\* Mutant: an if in place of the while, the condition is not tested again.
RelockNoRetest(t) ==
    /\ Running
    /\ pc[t] = "relock"
    /\ lock = NoThread
    /\ lock' = t
    /\ pc' = [pc EXCEPT ![t] = "body"]
    /\ UNCHANGED <<buffer, head, tail, count, i, item, main, popped, printed>>

Relock(t) ==
    /\ Running
    /\ pc[t] = "relock"
    /\ lock = NoThread
    /\ lock' = t
    /\ pc' = [pc EXCEPT ![t] = "test"]
    /\ UNCHANGED <<buffer, head, tail, count, i, item, main, popped, printed>>

-----------------------------------------------------------------------------
NextSlot(s) == (s + 1) % QUEUE_SIZE

\* pthread_cond_signal by t, on the variable the threads of peers wait on: one
\* waiter, if there is one, goes on to reacquire the lock.
Waiting(peers) == {t \in peers : pc[t] = "wait"}

Signal(t, peers) ==
    IF Waiting(peers) = {}
    THEN pc' = [pc EXCEPT ![t] = "unlock"]
    ELSE \E w \in Waiting(peers) :
            pc' = [pc EXCEPT ![t] = "unlock", ![w] = "relock"]

\* The rest of queue_push, up to the unlock.
Put(p) ==
    /\ Running
    /\ pc[p] = "body"
    /\ buffer' = [buffer EXCEPT ![tail] = <<p, i[p]>>]
    /\ tail' = NextSlot(tail)
    /\ count' = count + 1
    /\ Signal(p, Consumers)
    /\ UNCHANGED <<head, lock, i, item, main, popped, printed>>

\* Mutant: queue_pop signals not_empty, as queue_push does.
TakeWrongSignal(c) ==
    /\ Running
    /\ pc[c] = "body"
    /\ item' = [item EXCEPT ![c] = buffer[head]]
    /\ popped' = Append(popped, buffer[head])
    /\ head' = NextSlot(head)
    /\ count' = count - 1
    /\ Signal(c, Consumers)
    /\ UNCHANGED <<buffer, tail, lock, i, main, printed>>

\* The rest of queue_pop, up to the unlock.
Take(c) ==
    /\ Running
    /\ pc[c] = "body"
    /\ item' = [item EXCEPT ![c] = buffer[head]]
    /\ popped' = Append(popped, buffer[head])
    /\ head' = NextSlot(head)
    /\ count' = count - 1
    /\ Signal(c, Producers)
    /\ UNCHANGED <<buffer, tail, lock, i, main, printed>>

\* A producer leaves queue_push and goes round its loop.
UnlockPush(p) ==
    /\ Running
    /\ pc[p] = "unlock"
    /\ lock' = NoThread
    /\ i' = [i EXCEPT ![p] = @ + 1]
    /\ pc' = [pc EXCEPT ![p] = IF i[p] + 1 < ITEMS_PER_PRODUCER THEN "lock" ELSE "done"]
    /\ UNCHANGED <<buffer, head, tail, count, item, main, popped, printed>>

UnlockPop(c) ==
    /\ Running
    /\ pc[c] = "unlock"
    /\ lock' = NoThread
    /\ pc' = [pc EXCEPT ![c] = "print"]
    /\ UNCHANGED <<buffer, head, tail, count, i, item, main, popped, printed>>

\* consumer() prints what it popped after queue_pop has returned.
PrintItem(c) ==
    /\ Running
    /\ pc[c] = "print"
    /\ printed' = printed \cup {item[c]}
    /\ pc' = [pc EXCEPT ![c] = "lock"]
    /\ UNCHANGED <<buffer, head, tail, count, lock, i, item, main, popped>>

-----------------------------------------------------------------------------
Monitor(t)  == Acquire(t) \/ Enter(t) \/ Wait(t) \/ Relock(t)
Producer(p) == Monitor(p) \/ Put(p) \/ UnlockPush(p)
Consumer(c) == Monitor(c) \/ Take(c) \/ UnlockPop(c) \/ PrintItem(c)
Main        == Return \/ \E t \in Threads : Spawn(t)

\* The process has ended: nothing is left to run.
Ended == ~Running /\ UNCHANGED vars

Next ==
    \/ Main
    \/ \E p \in Producers : Producer(p)
    \/ \E c \in Consumers : Consumer(c)
    \/ \E t \in Threads : WakeSpuriously(t)
    \/ Ended

Spec == Init /\ [][Next]_vars

\* The scheduler runs every thread that stays runnable.  The number of items
\* is finite, so the mutex is taken finitely often and weak fairness is enough
\* for a thread that waits for it; a spurious wakeup is never owed.
Fairness ==
    /\ WF_vars(Main)
    /\ \A p \in Producers : WF_vars(Producer(p))
    /\ \A c \in Consumers : WF_vars(Consumer(c))

FairSpec == Spec /\ Fairness

-----------------------------------------------------------------------------
ControlPoints ==
    {"new", "lock", "test", "wait", "relock", "body", "unlock", "print", "done"}

TypeOK ==
    /\ buffer \in [Slots -> Items \cup {NoItem}]
    /\ head \in Slots
    /\ tail \in Slots
    /\ count \in 0 .. QUEUE_SIZE
    /\ lock \in Threads \cup {NoThread}
    /\ pc \in [Threads -> ControlPoints]
    /\ i \in [Producers -> 0 .. ITEMS_PER_PRODUCER]
    /\ item \in [Consumers -> Items \cup {NoItem}]
    /\ main \in {"spawn", "join", "returned"}
    /\ popped \in Seq(Items)
    /\ printed \subseteq Items

\* The control points at which a thread owns the mutex.
Inside == {"test", "body", "unlock"}

\* The ring never tears: the distance from head to tail is count, whatever the
\* threads interleave, and a thread past its loop finds a slot to fill or an
\* item to take although it tested the condition in an earlier step
\* (queue_push and queue_pop, lines 29 to 33 and 40 to 44).
RingConsistent ==
    /\ tail = (head + count) % QUEUE_SIZE
    /\ \A p \in Producers : pc[p] = "body" => count < QUEUE_SIZE
    /\ \A c \in Consumers : pc[c] = "body" => count > 0

\* No wakeup is lost: while a producer sleeps there are at most as many free
\* slots as there are producers already on their way to them, and while a
\* consumer sleeps at most as many items as consumers on their way.  One
\* signal per push and pop (lines 34 and 45) is enough.
OnTheWay(peers) == {t \in peers : pc[t] \in {"relock", "test", "body"}}

NoLostWakeup ==
    /\ Waiting(Producers) # {} =>
          QUEUE_SIZE - count <= Cardinality(OnTheWay(Producers))
    /\ Waiting(Consumers) # {} => count <= Cardinality(OnTheWay(Consumers))

\* main joins the producers only, so what the consumers have not printed when
\* it returns is lost; that is never more than a full queue and one item in the
\* hands of each consumer.
LossBounded ==
    ~Running => Cardinality(Items \ printed) <= QUEUE_SIZE + Cardinality(Consumers)

\* The queue as its clients see it: the items from head on, oldest first.
QueueContents == [n \in 1 .. count |-> buffer[(head + n - 1) % QUEUE_SIZE]]

Sent == [p \in Producers |-> IF pc[p] = "unlock" THEN i[p] + 1 ELSE i[p]]

\* The ring, its indices and its locking implement a bounded first-in
\* first-out channel: nothing is lost, duplicated, reordered or invented.
Fifo == INSTANCE BoundedFifo
            WITH Capacity <- QUEUE_SIZE, queue <- QueueContents,
                 sent <- Sent, delivered <- popped
ImplementsFifo == Fifo!Spec

\* Every producer gets all its items in, whatever the contention for the
\* mutex, and main returns: neither condition variable leaves a thread asleep
\* (lines 34 and 45).  It need not only if spurious wakeups never end, which may
\* keep a thread busy with testing its condition again.
WokenForEver == []<><<\E t \in Threads : WakeSpuriously(t)>>_vars
MainReturns == <>(main = "returned") \/ WokenForEver

=============================================================================
