----------------------- MODULE ProducerConsumerProofs -----------------------
(***************************************************************************)
(* Proofs about ProducerConsumer for any number of threads, any queue size *)
(* and any number of items: the type invariant and the consistency of the  *)
(* ring, from one inductive invariant.                                     *)
(***************************************************************************)
EXTENDS ProducerConsumer, FiniteSetTheorems, SequenceTheorems, TLAPS

\* A thread owns the mutex exactly at the control points inside the monitor.
LockInv == \A t \in Threads : pc[t] \in Inside <=> lock = t

\* A producer that has not finished still has an item to hand over.
LoopInv == \A p \in Producers : pc[p] # "done" => i[p] < ITEMS_PER_PRODUCER

\* What a consumer is about to print came out of the queue.
HeldInv == \A c \in Consumers : pc[c] \in {"unlock", "print"} => item[c] \in Items

\* The slots from head on hold items, not leftovers.
FilledInv == \A n \in 0 .. count - 1 : buffer[(head + n) % QUEUE_SIZE] \in Items

IInv == TypeOK /\ LockInv /\ LoopInv /\ HeldInv /\ FilledInv /\ RingConsistent

-----------------------------------------------------------------------------
\* The remainder by the queue size, for sums of a slot and a distance.
LEMMA Wrap ==
    ASSUME NEW a \in 0 .. 2 * QUEUE_SIZE - 1
    PROVE  a % QUEUE_SIZE = IF a < QUEUE_SIZE THEN a ELSE a - QUEUE_SIZE
  BY QueueAssumption

\* Going one slot further and then n slots is going n + 1 slots.
LEMMA Advance ==
    ASSUME NEW h \in 0 .. QUEUE_SIZE - 1, NEW n \in 0 .. QUEUE_SIZE - 1
    PROVE  (((h + 1) % QUEUE_SIZE) + n) % QUEUE_SIZE = (h + (n + 1)) % QUEUE_SIZE
<1> QUEUE_SIZE \in Nat \ {0}
  BY QueueAssumption
<1>1. CASE h + 1 < QUEUE_SIZE
  <2>1. (h + 1) % QUEUE_SIZE = h + 1
    BY <1>1, Wrap
  <2> QED BY <2>1
<1>2. CASE h + 1 = QUEUE_SIZE
  <2>1. (h + 1) % QUEUE_SIZE = 0
    BY <1>2, Wrap
  <2>2. (0 + n) % QUEUE_SIZE = n
    BY Wrap
  <2>3. (h + (n + 1)) % QUEUE_SIZE = n
    BY <1>2, Wrap
  <2> QED BY <2>1, <2>2, <2>3
<1> QED BY <1>1, <1>2

LEMMA InitIInv == Init => IInv
<1> SUFFICES ASSUME Init PROVE IInv
  OBVIOUS
<1>1. TypeOK
  BY QueueAssumption DEF Init, TypeOK, Slots, ControlPoints, Items
<1>2. LockInv
  BY QueueAssumption DEF Init, LockInv, Inside, Threads
<1>3. LoopInv /\ HeldInv /\ FilledInv
  BY QueueAssumption DEF Init, LoopInv, HeldInv, FilledInv, Threads
<1>4. RingConsistent
  <2>1. (0 + 0) % QUEUE_SIZE = 0
    BY Wrap, QueueAssumption
  <2> QED BY <2>1 DEF Init, RingConsistent, Threads
<1> QED BY <1>1, <1>2, <1>3, <1>4 DEF IInv

\* A step that leaves the ring, the counters and the locals alone and moves
\* one thread t between control points keeps IInv if it keeps track of who
\* owns the mutex and enters the body only when its condition is met.
LEMMA MoveKeepsIInv ==
    ASSUME IInv, NEW t \in Threads, NEW to \in ControlPoints,
           pc[t] # "done" /\ to # "done",
           pc' = [pc EXCEPT ![t] = to],
           UNCHANGED <<buffer, head, tail, count, i, item>>,
           main' \in {"spawn", "join", "returned"},
           popped' = popped,
           printed' \subseteq Items,
           to = "body" => ~MustWait(t),
           to \in {"unlock", "print"} => pc[t] \in {"unlock", "print"},
           \/ /\ to \in Inside /\ lock' = t
              /\ lock = NoThread \/ pc[t] \in Inside
           \/ /\ to \notin Inside /\ pc[t] \in Inside /\ lock' = NoThread
           \/ /\ to \notin Inside /\ pc[t] \notin Inside /\ lock' = lock
    PROVE  IInv'
<1>1. TypeOK'
  BY DEF IInv, TypeOK
<1>2. LockInv'
  BY QueueAssumption DEF IInv, TypeOK, LockInv, Threads
<1>3. LoopInv'
  BY DEF IInv, TypeOK, LoopInv, Threads
<1>4. HeldInv'
  BY DEF IInv, TypeOK, HeldInv, Threads
<1>5. FilledInv'
  BY DEF IInv, FilledInv
<1>6. RingConsistent'
  BY QueueAssumption DEF IInv, TypeOK, RingConsistent, MustWait, Threads
<1> QED BY <1>1, <1>2, <1>3, <1>4, <1>5, <1>6 DEF IInv

LEMMA SpawnStep == ASSUME IInv, NEW t \in Threads, Spawn(t) PROVE IInv'
  BY MoveKeepsIInv DEF Spawn, ControlPoints, Inside, IInv, TypeOK

LEMMA MonitorStep ==
    ASSUME IInv, NEW t \in Threads, Monitor(t) \/ WakeSpuriously(t) PROVE IInv'
<1> USE DEF ControlPoints, Inside
<1>1. printed \subseteq Items /\ main \in {"spawn", "join", "returned"}
  BY DEF IInv, TypeOK
<1>2. pc[t] \in Inside => lock = t
  BY DEF IInv, LockInv
<1>3. CASE Acquire(t)
  BY <1>1, <1>3, MoveKeepsIInv DEF Acquire
<1>4. CASE Enter(t)
  BY <1>1, <1>2, <1>4, MoveKeepsIInv DEF Enter
<1>5. CASE Wait(t)
  BY <1>1, <1>5, MoveKeepsIInv DEF Wait
<1>6. CASE Relock(t)
  BY <1>1, <1>6, MoveKeepsIInv DEF Relock
<1>7. CASE WakeSpuriously(t)
  BY <1>1, <1>7, MoveKeepsIInv DEF WakeSpuriously
<1> QED BY <1>3, <1>4, <1>5, <1>6, <1>7 DEF Monitor

\* What a signal does to the control points: its sender moves on, and nobody
\* else leaves or enters the monitor.
LEMMA SignalMoves ==
    ASSUME TypeOK, NEW t \in Threads, NEW peers \in SUBSET Threads,
           pc[t] = "body", Signal(t, peers)
    PROVE  /\ pc' \in [Threads -> ControlPoints]
           /\ pc'[t] = "unlock"
           /\ \A u \in Threads \ {t} :
                 pc'[u] = pc[u] \/ (pc[u] = "wait" /\ pc'[u] = "relock")
  BY DEF TypeOK, Signal, Waiting, ControlPoints

\* The thread at "body" owns the mutex, so no other thread is inside.
LEMMA AloneInside ==
    ASSUME IInv, NEW t \in Threads, pc[t] = "body"
    PROVE  lock = t /\ \A u \in Threads \ {t} : pc[u] \notin Inside
  BY DEF IInv, LockInv, Inside

LEMMA PutStep == ASSUME IInv, NEW p \in Producers, Put(p) PROVE IInv'
<1>1. p \in Threads /\ p \notin Consumers
  BY QueueAssumption DEF Threads
<1>2. /\ pc' \in [Threads -> ControlPoints]
      /\ pc'[p] = "unlock"
      /\ \A u \in Threads \ {p} :
            pc'[u] = pc[u] \/ (pc[u] = "wait" /\ pc'[u] = "relock")
  BY <1>1, SignalMoves DEF Put, IInv, Threads
<1>3. lock = p /\ \A u \in Threads \ {p} : pc[u] \notin Inside
  BY <1>1, AloneInside DEF Put
<1>4. /\ head \in 0 .. QUEUE_SIZE - 1 /\ tail \in 0 .. QUEUE_SIZE - 1
      /\ QUEUE_SIZE \in Nat \ {0}
      /\ count \in 0 .. QUEUE_SIZE - 1 /\ tail = (head + count) % QUEUE_SIZE
  BY QueueAssumption DEF IInv, TypeOK, RingConsistent, Put, Slots
<1>5. count' = count + 1 /\ head' = head /\ tail' = (tail + 1) % QUEUE_SIZE
  BY DEF Put, NextSlot
<1>6. <<p, i[p]>> \in Items
  <2>1. i[p] \in 0 .. ITEMS_PER_PRODUCER - 1
    BY QueueAssumption DEF Put, IInv, TypeOK, LoopInv
  <2> QED BY <2>1 DEF Items
<1>7. TypeOK'
  <2>1. tail' \in Slots
    BY <1>4, <1>5, Wrap DEF Slots
  <2>2. buffer' \in [Slots -> Items \cup {NoItem}]
    BY <1>6 DEF Put, IInv, TypeOK
  <2> QED
    BY <1>2, <1>4, <1>5, <2>1, <2>2 DEF Put, IInv, TypeOK
<1>8. LockInv'
  BY <1>1, <1>2, <1>3 DEF Put, LockInv, Inside, IInv
<1>9. LoopInv'
  BY <1>1, <1>2 DEF Put, IInv, LoopInv, Threads
<1>10. HeldInv'
  BY <1>1, <1>2 DEF Put, IInv, HeldInv, Threads
<1>11. FilledInv'
  <2> SUFFICES ASSUME NEW n \in 0 .. count' - 1
               PROVE  buffer'[(head' + n) % QUEUE_SIZE] \in Items
    BY DEF FilledInv
  <2>0. n \in 0 .. count /\ head' = head
    BY <1>4, <1>5
  <2>1. (head + n) % QUEUE_SIZE \in Slots
    BY <1>4, <2>0, Wrap DEF Slots
  <2>2. CASE n = count
    BY <1>4, <1>6, <2>0, <2>1, <2>2 DEF Put, IInv, TypeOK
  <2>3. CASE n < count
    <3>1. (head + n) % QUEUE_SIZE # tail
      BY SMTT(20), <1>4, <2>0, <2>3, Wrap
    <3>2. n \in 0 .. count - 1
      BY <1>4, <2>0, <2>3
    <3>3. buffer[(head + n) % QUEUE_SIZE] \in Items
      BY <3>2 DEF IInv, FilledInv
    <3> QED BY <2>0, <2>1, <3>1, <3>3 DEF Put, IInv, TypeOK
  <2> QED BY <1>4, <2>0, <2>2, <2>3
<1>12. RingConsistent'
  <2>1. tail' = (head' + count') % QUEUE_SIZE
    BY <1>4, <1>5, Wrap
  <2>2. \A u \in Threads : pc'[u] # "body"
    BY <1>2, <1>3 DEF Inside
  <2> QED BY <2>1, <2>2 DEF RingConsistent, Threads
<1> QED BY <1>7, <1>8, <1>9, <1>10, <1>11, <1>12 DEF IInv

LEMMA TakeStep == ASSUME IInv, NEW c \in Consumers, Take(c) PROVE IInv'
<1>1. c \in Threads /\ c \notin Producers
  BY QueueAssumption DEF Threads
<1>2. /\ pc' \in [Threads -> ControlPoints]
      /\ pc'[c] = "unlock"
      /\ \A u \in Threads \ {c} :
            pc'[u] = pc[u] \/ (pc[u] = "wait" /\ pc'[u] = "relock")
  BY <1>1, SignalMoves DEF Take, IInv, Threads
<1>3. lock = c /\ \A u \in Threads \ {c} : pc[u] \notin Inside
  BY <1>1, AloneInside DEF Take
<1>4. /\ head \in 0 .. QUEUE_SIZE - 1 /\ QUEUE_SIZE \in Nat \ {0}
      /\ count \in 1 .. QUEUE_SIZE /\ tail = (head + count) % QUEUE_SIZE
  BY QueueAssumption DEF IInv, TypeOK, RingConsistent, Take, Slots
<1>5. count' = count - 1 /\ head' = (head + 1) % QUEUE_SIZE /\ tail' = tail
  BY DEF Take, NextSlot
<1>6. buffer[head] \in Items
  <2>1. (head + 0) % QUEUE_SIZE = head
    BY <1>4, Wrap
  <2> QED BY <1>4, <2>1 DEF IInv, FilledInv
<1>7. TypeOK'
  <2>1. head' \in Slots
    BY <1>4, <1>5, Wrap DEF Slots
  <2>2. popped' \in Seq(Items)
    BY <1>6 DEF Take, IInv, TypeOK
  <2>3. item' \in [Consumers -> Items \cup {NoItem}]
    BY <1>6 DEF Take, IInv, TypeOK
  <2> QED
    BY <1>2, <1>4, <1>5, <2>1, <2>2, <2>3 DEF Take, IInv, TypeOK
<1>8. LockInv'
  BY <1>1, <1>2, <1>3 DEF Take, LockInv, Inside, IInv
<1>9. LoopInv'
  BY <1>1, <1>2 DEF Take, IInv, LoopInv, Threads
<1>10. HeldInv'
  BY <1>1, <1>2, <1>6 DEF Take, IInv, TypeOK, HeldInv, Threads
<1>11. FilledInv'
  <2> SUFFICES ASSUME NEW n \in 0 .. count' - 1
               PROVE  buffer'[(head' + n) % QUEUE_SIZE] \in Items
    BY DEF FilledInv
  <2>1. n \in 0 .. QUEUE_SIZE - 1 /\ n + 1 \in 0 .. count - 1
    BY <1>4, <1>5
  <2>2. (head' + n) % QUEUE_SIZE = (head + (n + 1)) % QUEUE_SIZE
    BY <1>4, <1>5, <2>1, Advance
  <2>3. buffer[(head + (n + 1)) % QUEUE_SIZE] \in Items
    BY <2>1 DEF IInv, FilledInv
  <2> QED BY <2>2, <2>3 DEF Take
<1>12. RingConsistent'
  <2>1. tail' = (head' + count') % QUEUE_SIZE
    <3>1. count' \in 0 .. QUEUE_SIZE - 1 /\ count' + 1 = count
      BY <1>4, <1>5
    <3> QED BY <1>4, <1>5, <3>1, Advance
  <2>2. \A u \in Threads : pc'[u] # "body"
    BY <1>2, <1>3 DEF Inside
  <2> QED BY <2>1, <2>2 DEF RingConsistent, Threads
<1> QED BY <1>7, <1>8, <1>9, <1>10, <1>11, <1>12 DEF IInv

LEMMA UnlockPushStep == ASSUME IInv, NEW p \in Producers, UnlockPush(p) PROVE IInv'
<1>1. p \in Threads /\ p \notin Consumers
  BY QueueAssumption DEF Threads
<1>2. lock = p
  BY <1>1 DEF UnlockPush, IInv, LockInv, Inside
<1>3. TypeOK'
  BY QueueAssumption, <1>1 DEF UnlockPush, IInv, TypeOK, LoopInv, ControlPoints
<1>4. LockInv'
  BY QueueAssumption, <1>1, <1>2 DEF UnlockPush, IInv, TypeOK, LockInv, Inside, Threads
<1>5. LoopInv'
  BY QueueAssumption, <1>1 DEF UnlockPush, IInv, TypeOK, LoopInv, Threads
<1>6. HeldInv' /\ FilledInv' /\ RingConsistent'
  BY <1>1 DEF UnlockPush, IInv, TypeOK, HeldInv, FilledInv, RingConsistent, Threads
<1> QED BY <1>3, <1>4, <1>5, <1>6 DEF IInv

LEMMA UnlockPopStep == ASSUME IInv, NEW c \in Consumers, UnlockPop(c) PROVE IInv'
<1>1. c \in Threads /\ printed \subseteq Items /\ main \in {"spawn", "join", "returned"}
  BY DEF Threads, IInv, TypeOK
<1> QED BY <1>1, MoveKeepsIInv DEF UnlockPop, ControlPoints, Inside

LEMMA PrintStep == ASSUME IInv, NEW c \in Consumers, PrintItem(c) PROVE IInv'
<1>1. c \in Threads /\ printed' \subseteq Items /\ main \in {"spawn", "join", "returned"}
  BY DEF Threads, IInv, TypeOK, HeldInv, PrintItem
<1> QED BY <1>1, MoveKeepsIInv DEF PrintItem, ControlPoints, Inside

LEMMA NextIInv == IInv /\ [Next]_vars => IInv'
<1> SUFFICES ASSUME IInv, [Next]_vars PROVE IInv'
  OBVIOUS
<1>1. CASE UNCHANGED vars
  BY <1>1 DEF vars, IInv, TypeOK, LockInv, LoopInv, HeldInv, FilledInv, RingConsistent
<1>2. CASE Return
  BY <1>2 DEF Return, IInv, TypeOK, LockInv, LoopInv, HeldInv, FilledInv, RingConsistent
<1>3. CASE \E t \in Threads : Spawn(t)
  BY <1>3, SpawnStep
<1>4. CASE \E p \in Producers : Producer(p)
  BY <1>4, MonitorStep, PutStep, UnlockPushStep DEF Producer, Threads
<1>5. CASE \E c \in Consumers : Consumer(c)
  BY <1>5, MonitorStep, TakeStep, UnlockPopStep, PrintStep DEF Consumer, Threads
<1>6. CASE \E t \in Threads : WakeSpuriously(t)
  BY <1>6, MonitorStep
<1> QED BY <1>1, <1>2, <1>3, <1>4, <1>5, <1>6 DEF Next, Main, Ended

-----------------------------------------------------------------------------
\* Every variable keeps its type: in particular count stays between 0 and
\* QUEUE_SIZE and both indices stay inside the buffer of queue_t.
THEOREM TypeCorrect == Spec => []TypeOK
<1>1. IInv => TypeOK
  BY DEF IInv
<1> QED BY InitIInv, NextIInv, <1>1, PTL DEF Spec

\* The ring of queue_push and queue_pop is consistent in every reachable state.
THEOREM RingCorrect == Spec => []RingConsistent
<1>1. IInv => RingConsistent
  BY DEF IInv
<1> QED BY InitIInv, NextIInv, <1>1, PTL DEF Spec

-----------------------------------------------------------------------------
\* Wakeups.  NoLostWakeup is inductive with IInv: a thread that uses its slot leaves
\* the threads on their way, and the slot or item it leaves for its peers is made up
\* for by the peer it wakes.

\* More are on their way than before if nobody has left it, one less if one has.
LEMMA OnTheWayFinite ==
    ASSUME NEW peers, IsFiniteSet(peers)
    PROVE  /\ IsFiniteSet(OnTheWay(peers)) /\ Cardinality(OnTheWay(peers)) \in Nat
           /\ IsFiniteSet(OnTheWay(peers)') /\ Cardinality(OnTheWay(peers)') \in Nat
  BY FS_Subset, FS_CardinalityType DEF OnTheWay

LEMMA NoneLeaves ==
    ASSUME NEW peers, IsFiniteSet(peers), OnTheWay(peers) \subseteq OnTheWay(peers)'
    PROVE  Cardinality(OnTheWay(peers)) <= Cardinality(OnTheWay(peers)')
  BY OnTheWayFinite, FS_Subset

LEMMA OneLeaves ==
    ASSUME NEW peers, IsFiniteSet(peers), NEW t, OnTheWay(peers) \subseteq OnTheWay(peers)' \cup {t}
    PROVE  Cardinality(OnTheWay(peers)) <= Cardinality(OnTheWay(peers)') + 1
<1>1. /\ IsFiniteSet(OnTheWay(peers)' \cup {t})
      /\ Cardinality(OnTheWay(peers)' \cup {t}) <= Cardinality(OnTheWay(peers)') + 1
      /\ Cardinality(OnTheWay(peers)' \cup {t}) \in Nat
  <2> DEFINE after == OnTheWay(peers)'
  <2>1. IsFiniteSet(after) /\ Cardinality(after) \in Nat
    BY OnTheWayFinite
  <2> HIDE DEF after
  <2>2. /\ IsFiniteSet(after \cup {t})
        /\ Cardinality(after \cup {t}) = IF t \in after THEN Cardinality(after)
                                                      ELSE Cardinality(after) + 1
    BY <2>1, FS_AddElement
  <2>3. Cardinality(after \cup {t}) \in Nat
    BY <2>2, FS_CardinalityType
  <2>4. Cardinality(after \cup {t}) <= Cardinality(after) + 1
    BY <2>1, <2>2
  <2> QED BY <2>2, <2>3, <2>4 DEF after
<1> QED BY <1>1, OnTheWayFinite, FS_Subset

LEMMA OneJoins ==
    ASSUME NEW peers, IsFiniteSet(peers), NEW t \in peers, t \notin OnTheWay(peers),
           OnTheWay(peers) \cup {t} \subseteq OnTheWay(peers)'
    PROVE  Cardinality(OnTheWay(peers)) + 1 <= Cardinality(OnTheWay(peers)')
<1>1. Cardinality(OnTheWay(peers) \cup {t}) = Cardinality(OnTheWay(peers)) + 1
  BY OnTheWayFinite, FS_AddElement
<1> QED BY <1>1, OnTheWayFinite, FS_Subset

\* The two halves of NoLostWakeup.
Enough(peers, needed) == Waiting(peers) # {} => needed <= Cardinality(OnTheWay(peers))

\* A step in which the thread t moves, from its way to the slot only when it has to wait.
LEMMA MoveKeepsEnough ==
    ASSUME TypeOK, NEW peers \in SUBSET Threads, IsFiniteSet(peers),
           NEW needed \in Int, Enough(peers, needed),
           NEW t \in Threads, NEW to \in ControlPoints, pc' = [pc EXCEPT ![t] = to],
           \/ to \in {"relock", "test", "body"}
           \/ pc[t] \notin {"relock", "test", "body"} /\ to # "wait"
           \/ t \notin peers
           \/ needed <= 0
    PROVE  Waiting(peers)' # {} => needed <= Cardinality(OnTheWay(peers)')
<1>1. CASE needed <= 0
  BY <1>1, OnTheWayFinite DEF Enough
<1>2. CASE ~(needed <= 0)
  <2>1. Waiting(peers)' \subseteq Waiting(peers)
    BY <1>2 DEF TypeOK, Waiting
  <2>2. OnTheWay(peers) \subseteq OnTheWay(peers)'
    BY <1>2 DEF TypeOK, OnTheWay
  <2> QED BY <2>1, <2>2, NoneLeaves, OnTheWayFinite DEF Enough
<1> QED BY <1>1, <1>2

LEMMA PutKeepsEnough ==
    ASSUME IInv, IsFiniteSet(Producers), IsFiniteSet(Consumers), NoLostWakeup,
           NEW p \in Producers, Put(p)
    PROVE  NoLostWakeup'
<1>1. p \in Threads /\ p \notin Consumers /\ pc \in [Threads -> ControlPoints]
  BY QueueAssumption DEF Threads, IInv, TypeOK
<1>2. QUEUE_SIZE \in Int /\ count \in Int /\ count' = count + 1
  BY QueueAssumption DEF IInv, TypeOK, Put
<1>3. pc[p] = "body" /\ Signal(p, Consumers)
  BY DEF Put
<1>4. Waiting(Producers)' # {} => QUEUE_SIZE - count' <= Cardinality(OnTheWay(Producers)')
  <2>1. Waiting(Producers)' \subseteq Waiting(Producers)
    BY <1>1, <1>3, QueueAssumption DEF Signal, Waiting, Threads
  <2>2. OnTheWay(Producers) \subseteq OnTheWay(Producers)' \cup {p}
    BY <1>1, <1>3, QueueAssumption DEF Signal, Waiting, OnTheWay, Threads
  <2>3. Cardinality(OnTheWay(Producers)) <= Cardinality(OnTheWay(Producers)') + 1
    BY <2>2, OneLeaves
  <2>4. Cardinality(OnTheWay(Producers)) \in Nat /\ Cardinality(OnTheWay(Producers)') \in Nat
    BY OnTheWayFinite
  <2> QED BY <1>2, <2>1, <2>3, <2>4 DEF NoLostWakeup
<1>5. Waiting(Consumers)' # {} => count' <= Cardinality(OnTheWay(Consumers)')
  <2> SUFFICES ASSUME Waiting(Consumers)' # {} PROVE count' <= Cardinality(OnTheWay(Consumers)')
    OBVIOUS
  <2>1. Waiting(Consumers)' \subseteq Waiting(Consumers)
    BY <1>1, <1>3 DEF Signal, Waiting, Threads
  <2>2. PICK w \in Waiting(Consumers) : pc' = [pc EXCEPT ![p] = "unlock", ![w] = "relock"]
    BY <1>3, <2>1 DEF Signal
  <2>3. w \in Consumers /\ w \notin OnTheWay(Consumers)
    BY <2>2 DEF Waiting, OnTheWay
  <2>4. OnTheWay(Consumers) \cup {w} \subseteq OnTheWay(Consumers)'
    BY <1>1, <2>2 DEF Waiting, OnTheWay, Threads
  <2>5. Cardinality(OnTheWay(Consumers)) + 1 <= Cardinality(OnTheWay(Consumers)')
    BY <2>3, <2>4, OneJoins
  <2> QED BY <1>2, <2>1, <2>5, OnTheWayFinite DEF NoLostWakeup
<1> QED BY <1>4, <1>5 DEF NoLostWakeup

LEMMA TakeKeepsEnough ==
    ASSUME IInv, IsFiniteSet(Producers), IsFiniteSet(Consumers), NoLostWakeup,
           NEW c \in Consumers, Take(c)
    PROVE  NoLostWakeup'
<1>1. c \in Threads /\ c \notin Producers /\ pc \in [Threads -> ControlPoints]
  BY QueueAssumption DEF Threads, IInv, TypeOK
<1>2. QUEUE_SIZE \in Int /\ count \in Int /\ count' = count - 1
  BY QueueAssumption DEF IInv, TypeOK, Take
<1>3. pc[c] = "body" /\ Signal(c, Producers)
  BY DEF Take
<1>4. Waiting(Consumers)' # {} => count' <= Cardinality(OnTheWay(Consumers)')
  <2>1. Waiting(Consumers)' \subseteq Waiting(Consumers)
    BY <1>1, <1>3, QueueAssumption DEF Signal, Waiting, Threads
  <2>2. OnTheWay(Consumers) \subseteq OnTheWay(Consumers)' \cup {c}
    BY <1>1, <1>3, QueueAssumption DEF Signal, Waiting, OnTheWay, Threads
  <2>3. Cardinality(OnTheWay(Consumers)) <= Cardinality(OnTheWay(Consumers)') + 1
    BY <2>2, OneLeaves
  <2>4. Cardinality(OnTheWay(Consumers)) \in Nat /\ Cardinality(OnTheWay(Consumers)') \in Nat
    BY OnTheWayFinite
  <2> QED BY <1>2, <2>1, <2>3, <2>4 DEF NoLostWakeup
<1>5. Waiting(Producers)' # {} => QUEUE_SIZE - count' <= Cardinality(OnTheWay(Producers)')
  <2> SUFFICES ASSUME Waiting(Producers)' # {}
               PROVE  QUEUE_SIZE - count' <= Cardinality(OnTheWay(Producers)')
    OBVIOUS
  <2>1. Waiting(Producers)' \subseteq Waiting(Producers)
    BY <1>1, <1>3 DEF Signal, Waiting, Threads
  <2>2. PICK w \in Waiting(Producers) : pc' = [pc EXCEPT ![c] = "unlock", ![w] = "relock"]
    BY <1>3, <2>1 DEF Signal
  <2>3. w \in Producers /\ w \notin OnTheWay(Producers)
    BY <2>2 DEF Waiting, OnTheWay
  <2>4. OnTheWay(Producers) \cup {w} \subseteq OnTheWay(Producers)'
    BY <1>1, <2>2 DEF Waiting, OnTheWay, Threads
  <2>5. Cardinality(OnTheWay(Producers)) + 1 <= Cardinality(OnTheWay(Producers)')
    BY <2>3, <2>4, OneJoins
  <2> QED BY <1>2, <2>1, <2>5, OnTheWayFinite DEF NoLostWakeup
<1> QED BY <1>4, <1>5 DEF NoLostWakeup

\* The other steps leave count alone.
LEMMA OthersKeepEnough ==
    ASSUME IInv, IsFiniteSet(Producers), IsFiniteSet(Consumers), NoLostWakeup,
           NEW t \in Threads, NEW to \in ControlPoints, pc' = [pc EXCEPT ![t] = to],
           UNCHANGED count,
           \/ to \in {"relock", "test", "body"}
           \/ pc[t] \notin {"relock", "test", "body"} /\ to # "wait"
           \/ to = "wait" /\ MustWait(t)
    PROVE  NoLostWakeup'
<1>1. QUEUE_SIZE \in Int /\ count \in Int /\ TypeOK
  BY QueueAssumption DEF IInv, TypeOK
<1>2. to = "wait" /\ MustWait(t) =>
          /\ t \in Producers => t \notin Consumers /\ QUEUE_SIZE - count <= 0
          /\ t \notin Producers => count <= 0
  BY <1>1, QueueAssumption DEF MustWait
<1>3. \A n \in Int : /\ Enough(Producers, n)
                     /\ to = "wait" /\ MustWait(t) => t \notin Producers \/ n <= 0
                     => (Waiting(Producers)' # {} => n <= Cardinality(OnTheWay(Producers)'))
  BY <1>1, MoveKeepsEnough DEF Threads
<1>4. \A n \in Int : /\ Enough(Consumers, n)
                     /\ to = "wait" /\ MustWait(t) => t \notin Consumers \/ n <= 0
                     => (Waiting(Consumers)' # {} => n <= Cardinality(OnTheWay(Consumers)'))
  BY <1>1, MoveKeepsEnough DEF Threads
<1>5. Enough(Producers, QUEUE_SIZE - count) /\ Enough(Consumers, count)
  BY DEF NoLostWakeup, Enough
<1>6. Waiting(Producers)' # {} => QUEUE_SIZE - count <= Cardinality(OnTheWay(Producers)')
  BY <1>1, <1>2, <1>3, <1>5
<1>7. Waiting(Consumers)' # {} => count <= Cardinality(OnTheWay(Consumers)')
  BY <1>1, <1>2, <1>4, <1>5
<1> QED BY <1>6, <1>7 DEF NoLostWakeup

LEMMA NextKeepsEnough ==
    ASSUME IInv, IsFiniteSet(Producers), IsFiniteSet(Consumers), NoLostWakeup, [Next]_vars
    PROVE  NoLostWakeup'
<1> USE DEF ControlPoints
<1>1. CASE UNCHANGED vars \/ Return
  BY <1>1 DEF vars, Return, NoLostWakeup, Waiting, OnTheWay
<1>2. CASE \E t \in Threads : Spawn(t) \/ Acquire(t) \/ Relock(t) \/ WakeSpuriously(t)
  BY <1>2, OthersKeepEnough DEF Spawn, Acquire, Relock, WakeSpuriously
<1>3. CASE \E t \in Threads : Enter(t) \/ Wait(t)
  BY <1>3, OthersKeepEnough DEF Enter, Wait
<1>4. CASE \E p \in Producers : Put(p) \/ UnlockPush(p)
  BY <1>4, PutKeepsEnough, OthersKeepEnough DEF UnlockPush, Threads
<1>5. CASE \E c \in Consumers : Take(c) \/ UnlockPop(c) \/ PrintItem(c)
  BY <1>5, TakeKeepsEnough, OthersKeepEnough DEF UnlockPop, PrintItem, Threads
<1> QED
  BY <1>1, <1>2, <1>3, <1>4, <1>5
  DEF Next, Main, Ended, Producer, Consumer, Monitor, Threads

\* However many threads there are, one signal per push and pop leaves no thread
\* asleep that could go on.
THEOREM NoWakeupLost ==
    ASSUME IsFiniteSet(Producers), IsFiniteSet(Consumers)
    PROVE  Spec => []NoLostWakeup
<1>1. Init => IInv /\ NoLostWakeup
  BY InitIInv DEF Init, NoLostWakeup, Waiting, Threads
<1>2. IInv /\ NoLostWakeup /\ [Next]_vars => (IInv /\ NoLostWakeup)'
  BY NextIInv, NextKeepsEnough
<1> QED BY <1>1, <1>2, PTL DEF Spec

-----------------------------------------------------------------------------
\* The refinement.  A push is the Put of BoundedFifo and a pop is its Get; every other
\* step leaves the channel as it is.

ContentsInv ==
    /\ QueueContents \in Seq(Items) /\ Len(QueueContents) = count
    /\ \A n \in 1 .. count : QueueContents[n] = buffer[(head + n - 1) % QUEUE_SIZE]

LEMMA ContentsSeq == IInv => ContentsInv
<1> SUFFICES ASSUME IInv PROVE ContentsInv
  OBVIOUS
<1>1. count \in Nat /\ head \in Nat
  BY QueueAssumption DEF IInv, TypeOK, Slots
<1>2. \A n \in 1 .. count : buffer[(head + n - 1) % QUEUE_SIZE] \in Items
  <2> SUFFICES ASSUME NEW n \in 1 .. count
               PROVE  buffer[(head + n - 1) % QUEUE_SIZE] \in Items
    OBVIOUS
  <2>1. n - 1 \in 0 .. count - 1 /\ head + n - 1 = head + (n - 1)
    BY <1>1
  <2> QED BY <2>1 DEF IInv, FilledInv
<1>3. QueueContents \in [1 .. count -> Items]
  BY <1>2 DEF QueueContents
<1>4. QueueContents \in Seq(Items)
  BY <1>1, <1>3, SeqDef
<1>5. Len(QueueContents) = count
  BY <1>1, <1>3, <1>4, LenProperties
<1> QED BY <1>4, <1>5 DEF QueueContents, ContentsInv

LEMMA ContentsSeqNext == IInv' => ContentsInv'
  BY ContentsSeq, PTL

LEMMA PutRefines ==
    ASSUME IInv, IInv', NEW p \in Producers, Put(p) PROVE Fifo!Put(p)
<1>1. p \in Threads /\ p \notin Consumers /\ pc \in [Threads -> ControlPoints]
  BY QueueAssumption DEF Threads, IInv, TypeOK
<1>2. /\ pc' \in [Threads -> ControlPoints] /\ pc[p] = "body" /\ pc'[p] = "unlock"
      /\ \A u \in Threads \ {p} :
            pc'[u] = pc[u] \/ (pc[u] = "wait" /\ pc'[u] = "relock")
  BY <1>1, SignalMoves DEF Put, IInv, Threads
<1>3. /\ QUEUE_SIZE \in Nat \ {0} /\ head \in 0 .. QUEUE_SIZE - 1
      /\ count \in 0 .. QUEUE_SIZE - 1 /\ tail = (head + count) % QUEUE_SIZE
      /\ tail \in Slots /\ i[p] \in 0 .. ITEMS_PER_PRODUCER - 1
  <2>1. i[p] \in 0 .. ITEMS_PER_PRODUCER /\ i[p] < ITEMS_PER_PRODUCER
    BY <1>2 DEF IInv, TypeOK, LoopInv
  <2>2. count < QUEUE_SIZE /\ tail = (head + count) % QUEUE_SIZE
    BY <1>2 DEF IInv, RingConsistent
  <2> QED BY <2>1, <2>2, QueueAssumption DEF IInv, TypeOK, Slots
<1>4. /\ count' = count + 1 /\ head' = head /\ i' = i /\ popped' = popped
      /\ buffer' = [buffer EXCEPT ![tail] = <<p, i[p]>>]
  BY DEF Put
<1>5. Sent \in [Producers -> Int] /\ Sent[p] = i[p]
  BY <1>2 DEF Sent, IInv, TypeOK
<1>6. Sent' = [Sent EXCEPT ![p] = @ + 1]
  BY <1>1, <1>2, <1>4 DEF Sent, Threads
<1>7. /\ QueueContents \in Seq(Items) /\ Len(QueueContents) = count
      /\ \A n \in 1 .. count : QueueContents[n] = buffer[(head + n - 1) % QUEUE_SIZE]
  BY ContentsSeq DEF ContentsInv
<1>8. /\ QueueContents' \in Seq(Items) /\ Len(QueueContents') = count + 1
      /\ \A n \in 1 .. count + 1 : QueueContents'[n] = buffer'[(head + n - 1) % QUEUE_SIZE]
  BY <1>4, ContentsSeqNext DEF ContentsInv
<1>9. \A n \in 1 .. count : QueueContents'[n] = QueueContents[n]
  <2> SUFFICES ASSUME NEW n \in 1 .. count PROVE QueueContents'[n] = QueueContents[n]
    OBVIOUS
  <2>1. (head + n - 1) % QUEUE_SIZE # tail /\ (head + n - 1) % QUEUE_SIZE \in Slots
    <3>1. head + n - 1 \in 0 .. 2 * QUEUE_SIZE - 1 /\ head + count \in 0 .. 2 * QUEUE_SIZE - 1
      BY <1>3
    <3> QED BY <1>3, <3>1, Wrap DEF Slots
  <2>2. n \in 1 .. count + 1
    BY <1>3
  <2> QED BY <1>4, <1>7, <1>8, <2>1, <2>2 DEF IInv, TypeOK
<1>10. QueueContents'[count + 1] = <<p, i[p]>>
  <2>1. head + (count + 1) - 1 = head + count /\ count + 1 \in 1 .. count + 1
    BY <1>3
  <2>2. QueueContents'[count + 1] = buffer'[(head + count) % QUEUE_SIZE]
    BY <1>8, <2>1
  <2> QED BY <1>3, <1>4, <2>2 DEF IInv, TypeOK
<1>11. <<p, i[p]>> \in Items
  BY <1>3 DEF Items
<1>12. QueueContents' = Append(QueueContents, <<p, i[p]>>)
  <2> DEFINE r == Append(QueueContents, <<p, i[p]>>)
  <2>1. /\ r \in Seq(Items) /\ Len(r) = count + 1
        /\ \A n \in 1 .. count : r[n] = QueueContents[n]
        /\ r[count + 1] = <<p, i[p]>>
    BY <1>7, <1>11
  <2> HIDE DEF r
  <2>2. \A n \in 1 .. count + 1 : r[n] = QueueContents'[n]
    <3>1. \A n \in 1 .. count + 1 : n \in 1 .. count \/ n = count + 1
      BY <1>3
    <3> QED BY <1>9, <1>10, <2>1, <3>1
  <2>3. QueueContents' = r
    BY <1>8, <2>1, <2>2, SeqEqual
  <2> QED BY <2>3 DEF r
<1>13. Sent[p] < ITEMS_PER_PRODUCER /\ Len(QueueContents) < QUEUE_SIZE
  BY <1>3, <1>5, <1>7, QueueAssumption
<1> QED BY <1>4, <1>5, <1>6, <1>12, <1>13 DEF Fifo!Put

LEMMA TakeRefines ==
    ASSUME IInv, IInv', NEW c \in Consumers, Take(c) PROVE Fifo!Get
<1>1. c \in Threads /\ c \notin Producers /\ pc \in [Threads -> ControlPoints]
  BY QueueAssumption DEF Threads, IInv, TypeOK
<1>2. \A u \in Producers : pc'[u] = pc[u] \/ (pc[u] = "wait" /\ pc'[u] = "relock")
  BY <1>1, SignalMoves DEF Take, IInv, Threads
<1>3. /\ QUEUE_SIZE \in Nat \ {0} /\ head \in 0 .. QUEUE_SIZE - 1
      /\ count \in 1 .. QUEUE_SIZE
  BY QueueAssumption DEF IInv, TypeOK, RingConsistent, Take, Slots
<1>4. /\ count' = count - 1 /\ head' = (head + 1) % QUEUE_SIZE /\ i' = i
      /\ buffer' = buffer /\ popped' = Append(popped, buffer[head])
  BY DEF Take, NextSlot
<1>5. Sent' = Sent
  BY <1>2, <1>4 DEF Sent
<1>7. /\ QueueContents \in Seq(Items) /\ Len(QueueContents) = count
      /\ \A n \in 1 .. count : QueueContents[n] = buffer[(head + n - 1) % QUEUE_SIZE]
  BY ContentsSeq DEF ContentsInv
<1>8. /\ QueueContents' \in Seq(Items) /\ Len(QueueContents') = count - 1
      /\ \A n \in 1 .. count - 1 : QueueContents'[n] = buffer[(head' + n - 1) % QUEUE_SIZE]
  BY <1>4, ContentsSeqNext DEF ContentsInv
<1>9. QueueContents[1] = buffer[head]
  <2>1. (head + 1 - 1) % QUEUE_SIZE = head
    BY <1>3, Wrap
  <2> QED BY <1>3, <1>7, <2>1
<1>10. \A n \in 1 .. count - 1 : QueueContents'[n] = QueueContents[n + 1]
  <2> SUFFICES ASSUME NEW n \in 1 .. count - 1 PROVE QueueContents'[n] = QueueContents[n + 1]
    OBVIOUS
  <2>1. n - 1 \in 0 .. QUEUE_SIZE - 1 /\ n + 1 \in 1 .. count
    BY <1>3
  <2>2. (head' + (n - 1)) % QUEUE_SIZE = (head + ((n - 1) + 1)) % QUEUE_SIZE
    BY <1>3, <1>4, <2>1, Advance
  <2>3. /\ head' + (n - 1) = head' + n - 1
        /\ head + ((n - 1) + 1) = head + (n + 1) - 1
    BY <1>3, <1>4
  <2> QED BY <1>7, <1>8, <2>1, <2>2, <2>3
<1>11. QueueContents # <<>> /\ QueueContents' = Tail(QueueContents) /\ Head(QueueContents) = buffer[head]
  <2>1. QueueContents # <<>> /\ Head(QueueContents) = QueueContents[1]
    BY <1>3, <1>7, EmptySeq
  <2>2. /\ Tail(QueueContents) \in Seq(Items) /\ Len(Tail(QueueContents)) = count - 1
        /\ \A n \in 1 .. count - 1 : Tail(QueueContents)[n] = QueueContents[n + 1]
    BY <1>3, <1>7, <2>1, HeadTailProperties
  <2>3. QueueContents' = Tail(QueueContents)
    BY <1>8, <1>10, <2>2, SeqEqual
  <2> QED BY <1>9, <2>1, <2>3
<1> QED BY <1>4, <1>5, <1>11 DEF Fifo!Get

\* What the queue shows to its clients depends on the ring, on popped, on i and on
\* who is past its push.
LEMMA OthersStutter ==
    ASSUME UNCHANGED <<buffer, head, count, popped, i>>,
           \A p \in Producers : pc'[p] = "unlock" <=> pc[p] = "unlock"
    PROVE  UNCHANGED Fifo!fifoVars
<1>1. QueueContents' = QueueContents
  BY DEF QueueContents
<1>2. Sent' = Sent
  BY DEF Sent
<1> QED BY <1>1, <1>2 DEF Fifo!fifoVars

LEMMA NextRefines ==
    ASSUME IInv, IInv', [Next]_vars PROVE [Fifo!Next]_Fifo!fifoVars
<1> TypeOK
  BY DEF IInv
<1>1. CASE UNCHANGED vars \/ Return
  BY <1>1, OthersStutter DEF vars, Return
<1>2. CASE \E t \in Threads : Spawn(t) \/ Acquire(t) \/ Relock(t) \/ WakeSpuriously(t)
  <2>1. PICK t \in Threads : Spawn(t) \/ Acquire(t) \/ Relock(t) \/ WakeSpuriously(t)
    BY <1>2
  <2>2. /\ UNCHANGED <<buffer, head, count, popped, i>>
        /\ \A p \in Producers : pc'[p] = "unlock" <=> pc[p] = "unlock"
    BY <2>1 DEF Spawn, Acquire, Relock, WakeSpuriously, TypeOK, Threads
  <2> QED BY <2>2, OthersStutter
<1>3. CASE \E t \in Threads : Enter(t) \/ Wait(t)
  <2>1. PICK t \in Threads : Enter(t) \/ Wait(t)
    BY <1>3
  <2>2. /\ UNCHANGED <<buffer, head, count, popped, i>>
        /\ \A p \in Producers : pc'[p] = "unlock" <=> pc[p] = "unlock"
    BY <2>1 DEF Enter, Wait, TypeOK, Threads
  <2> QED BY <2>2, OthersStutter
<1>4. CASE \E p \in Producers : Put(p)
  BY <1>4, PutRefines DEF Fifo!Next
<1>5. CASE \E p \in Producers : UnlockPush(p)
  <2>1. PICK p \in Producers : UnlockPush(p)
    BY <1>5
  <2>2. Sent' = Sent
    BY <2>1 DEF UnlockPush, Sent, TypeOK, Threads
  <2>3. QueueContents' = QueueContents
    BY <2>1 DEF UnlockPush, QueueContents
  <2> QED BY <2>1, <2>2, <2>3 DEF UnlockPush, Fifo!fifoVars
<1>6. CASE \E c \in Consumers : Take(c)
  BY <1>6, TakeRefines DEF Fifo!Next
<1>7. CASE \E c \in Consumers : UnlockPop(c) \/ PrintItem(c)
  BY <1>7, OthersStutter, QueueAssumption DEF UnlockPop, PrintItem, TypeOK, Threads
<1> QED
  BY <1>1, <1>2, <1>3, <1>4, <1>5, <1>6, <1>7
  DEF Next, Main, Ended, Producer, Consumer, Monitor, Threads

LEMMA InitRefines == Init => Fifo!Init
<1> SUFFICES ASSUME Init PROVE Fifo!Init
  OBVIOUS
<1>1. IInv /\ ContentsInv /\ count = 0
  BY InitIInv, ContentsSeq DEF Init
<1>2. QueueContents = <<>>
  BY <1>1, EmptySeq DEF ContentsInv
<1>3. Sent = [p \in Producers |-> 0]
  BY DEF Init, Sent, Threads
<1> QED BY <1>2, <1>3 DEF Init, Fifo!Init

\* The ring, its indices and its locking implement a bounded first-in first-out
\* channel, for any number of threads and items and any size of the ring.
THEOREM QueueIsFifo == Spec => ImplementsFifo
<1>1. IInv /\ IInv' /\ [Next]_vars => [Fifo!Next]_Fifo!fifoVars
  BY NextRefines
<1> QED BY InitIInv, NextIInv, InitRefines, <1>1, PTL DEF Spec, ImplementsFifo, Fifo!Spec

-----------------------------------------------------------------------------
\* What is lost.  An item that has been handed over has been printed, or is in the
\* queue, or is in the hands of a consumer; and main returns when all are handed over.
InQueue(x) == \E k \in 1 .. count : QueueContents[k] = x
InHands(x) == \E c \in Consumers : pc[c] \in {"unlock", "print"} /\ item[c] = x
Accounted ==
    \A p \in Producers : \A n \in 0 .. Sent[p] - 1 :
        <<p, n>> \in printed \/ InQueue(<<p, n>>) \/ InHands(<<p, n>>)
JoinInv ==
    /\ \A p \in Producers : pc[p] = "done" => i[p] = ITEMS_PER_PRODUCER
    /\ main = "returned" => \A p \in Producers : pc[p] = "done"

LEMMA JoinStep == ASSUME IInv, JoinInv, [Next]_vars PROVE JoinInv'
<1> USE DEF JoinInv
<1>1. CASE UNCHANGED vars \/ Return
  BY <1>1 DEF vars, Return, AllJoined
<1>2. CASE \E t \in Threads : Spawn(t)
  BY <1>2, QueueAssumption DEF Spawn, IInv, TypeOK, Threads
<1>3. CASE \E t \in Threads : Acquire(t) \/ Relock(t) \/ WakeSpuriously(t) \/ Enter(t) \/ Wait(t)
  BY <1>3 DEF Acquire, Relock, WakeSpuriously, Enter, Wait, Running, IInv, TypeOK, Threads
<1>4. CASE \E p \in Producers : Put(p)
  BY <1>4, SignalMoves DEF Put, Running, IInv, Threads
<1>5. CASE \E p \in Producers : UnlockPush(p)
  BY <1>5, QueueAssumption DEF UnlockPush, Running, IInv, TypeOK, LoopInv, Threads
<1>6. CASE \E c \in Consumers : Take(c)
  BY <1>6, SignalMoves DEF Take, Running, IInv, Threads
<1>7. CASE \E c \in Consumers : UnlockPop(c) \/ PrintItem(c)
  BY <1>7, QueueAssumption DEF UnlockPop, PrintItem, Running, IInv, TypeOK, Threads
<1> QED
  BY <1>1, <1>2, <1>3, <1>4, <1>5, <1>6, <1>7
  DEF Next, Main, Ended, Producer, Consumer, Monitor, Threads

\* A step of the channel that is neither a push nor a pop leaves an item where it is,
\* unless a consumer prints it.
LEMMA StutterAccounts ==
    ASSUME Accounted, UNCHANGED <<count, QueueContents, item>>, Sent' = Sent,
           printed \subseteq printed',
           \A c \in Consumers : pc[c] \in {"unlock", "print"} =>
                                    pc'[c] \in {"unlock", "print"} \/ item[c] \in printed'
    PROVE  Accounted'
  BY DEF Accounted, InQueue, InHands

LEMMA PutAccounts ==
    ASSUME IInv, IInv', Accounted, NEW p \in Producers, Put(p) PROVE Accounted'
<1>1. Fifo!Put(p)
  BY PutRefines
<1>2. ContentsInv /\ ContentsInv' /\ count' = count + 1 /\ count \in Nat
  BY ContentsSeq, ContentsSeqNext, QueueAssumption DEF Put, IInv, TypeOK
<1>3. Sent \in [Producers -> Nat] /\ Sent' = [Sent EXCEPT ![p] = @ + 1]
  BY <1>1, QueueAssumption DEF Fifo!Put, Sent, IInv, TypeOK
<1>4. <<p, Sent[p]>> \in Items
  <2>1. Sent[p] \in 0 .. ITEMS_PER_PRODUCER - 1
    BY <1>1, <1>3, QueueAssumption DEF Fifo!Put
  <2> QED BY <2>1 DEF Items
<1>5. /\ \A k \in 1 .. count : QueueContents'[k] = QueueContents[k]
      /\ QueueContents'[count + 1] = <<p, Sent[p]>>
  BY <1>1, <1>2, <1>4 DEF Fifo!Put, ContentsInv
<1>6. \A c \in Consumers : pc[c] \in {"unlock", "print"} => pc'[c] = pc[c]
  BY SignalMoves, QueueAssumption DEF Put, IInv, Threads
<1>7. \A x : InQueue(x) => InQueue(x)'
  BY <1>2, <1>5 DEF InQueue
<1>8. \A x : InHands(x) => InHands(x)'
  BY <1>6 DEF InHands, Put
<1>9. \A x : x = <<p, Sent[p]>> => InQueue(x)'
  <2>1. count + 1 \in 1 .. count'
    BY <1>2
  <2> QED BY <1>5, <2>1 DEF InQueue
<1>10. ASSUME NEW u \in Producers, NEW n \in 0 .. Sent'[u] - 1
       PROVE  <<u, n>> \in printed' \/ InQueue(<<u, n>>)' \/ InHands(<<u, n>>)'
  <2>1. CASE u = p /\ n = Sent[p]
    BY <1>9, <2>1
  <2>2. CASE ~(u = p /\ n = Sent[p])
    <3>1. n \in 0 .. Sent[u] - 1
      BY <1>3, <1>10, <2>2
    <3> QED BY <1>7, <1>8, <3>1 DEF Accounted, Put
  <2> QED BY <2>1, <2>2
<1> QED BY <1>10 DEF Accounted

LEMMA TakeAccounts ==
    ASSUME IInv, IInv', Accounted, NEW c \in Consumers, Take(c) PROVE Accounted'
<1>1. Fifo!Get
  BY TakeRefines
<1>2. ContentsInv /\ ContentsInv' /\ count' = count - 1 /\ count \in Nat
  BY ContentsSeq, ContentsSeqNext, QueueAssumption DEF Take, IInv, TypeOK
<1>3. Sent' = Sent /\ printed' = printed
  BY <1>1 DEF Fifo!Get, Take
<1>4. /\ QueueContents # <<>> /\ count > 0
      /\ \A k \in 1 .. count - 1 : QueueContents'[k] = QueueContents[k + 1]
      /\ Head(QueueContents) = QueueContents[1]
  BY <1>1, <1>2, HeadTailProperties, EmptySeq DEF Fifo!Get, ContentsInv
<1>5. buffer[head] = QueueContents[1]
  <2>1. head \in 0 .. QUEUE_SIZE - 1 /\ head + 1 - 1 = head /\ 1 \in 1 .. count
    BY <1>2, <1>4, QueueAssumption DEF IInv, TypeOK, Slots
  <2>2. head % QUEUE_SIZE = head
    BY <2>1, Wrap, QueueAssumption
  <2> QED BY <1>2, <2>1, <2>2 DEF ContentsInv
<1>6. pc[c] = "body" /\ pc'[c] = "unlock" /\ item'[c] = QueueContents[1]
  BY <1>5, SignalMoves DEF Take, IInv, TypeOK, Threads
<1>7. \A b \in Consumers : pc[b] \in {"unlock", "print"} => pc'[b] = pc[b] /\ item'[b] = item[b]
  BY <1>6, SignalMoves DEF Take, IInv, TypeOK, Threads
<1>8. \A x : InHands(x) => InHands(x)'
  BY <1>7 DEF InHands
<1>9. ASSUME NEW x, InQueue(x) PROVE InQueue(x)' \/ InHands(x)'
  <2>1. PICK k \in 1 .. count : QueueContents[k] = x
    BY <1>9 DEF InQueue
  <2>2. CASE k = 1
    BY <1>6, <2>1, <2>2 DEF InHands
  <2>3. CASE k # 1
    <3>1. k - 1 \in 1 .. count' /\ k - 1 + 1 = k
      BY <1>2, <2>3
    <3>2. QueueContents'[k - 1] = x
      BY <1>2, <1>4, <2>1, <3>1
    <3> QED BY <3>1, <3>2 DEF InQueue
  <2> QED BY <2>2, <2>3
<1> QED BY <1>3, <1>8, <1>9 DEF Accounted

LEMMA AccountsStep ==
    ASSUME IInv, IInv', Accounted, [Next]_vars PROVE Accounted'
<1>1. CASE \E p \in Producers : Put(p)
  BY <1>1, PutAccounts
<1>2. CASE \E c \in Consumers : Take(c)
  BY <1>2, TakeAccounts
<1>3. ASSUME ~\E p \in Producers : Put(p), ~\E c \in Consumers : Take(c)
      PROVE  Accounted'
  <2>1. /\ UNCHANGED <<buffer, head, count, item>> /\ printed \subseteq printed'
        /\ \A c \in Consumers : pc[c] \in {"unlock", "print"} =>
                                    pc'[c] \in {"unlock", "print"} \/ item[c] \in printed'
    <3>1. CASE UNCHANGED vars \/ Return
      BY <3>1 DEF vars, Return
    <3>2. CASE \E t \in Threads : Spawn(t) \/ Acquire(t) \/ Relock(t)
      BY <3>2 DEF Spawn, Acquire, Relock, IInv, TypeOK, Threads
    <3>3. CASE \E t \in Threads : WakeSpuriously(t) \/ Enter(t) \/ Wait(t)
      BY <3>3 DEF WakeSpuriously, Enter, Wait, IInv, TypeOK, Threads
    <3>4. CASE \E p \in Producers : UnlockPush(p)
      BY <3>4, QueueAssumption DEF UnlockPush, IInv, TypeOK, Threads
    <3>5. CASE \E c \in Consumers : UnlockPop(c)
      BY <3>5 DEF UnlockPop, IInv, TypeOK, Threads
    <3>6. CASE \E c \in Consumers : PrintItem(c)
      BY <3>6 DEF PrintItem, IInv, TypeOK, Threads
    <3> QED
      BY <1>3, <3>1, <3>2, <3>3, <3>4, <3>5, <3>6
      DEF Next, Main, Ended, Producer, Consumer, Monitor, Threads
  <2>2. QueueContents' = QueueContents
    BY <2>1 DEF QueueContents
  <2>3. Sent' = Sent
    <3>1. [Fifo!Next]_Fifo!fifoVars
      BY NextRefines
    <3>2. ContentsInv /\ ContentsInv' /\ count' = count
      BY <2>1, ContentsSeq, ContentsSeqNext
    <3>3. Len(QueueContents') = Len(QueueContents)
      BY <2>2
    <3>4. \A x : QueueContents' # Append(QueueContents, x)
      BY <2>2, <3>2, AppendProperties DEF ContentsInv
    <3> QED BY <3>1, <3>4 DEF Fifo!Next, Fifo!Put, Fifo!Get, Fifo!fifoVars
  <2> QED BY <2>1, <2>2, <2>3, StutterAccounts
<1> QED BY <1>1, <1>2, <1>3

\* There are at most as many values of a function as arguments.
LEMMA FewValues ==
    ASSUME NEW S, IsFiniteSet(S), NEW f
    PROVE  /\ IsFiniteSet({f[x] : x \in S})
           /\ Cardinality({f[x] : x \in S}) <= Cardinality(S)
<1> DEFINE T == {f[x] : x \in S}
           g == [x \in S |-> f[x]]
<1>1. g \in Surjection(S, T)
  BY DEF Surjection
<1> HIDE DEF g
<1> QED BY <1>1, FS_Surjection

\* When main returns, what has not been printed fits into the queue and the consumers.
LEMMA AtMostLost ==
    ASSUME IInv, Accounted, JoinInv, IsFiniteSet(Consumers) PROVE LossBounded
<1> SUFFICES ASSUME ~Running
             PROVE  Cardinality(Items \ printed) <= QUEUE_SIZE + Cardinality(Consumers)
  BY DEF LossBounded
<1> DEFINE queued == {QueueContents[k] : k \in 1 .. count}
           held == {item[c] : c \in Consumers}
<1>1. count \in Nat /\ QUEUE_SIZE \in Nat /\ count <= QUEUE_SIZE
  BY QueueAssumption DEF IInv, TypeOK
<1>2. IsFiniteSet(1 .. count) /\ Cardinality(1 .. count) = count
  BY <1>1, FS_Interval
<1>3. IsFiniteSet(queued) /\ Cardinality(queued) <= count
  BY <1>2, FewValues
<1>4. IsFiniteSet(held) /\ Cardinality(held) <= Cardinality(Consumers)
  BY FewValues
<1>5. Items \ printed \subseteq queued \cup held
  <2> SUFFICES ASSUME NEW x \in Items, x \notin printed PROVE x \in queued \cup held
    OBVIOUS
  <2>1. PICK p \in Producers, n \in 0 .. ITEMS_PER_PRODUCER - 1 : x = <<p, n>>
    BY DEF Items
  <2>2. Sent[p] = ITEMS_PER_PRODUCER
    BY DEF Running, JoinInv, Sent
  <2>3. InQueue(x) \/ InHands(x)
    BY <2>1, <2>2 DEF Accounted
  <2> QED BY <2>3 DEF InQueue, InHands
<1> HIDE DEF queued, held
<1>6. /\ IsFiniteSet(queued \cup held) /\ Cardinality(queued \cap held) \in Nat
      /\ Cardinality(queued \cup held) =
             Cardinality(queued) + Cardinality(held) - Cardinality(queued \cap held)
  BY <1>3, <1>4, FS_Union, FS_Intersection, FS_CardinalityType
<1>7. /\ Cardinality(Items \ printed) <= Cardinality(queued \cup held)
      /\ Cardinality(Items \ printed) \in Nat
  BY <1>5, <1>6, FS_Subset, FS_CardinalityType
<1>8. /\ Cardinality(queued) \in Nat /\ Cardinality(held) \in Nat
      /\ Cardinality(Consumers) \in Nat /\ Cardinality(queued \cup held) \in Nat
  BY <1>3, <1>4, <1>6, FS_CardinalityType
<1> QED BY <1>1, <1>3, <1>4, <1>6, <1>7, <1>8

\* What main cuts off when it returns is at most a full queue and one item for each
\* consumer, whatever the number of items.
THEOREM LossIsBounded ==
    ASSUME IsFiniteSet(Consumers)
    PROVE  Spec => []LossBounded
<1>1. Init => IInv /\ Accounted /\ JoinInv
  BY InitIInv, QueueAssumption DEF Init, Accounted, Sent, JoinInv, Threads
<1>2. IInv /\ Accounted /\ JoinInv /\ [Next]_vars => (IInv /\ Accounted /\ JoinInv)'
  BY NextIInv, AccountsStep, JoinStep
<1> QED BY <1>1, <1>2, AtMostLost, PTL DEF Spec

=============================================================================
