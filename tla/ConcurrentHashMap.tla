------------------------- MODULE ConcurrentHashMap -------------------------
(***************************************************************************)
(* src/COCURRENTHASHMAP.c: a hash map with one mutex per bucket and a      *)
(* singly linked list of nodes in each.  Threads call map_insert, map_get  *)
(* and map_remove in any order; every read or write of a bucket or a node  *)
(* is a step, and freed nodes are handed out again by malloc.  map_destroy *)
(* is called when the threads have been joined, as in main.                *)
(***************************************************************************)
EXTENDS Integers, FiniteSets

CONSTANTS Threads, Keys, Values,
          Buckets,      \* the indices of m->buckets
          HashOf,       \* HashOf[k]: hash_str(k) % m->nbuckets
          Nodes,        \* the addresses malloc gives to nodes
          Null,         \* the null pointer, the owner of a free mutex, NULL
                        \* as the answer of an operation
          MaxCalls      \* bound: calls per thread

ASSUME HashMapAssumption ==
    /\ HashOf \in [Keys -> Buckets]
    /\ Null \notin Nodes \cup Threads \cup Values
    /\ MaxCalls \in Nat \ {0}

VARIABLES head, lock,        \* head[b], lock[b]: the fields of bucket b; lock[b]
                             \* is the thread that holds the mutex
          key, value, next,  \* the fields of the nodes, by address
          live,              \* the nodes allocated and not freed
          pc,                \* pc[t]: the control point of thread t
          request, result,   \* the arguments and the result of its call
          cur, prev, fresh,  \* its locals cur, prev and n
          calls,             \* calls[t]: how many calls t has begun
          destroyed          \* has main come to map_destroy?

heap == <<head, key, value, next, live>>
vars == <<heap, lock, pc, request, result, cur, prev, fresh, calls, destroyed>>

Requests == [op : {"insert", "get", "remove"}, key : Keys, value : Values]
Bucket(t) == HashOf[request[t].key]

\* map_create, and the threads before their first call.
Init ==
    /\ head = [b \in Buckets |-> Null]
    /\ lock = [b \in Buckets |-> Null]
    /\ key = [n \in Nodes |-> Null]
    /\ value = [n \in Nodes |-> Null]
    /\ next = [n \in Nodes |-> Null]
    /\ live = {}
    /\ pc = [t \in Threads |-> "idle"]
    /\ request = [t \in Threads |-> Null]
    /\ result = [t \in Threads |-> Null]
    /\ cur = [t \in Threads |-> Null]
    /\ prev = [t \in Threads |-> Null]
    /\ fresh = [t \in Threads |-> Null]
    /\ calls = [t \in Threads |-> 0]
    /\ destroyed = FALSE

Goto(t, point) == pc' = [pc EXCEPT ![t] = point]
Answer(t, v) == result' = [result EXCEPT ![t] = v]

-----------------------------------------------------------------------------
\* A thread calls one of the three operations, which begin alike: hash, lock,
\* and walk from the head.
Call(t) ==
    /\ pc[t] = "idle" /\ ~destroyed
    /\ calls[t] < MaxCalls
    /\ calls' = [calls EXCEPT ![t] = @ + 1]
    /\ \E r \in Requests :
           /\ r.op # "insert" => r.value = CHOOSE v \in Values : TRUE
           /\ request' = [request EXCEPT ![t] = r]
    /\ Goto(t, "lock")
    /\ UNCHANGED <<heap, lock, result, cur, prev, fresh, destroyed>>

\* Mutant: a reader goes in without the mutex.
LockMutant(t) ==
    /\ pc[t] = "lock"
    /\ \/ request[t].op = "get" /\ UNCHANGED lock
       \/ /\ request[t].op # "get" /\ lock[Bucket(t)] = Null
          /\ lock' = [lock EXCEPT ![Bucket(t)] = t]
    /\ cur' = [cur EXCEPT ![t] = head[Bucket(t)]]
    /\ prev' = [prev EXCEPT ![t] = Null]
    /\ Goto(t, "walk")
    /\ UNCHANGED <<heap, request, result, fresh, calls, destroyed>>
Lock(t) ==
    /\ pc[t] = "lock"
    /\ lock[Bucket(t)] = Null
    /\ lock' = [lock EXCEPT ![Bucket(t)] = t]
    /\ cur' = [cur EXCEPT ![t] = head[Bucket(t)]]
    /\ prev' = [prev EXCEPT ![t] = Null]
    /\ Goto(t, "walk")
    /\ UNCHANGED <<heap, request, result, fresh, calls, destroyed>>

Step(t) ==
    /\ pc[t] = "walk"
    /\ cur[t] # Null /\ key[cur[t]] # request[t].key
    /\ prev' = [prev EXCEPT ![t] = cur[t]]
    /\ cur' = [cur EXCEPT ![t] = next[cur[t]]]
    /\ UNCHANGED <<heap, lock, pc, request, result, fresh, calls, destroyed>>

Found(t, op) ==
    /\ pc[t] = "walk" /\ request[t].op = op
    /\ cur[t] # Null /\ key[cur[t]] = request[t].key

\* map_insert on a key that is there: the node gets the new value.
\* Mutant: the new value is the answer.
ReplaceMutant(t) ==
    /\ Found(t, "insert")
    /\ Answer(t, request[t].value)
    /\ value' = [value EXCEPT ![cur[t]] = request[t].value]
    /\ Goto(t, "unlock")
    /\ UNCHANGED <<head, key, next, live, lock, request, cur, prev, fresh, calls, destroyed>>
Replace(t) ==
    /\ Found(t, "insert")
    /\ Answer(t, value[cur[t]])
    /\ value' = [value EXCEPT ![cur[t]] = request[t].value]
    /\ Goto(t, "unlock")
    /\ UNCHANGED <<head, key, next, live, lock, request, cur, prev, fresh, calls, destroyed>>

ReadValue(t) ==
    /\ Found(t, "get")
    /\ Answer(t, value[cur[t]])
    /\ Goto(t, "unlock")
    /\ UNCHANGED <<heap, lock, request, cur, prev, fresh, calls, destroyed>>

\* map_remove takes the node out of the list.
\* Mutant: the first node is taken for one with a predecessor.
UnlinkMutant(t) ==
    /\ Found(t, "remove")
    /\ next' = IF prev[t] = Null THEN next ELSE [next EXCEPT ![prev[t]] = next[cur[t]]]
    /\ head' = [head EXCEPT ![Bucket(t)] = next[cur[t]]]
    /\ Answer(t, value[cur[t]])
    /\ Goto(t, "free")
    /\ UNCHANGED <<key, value, live, lock, request, cur, prev, fresh, calls, destroyed>>
Unlink(t) ==
    /\ Found(t, "remove")
    /\ IF prev[t] # Null
       THEN next' = [next EXCEPT ![prev[t]] = next[cur[t]]] /\ UNCHANGED head
       ELSE head' = [head EXCEPT ![Bucket(t)] = next[cur[t]]] /\ UNCHANGED next
    /\ Answer(t, value[cur[t]])
    /\ Goto(t, "free")
    /\ UNCHANGED <<key, value, live, lock, request, cur, prev, fresh, calls, destroyed>>

\* free: what the memory holds from now on means nothing.
Wipe(field, S) == [n \in Nodes |-> IF n \in S THEN Null ELSE field[n]]
Dispose(S) ==
    /\ live' = live \ S
    /\ key' = Wipe(key, S)
    /\ value' = Wipe(value, S)
    /\ next' = Wipe(next, S)

Free(t) ==
    /\ pc[t] = "free"
    /\ Dispose({cur[t]})
    /\ Goto(t, "unlock")
    /\ UNCHANGED <<head, lock, request, result, cur, prev, fresh, calls, destroyed>>

\* The key is not there.
Missing(t) ==
    /\ pc[t] = "walk" /\ cur[t] = Null
    /\ request[t].op # "insert"
    /\ Answer(t, Null)
    /\ Goto(t, "unlock")
    /\ UNCHANGED <<heap, lock, request, cur, prev, fresh, calls, destroyed>>

\* map_insert on a new key: a node in front of the list, published last.
Allocate(t) ==
    /\ pc[t] = "walk" /\ cur[t] = Null
    /\ request[t].op = "insert"
    /\ \E n \in Nodes \ live :
           /\ live' = live \cup {n}
           /\ fresh' = [fresh EXCEPT ![t] = n]
           /\ key' = [key EXCEPT ![n] = request[t].key]
           /\ value' = [value EXCEPT ![n] = request[t].value]
           /\ next' = [next EXCEPT ![n] = head[Bucket(t)]]
    /\ Goto(t, "publish")
    /\ UNCHANGED <<head, lock, request, result, cur, prev, calls, destroyed>>

Publish(t) ==
    /\ pc[t] = "publish"
    /\ head' = [head EXCEPT ![Bucket(t)] = fresh[t]]
    /\ Answer(t, Null)
    /\ Goto(t, "unlock")
    /\ UNCHANGED <<key, value, next, live, lock, request, cur, prev, fresh, calls, destroyed>>

\* Every path out of the three operations unlocks the bucket; the locals of
\* the call are gone with it.
Return(t) ==
    /\ Goto(t, "idle")
    /\ request' = [request EXCEPT ![t] = Null]
    /\ Answer(t, Null)
    /\ cur' = [cur EXCEPT ![t] = Null]
    /\ prev' = [prev EXCEPT ![t] = Null]
    /\ fresh' = [fresh EXCEPT ![t] = Null]

\* Mutant: map_get returns without it when it finds the key.
UnlockMutant(t) ==
    /\ pc[t] = "unlock"
    /\ lock' = IF request[t].op = "get" /\ result[t] # Null THEN lock
               ELSE [lock EXCEPT ![Bucket(t)] = Null]
    /\ Return(t)
    /\ UNCHANGED <<heap, calls, destroyed>>
Unlock(t) ==
    /\ pc[t] = "unlock"
    /\ lock' = [lock EXCEPT ![Bucket(t)] = Null]
    /\ Return(t)
    /\ UNCHANGED <<heap, calls, destroyed>>
-----------------------------------------------------------------------------
\* The nodes on the list from n on.
ListFrom(n) ==
    LET on == {S \in SUBSET Nodes :
                  /\ n # Null => n \in S
                  /\ \A m \in S : next[m] # Null => next[m] \in S}
    IN  {m \in Nodes : \A S \in on : m \in S}

\* map_destroy frees the list of every bucket, one bucket at a time; nobody
\* else is left, so it is one step.
MapDestroy ==
    /\ ~destroyed /\ destroyed' = TRUE
    /\ \A t \in Threads : pc[t] = "idle"
    /\ Dispose(UNION {ListFrom(head[b]) : b \in Buckets})
    /\ head' = [b \in Buckets |-> Null]
    /\ UNCHANGED <<lock, pc, request, result, cur, prev, fresh, calls>>

\* main has returned.
Ended == destroyed /\ UNCHANGED vars

Operation(t) ==
    \/ Lock(t) \/ Step(t)
    \/ Replace(t) \/ ReadValue(t) \/ Unlink(t) \/ Free(t)
    \/ Missing(t) \/ Allocate(t) \/ Publish(t) \/ Unlock(t)

Next == MapDestroy \/ Ended \/ \E t \in Threads : Call(t) \/ Operation(t)

Spec == Init /\ [][Next]_vars

-----------------------------------------------------------------------------
Pointers == Nodes \cup {Null}
ControlPoints == {"idle", "lock", "walk", "free", "publish", "unlock"}
Inside == ControlPoints \ {"idle", "lock"}

TypeOK ==
    /\ head \in [Buckets -> Pointers]
    /\ lock \in [Buckets -> Threads \cup {Null}]
    /\ key \in [Nodes -> Keys \cup {Null}]
    /\ value \in [Nodes -> Values \cup {Null}]
    /\ next \in [Nodes -> Pointers]
    /\ live \subseteq Nodes
    /\ \A n \in live : key[n] \in Keys /\ value[n] \in Values
    /\ pc \in [Threads -> ControlPoints]
    /\ request \in [Threads -> Requests \cup {Null}]
    /\ result \in [Threads -> Values \cup {Null}]
    /\ cur \in [Threads -> Pointers]
    /\ prev \in [Threads -> Pointers]
    /\ fresh \in [Threads -> Pointers]
    /\ calls \in [Threads -> 0 .. MaxCalls]
    /\ destroyed \in BOOLEAN

\* The mutex of a bucket is held exactly while a thread is at work in that
\* bucket, and by that thread: no path of the three operations works in a bucket
\* without its mutex or returns with it.
LocksBucket ==
    \A b \in Buckets, t \in Threads :
        lock[b] = t <=> pc[t] \in Inside /\ Bucket(t) = b

\* No thread reads or writes a node that has been freed: what it points to while
\* it walks is allocated, although removals free nodes at once (line 96).
NoUseAfterFree ==
    \A t \in Threads :
        pc[t] \in {"walk", "free"} =>
            /\ cur[t] # Null => cur[t] \in live
            /\ prev[t] # Null => prev[t] \in live

\* The allocated nodes are the ones on the lists and the one each map_insert is
\* about to publish: nothing is lost and nothing on a list is free, every list
\* ends, and no key is on it twice or in a bucket it does not hash to.  After
\* map_destroy, when the lists are empty, no node is left.
Reachable(b) == ListFrom(head[b])
ListsWellFormed ==
    /\ live = (UNION {Reachable(b) : b \in Buckets})
                \cup {fresh[t] : t \in {u \in Threads : pc[u] = "publish"}}
                \cup {cur[t] : t \in {u \in Threads : pc[u] = "free"}}
    /\ \A b \in Buckets :
           /\ \A n \in Reachable(b) : HashOf[key[n]] = b /\ n \notin ListFrom(next[n])
           /\ \A n, m \in Reachable(b) : key[n] = key[m] => n = m

\* The locked lists are linearizable: they implement the map of AtomicMap, with
\* the effect of an operation at the one step that changes a field of the list
\* or reads the value.
MapValue(k) ==
    LET found == {n \in Reachable(HashOf[k]) : key[n] = k}
    IN  IF found = {} THEN Null ELSE value[CHOOSE n \in found : TRUE]

Atomic == INSTANCE AtomicMap
              WITH NoValue <- Null,
                   map <- [k \in Keys |-> MapValue(k)],
                   status <- [t \in Threads |->
                                 CASE pc[t] = "idle" -> "idle"
                                   [] pc[t] \in {"lock", "walk", "publish"} -> "called"
                                   [] pc[t] \in {"free", "unlock"} -> "returning"],
                   answer <- result
ImplementsAtomicMap == Atomic!Spec

=============================================================================
