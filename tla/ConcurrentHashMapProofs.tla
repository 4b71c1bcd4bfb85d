---------------------- MODULE ConcurrentHashMapProofs ----------------------
(***************************************************************************)
(* Proofs about ConcurrentHashMap for any threads, keys, buckets and hash  *)
(* function: the types and the discipline of the bucket mutexes; that no   *)
(* node is used after its free and the lists stay well formed; and that    *)
(* the map implements AtomicMap, which is linearizability.                 *)
(***************************************************************************)
EXTENDS ConcurrentHashMap, TLAPS

\* A thread between its operations has no request, a thread in one has.
HasRequest == \A t \in Threads : pc[t] # "idle" => request[t] \in Requests

\* A thread past its walk points at the node it has found or made.
HoldsNode ==
    \A t \in Threads :
        /\ pc[t] = "free" => cur[t] \in Nodes
        /\ pc[t] = "publish" => fresh[t] \in Nodes

IInv == TypeOK /\ HasRequest /\ HoldsNode /\ LocksBucket

LEMMA BucketType ==
    ASSUME NEW t \in Threads, request[t] \in Requests
    PROVE  Bucket(t) \in Buckets
  BY HashMapAssumption DEF Bucket, Requests

LEMMA InitIInv == Init => IInv
<1> SUFFICES ASSUME Init PROVE IInv
  OBVIOUS
<1>1. TypeOK
  <2>1. calls \in [Threads -> 0 .. MaxCalls]
    BY HashMapAssumption DEF Init
  <2>2. /\ head \in [Buckets -> Pointers]
        /\ next \in [Nodes -> Pointers]
        /\ cur \in [Threads -> Pointers]
        /\ prev \in [Threads -> Pointers]
        /\ fresh \in [Threads -> Pointers]
    BY DEF Init, Pointers
  <2>3. /\ key \in [Nodes -> Keys \cup {Null}]
        /\ value \in [Nodes -> Values \cup {Null}]
        /\ lock \in [Buckets -> Threads \cup {Null}]
        /\ request \in [Threads -> Requests \cup {Null}]
        /\ result \in [Threads -> Values \cup {Null}]
    BY DEF Init
  <2> QED BY <2>1, <2>2, <2>3 DEF Init, TypeOK, ControlPoints
<1>2. HasRequest /\ HoldsNode
  BY DEF Init, HasRequest, HoldsNode
<1>3. LocksBucket
  BY HashMapAssumption DEF Init, LocksBucket, Inside, ControlPoints
<1> QED BY <1>1, <1>2, <1>3 DEF IInv

\* A step of t that stays inside its operation, or outside, and leaves the
\* mutexes alone keeps their discipline.
LEMMA SameSide ==
    ASSUME IInv, NEW t \in Threads, NEW point \in ControlPoints,
           pc[t] \in Inside <=> point \in Inside,
           Goto(t, point), UNCHANGED lock,
           request' = request \/ (point \notin Inside /\ \A u \in Threads \ {t} : request'[u] = request[u])
    PROVE  LocksBucket'
  BY DEF IInv, TypeOK, LocksBucket, Goto, Bucket, Inside

LEMMA CallIInv == ASSUME IInv, NEW t \in Threads, Call(t) PROVE IInv'
<1>1. PICK r \in Requests : request' = [request EXCEPT ![t] = r]
  BY DEF Call
<1>2. TypeOK'
  <2>1. calls' \in [Threads -> 0 .. MaxCalls]
    BY HashMapAssumption DEF Call, IInv, TypeOK
  <2> QED BY <1>1, <2>1 DEF Call, Goto, heap, IInv, TypeOK, ControlPoints
<1>3. HasRequest' /\ HoldsNode'
  BY <1>1 DEF Call, Goto, IInv, TypeOK, HasRequest, HoldsNode
<1>4. LocksBucket'
  <2>1. \A u \in Threads \ {t} : request'[u] = request[u]
    BY <1>1
  <2> QED BY <2>1, SameSide DEF Call, Inside, ControlPoints
<1> QED BY <1>2, <1>3, <1>4 DEF IInv

LEMMA LockIInv == ASSUME IInv, NEW t \in Threads, Lock(t) PROVE IInv'
<1>1. Bucket(t) \in Buckets
  BY BucketType DEF IInv, HasRequest, Lock
<1>2. TypeOK'
  BY <1>1 DEF Lock, Goto, heap, IInv, TypeOK, ControlPoints, Pointers
<1>3. HasRequest' /\ HoldsNode'
  BY DEF Lock, Goto, IInv, TypeOK, HasRequest, HoldsNode
<1>4. LocksBucket'
  <2>1. \A u \in Threads : Bucket(u)' = Bucket(u)
    BY DEF Lock, Bucket
  <2>2. \A u \in Threads \ {t} : pc'[u] = pc[u]
    BY DEF Lock, Goto, IInv, TypeOK
  <2>3. pc[t] \notin Inside /\ pc'[t] \in Inside
    BY DEF Lock, Goto, IInv, TypeOK, Inside, ControlPoints
  <2>4. lock' = [lock EXCEPT ![Bucket(t)] = t] /\ lock[Bucket(t)] = Null
    BY DEF Lock
  <2>5. lock \in [Buckets -> Threads \cup {Null}] /\ Null \notin Threads
    BY HashMapAssumption DEF IInv, TypeOK
  <2> QED BY <1>1, <2>1, <2>2, <2>3, <2>4, <2>5 DEF IInv, LocksBucket
<1> QED BY <1>2, <1>3, <1>4 DEF IInv

LEMMA UnlockIInv == ASSUME IInv, NEW t \in Threads, Unlock(t) PROVE IInv'
<1>1. Bucket(t) \in Buckets
  BY BucketType DEF IInv, HasRequest, Unlock
<1>2. TypeOK'
  BY <1>1 DEF Unlock, Return, Goto, Answer, heap, IInv, TypeOK, ControlPoints, Pointers
<1>3. HasRequest' /\ HoldsNode'
  BY DEF Unlock, Return, Goto, IInv, TypeOK, HasRequest, HoldsNode
<1>4. LocksBucket'
  <2>1. \A u \in Threads \ {t} : Bucket(u)' = Bucket(u) /\ pc'[u] = pc[u]
    BY DEF Unlock, Return, Goto, Bucket, IInv, TypeOK
  <2>2. pc[t] \in Inside /\ pc'[t] \notin Inside
    BY DEF Unlock, Return, Goto, IInv, TypeOK, Inside, ControlPoints
  <2>3. lock' = [lock EXCEPT ![Bucket(t)] = Null] /\ lock[Bucket(t)] = t
    BY <1>1, <2>2 DEF Unlock, IInv, LocksBucket
  <2>4. lock \in [Buckets -> Threads \cup {Null}] /\ Null \notin Threads
    BY HashMapAssumption DEF IInv, TypeOK
  <2> QED BY <1>1, <2>1, <2>2, <2>3, <2>4 DEF IInv, LocksBucket
<1> QED BY <1>2, <1>3, <1>4 DEF IInv

\* The steps between Lock and Unlock stay inside and do not touch a mutex.
WorkInside(t) ==
    \/ Step(t) \/ Replace(t) \/ ReadValue(t) \/ Unlink(t) \/ Free(t)
    \/ Missing(t) \/ Allocate(t) \/ Publish(t)

LEMMA WorkLocks == ASSUME IInv, NEW t \in Threads, WorkInside(t) PROVE LocksBucket'
<1>1. CASE Step(t)
  BY <1>1 DEF Step, IInv, LocksBucket, Bucket
<1>2. CASE Replace(t) \/ ReadValue(t) \/ Missing(t)
  BY <1>2, SameSide DEF Replace, ReadValue, Missing, Found, heap, Inside, ControlPoints
<1>3. CASE Unlink(t)
  BY <1>3, SameSide DEF Unlink, Found, Inside, ControlPoints
<1>4. CASE Free(t) \/ Allocate(t) \/ Publish(t)
  BY <1>4, SameSide DEF Free, Allocate, Publish, Inside, ControlPoints
<1> QED BY <1>1, <1>2, <1>3, <1>4 DEF WorkInside

LEMMA WorkType == ASSUME IInv, NEW t \in Threads, WorkInside(t)
                  PROVE  TypeOK' /\ HasRequest' /\ HoldsNode'
<1> USE DEF IInv, TypeOK
<1>0. request[t] \in Requests /\ Bucket(t) \in Buckets
  <2>1. pc[t] # "idle"
    BY DEF WorkInside, Step, Replace, ReadValue, Unlink, Free, Missing, Allocate, Publish, Found
  <2> QED BY <2>1, BucketType DEF HasRequest
<1>1. CASE Step(t)
  BY <1>1 DEF Step, heap, Pointers, HasRequest, HoldsNode
<1>2. CASE Replace(t)
  BY <1>0, <1>2 DEF Replace, Found, Goto, Answer, Pointers, ControlPoints, Requests, HasRequest, HoldsNode
<1>3. CASE ReadValue(t)
  BY <1>3 DEF ReadValue, Found, Goto, Answer, heap, Pointers, ControlPoints, HasRequest, HoldsNode
<1>4. CASE Unlink(t)
  BY <1>0, <1>4 DEF Unlink, Found, Goto, Answer, Pointers, ControlPoints, HasRequest, HoldsNode
<1>5. CASE Free(t)
  BY <1>5 DEF Free, Dispose, Wipe, Goto, Pointers, ControlPoints, HasRequest, HoldsNode
<1>6. CASE Missing(t)
  BY <1>6 DEF Missing, Goto, Answer, heap, Pointers, ControlPoints, HasRequest, HoldsNode
<1>7. CASE Allocate(t)
  BY <1>0, <1>7 DEF Allocate, Goto, Pointers, ControlPoints, Requests, HasRequest, HoldsNode
<1>8. CASE Publish(t)
  BY <1>0, <1>8 DEF Publish, Goto, Answer, Pointers, ControlPoints, HasRequest, HoldsNode
<1> QED BY <1>1, <1>2, <1>3, <1>4, <1>5, <1>6, <1>7, <1>8 DEF WorkInside

LEMMA NextIInv == IInv /\ [Next]_vars => IInv'
<1> SUFFICES ASSUME IInv, [Next]_vars PROVE IInv'
  OBVIOUS
<1>1. ASSUME NEW t \in Threads, Call(t) \/ Operation(t) PROVE IInv'
  BY <1>1, CallIInv, LockIInv, UnlockIInv, WorkLocks, WorkType DEF Operation, WorkInside, IInv
<1>2. CASE MapDestroy
  <2>1. TypeOK'
    BY <1>2 DEF MapDestroy, Dispose, Wipe, IInv, TypeOK, Pointers
  <2>2. HasRequest' /\ HoldsNode' /\ LocksBucket'
    BY <1>2 DEF MapDestroy, IInv, HasRequest, HoldsNode, LocksBucket, Bucket
  <2> QED BY <2>1, <2>2 DEF IInv
<1>3. CASE UNCHANGED vars
  BY <1>3 DEF vars, heap, IInv, TypeOK, HasRequest, HoldsNode, LocksBucket, Bucket
<1> QED BY <1>1, <1>2, <1>3 DEF Next, Ended

\* The fields of buckets and nodes keep their types, whatever the operations
\* and their interleaving: no pointer leads anywhere but to a node or nowhere.
THEOREM TypeCorrect == Spec => []TypeOK
<1>1. IInv => TypeOK
  BY DEF IInv
<1> QED BY InitIInv, NextIInv, <1>1, PTL DEF Spec

\* Every bucket is used by one thread at a time, the holder of its mutex, and
\* no path of map_insert, map_get or map_remove returns with the mutex held.
THEOREM BucketsLocked == Spec => []LocksBucket
<1>1. IInv => LocksBucket
  BY DEF IInv
<1> QED BY InitIInv, NextIInv, <1>1, PTL DEF Spec

-----------------------------------------------------------------------------
\* The lists.  ListFrom is about the variable next; what follows is about any
\* pointers nx, so that it can be used for the lists before and after a step.
Chain(nx, n) ==
    LET on == {S \in SUBSET Nodes :
                  /\ n # Null => n \in S
                  /\ \A m \in S : nx[m] # Null => nx[m] \in S}
    IN  {m \in Nodes : \A S \in on : m \in S}

PointerFields == [Nodes -> Pointers]

\* The list of bucket b that begins at h: it ends, its nodes belong to b, no key
\* is on it twice and no node has two predecessors.
GoodList(nx, k, h, b) ==
    /\ \A n \in Chain(nx, h) : k[n] \in Keys /\ HashOf[k[n]] = b /\ n \notin Chain(nx, nx[n])
    /\ \A n, m \in Chain(nx, h) : k[n] = k[m] => n = m
    /\ \A n, m \in Chain(nx, h) : nx[n] = nx[m] /\ nx[n] # Null => n = m

\* The nodes that a thread has to itself: the one it is about to publish or to free.
Mine(t) ==
    {fresh[u] : u \in {v \in {t} : pc[v] = "publish"}}
        \cup {cur[u] : u \in {v \in {t} : pc[v] = "free"}}

ListInv == \A b \in Buckets : GoodList(next, key, head[b], b)

OwnInv ==
    /\ \A t \in Threads, b \in Buckets : Mine(t) \cap Reachable(b) = {}
    /\ \A t, u \in Threads : t # u => Mine(t) \cap Mine(u) = {}

LiveInv ==
    \A n \in Nodes : n \in live <=> \/ \E b \in Buckets : n \in Reachable(b)
                                   \/ \E t \in Threads : n \in Mine(t)

\* Where a thread is in the list of its bucket, and what it has seen of it.
Absent(t, S) == \A n \in S : key[n] # request[t].key
Walking(t) ==
    /\ cur[t] # Null => cur[t] \in Reachable(Bucket(t))
    /\ IF prev[t] = Null THEN cur[t] = head[Bucket(t)]
       ELSE prev[t] \in Reachable(Bucket(t)) /\ next[prev[t]] = cur[t]
    /\ Absent(t, Reachable(Bucket(t)) \ ListFrom(cur[t]))
Publishing(t) ==
    /\ request[t].op = "insert"
    /\ key[fresh[t]] = request[t].key /\ value[fresh[t]] = request[t].value
    /\ next[fresh[t]] = head[Bucket(t)]
    /\ Absent(t, Reachable(Bucket(t)))
Freeing(t) == prev[t] # Null => prev[t] \in Reachable(Bucket(t))
WalkInv ==
    \A t \in Threads : /\ pc[t] = "walk" => Walking(t)
                       /\ pc[t] = "publish" => Publishing(t)
                       /\ pc[t] = "free" => Freeing(t)

HeapInv == ListInv /\ OwnInv /\ LiveInv /\ WalkInv

-----------------------------------------------------------------------------
\* Facts about lists.
LEMMA ChainBasics ==
    ASSUME NEW nx \in PointerFields, NEW n \in Pointers
    PROVE  /\ Chain(nx, n) \subseteq Nodes
           /\ n # Null => n \in Chain(nx, n)
           /\ \A m \in Chain(nx, n) : nx[m] # Null => nx[m] \in Chain(nx, n)
<1> DEFINE Closed(S) == /\ n # Null => n \in S
                        /\ \A m \in S : nx[m] # Null => nx[m] \in S
<1>1. Chain(nx, n) = {m \in Nodes : \A S \in SUBSET Nodes : Closed(S) => m \in S}
  BY DEF Chain
<1>2. n # Null => n \in Nodes
  BY DEF Pointers
<1>3. \A m \in Nodes : nx[m] # Null => nx[m] \in Nodes
  BY DEF PointerFields, Pointers
<1> QED BY <1>1, <1>2, <1>3

\* The least set with n that next does not lead out of.
LEMMA ChainLeast ==
    ASSUME NEW nx \in PointerFields, NEW n \in Pointers, NEW S \in SUBSET Nodes,
           n # Null => n \in S,
           \A m \in S : nx[m] # Null => nx[m] \in S
    PROVE  Chain(nx, n) \subseteq S
  BY DEF Chain

LEMMA ChainNull ==
    ASSUME NEW nx \in PointerFields PROVE Chain(nx, Null) = {}
<1>1. Null \in Pointers /\ {} \in SUBSET Nodes
  BY DEF Pointers
<1> QED BY <1>1, ChainLeast

LEMMA ChainFrom ==
    ASSUME NEW nx \in PointerFields, NEW n \in Pointers, NEW m \in Chain(nx, n)
    PROVE  Chain(nx, m) \subseteq Chain(nx, n)
<1>1. Chain(nx, n) \in SUBSET Nodes /\ m \in Pointers
  BY ChainBasics DEF Pointers
<1> QED BY <1>1, ChainBasics, ChainLeast

LEMMA ChainUnfold ==
    ASSUME NEW nx \in PointerFields, NEW n \in Nodes
    PROVE  Chain(nx, n) = {n} \cup Chain(nx, nx[n])
<1> DEFINE S == {n} \cup Chain(nx, nx[n])
<1>1. n \in Pointers /\ nx[n] \in Pointers /\ n # Null
  BY HashMapAssumption DEF Pointers, PointerFields
<1>2. Chain(nx, n) \subseteq S
  <2>1. S \in SUBSET Nodes /\ \A m \in S : nx[m] # Null => nx[m] \in S
    BY <1>1, ChainBasics
  <2> HIDE DEF S
  <2>2. n \in S
    BY DEF S
  <2> QED BY <1>1, <2>1, <2>2, ChainLeast
<1>3. n \in Chain(nx, n) /\ (nx[n] # Null => nx[n] \in Chain(nx, n))
  BY <1>1, ChainBasics
<1>4. Chain(nx, nx[n]) \subseteq Chain(nx, n)
  <2>1. CASE nx[n] = Null
    BY <2>1, ChainNull
  <2>2. CASE nx[n] # Null
    BY <1>1, <1>3, <2>2, ChainFrom
  <2> QED BY <2>1, <2>2
<1> QED BY <1>2, <1>3, <1>4

\* What is changed elsewhere does not change a list.
LEMMA ChainSame ==
    ASSUME NEW nx \in PointerFields, NEW nx2 \in PointerFields, NEW n \in Pointers,
           \A m \in Chain(nx, n) : nx2[m] = nx[m]
    PROVE  Chain(nx2, n) = Chain(nx, n)
<1> DEFINE S == Chain(nx, n)
           T == Chain(nx, n) \cap Chain(nx2, n)
<1>1. Chain(nx2, n) \subseteq S
  <2>1. S \in SUBSET Nodes /\ (n # Null => n \in S) /\ \A m \in S : nx2[m] # Null => nx2[m] \in S
    BY ChainBasics
  <2> HIDE DEF S
  <2> QED BY <2>1, ChainLeast
<1>2. Chain(nx, n) \subseteq T
  <2>1. T \in SUBSET Nodes /\ (n # Null => n \in T) /\ \A m \in T : nx[m] # Null => nx[m] \in T
    BY ChainBasics
  <2> HIDE DEF T
  <2> QED BY <2>1, ChainLeast
<1> QED BY <1>1, <1>2

LEMMA GoodListSame ==
    ASSUME NEW nx \in PointerFields, NEW nx2 \in PointerFields, NEW k, NEW k2,
           NEW h \in Pointers, NEW b, GoodList(nx, k, h, b),
           \A m \in Chain(nx, h) : nx2[m] = nx[m] /\ k2[m] = k[m]
    PROVE  GoodList(nx2, k2, h, b) /\ Chain(nx2, h) = Chain(nx, h)
<1>1. Chain(nx2, h) = Chain(nx, h)
  BY ChainSame
<1>2. ASSUME NEW n \in Chain(nx, h) PROVE Chain(nx2, nx2[n]) = Chain(nx, nx[n])
  <2>1. nx[n] \in Pointers /\ nx2[n] = nx[n] /\ n \in Nodes
    BY ChainBasics DEF PointerFields
  <2>2. Chain(nx, nx[n]) \subseteq Chain(nx, h)
    BY <2>1, ChainBasics, ChainFrom, ChainNull
  <2> QED BY <2>1, <2>2, ChainSame
<1> QED BY <1>1, <1>2 DEF GoodList

LEMMA GoodListEmpty ==
    ASSUME NEW nx \in PointerFields, NEW k, NEW b PROVE GoodList(nx, k, Null, b)
  BY ChainNull DEF GoodList

\* A node in front of a list.
LEMMA ListPush ==
    ASSUME NEW nx \in PointerFields, NEW k, NEW h \in Pointers, NEW b, GoodList(nx, k, h, b),
           NEW n \in Nodes, n \notin Chain(nx, h), nx[n] = h,
           k[n] \in Keys, HashOf[k[n]] = b, \A m \in Chain(nx, h) : k[m] # k[n]
    PROVE  GoodList(nx, k, n, b) /\ Chain(nx, n) = Chain(nx, h) \cup {n}
<1>1. Chain(nx, n) = Chain(nx, h) \cup {n}
  BY ChainUnfold
<1>2. \A m \in Chain(nx, h) : nx[m] = h /\ h # Null => FALSE
  <2> SUFFICES ASSUME NEW m \in Chain(nx, h), nx[m] = h, h # Null PROVE FALSE
    OBVIOUS
  <2>1. m \notin Chain(nx, nx[m])
    BY DEF GoodList
  <2> QED BY <2>1
<1> QED BY <1>1, <1>2 DEF GoodList

\* A list without its first node.
LEMMA ListPop ==
    ASSUME NEW nx \in PointerFields, NEW k, NEW h \in Nodes, NEW b, GoodList(nx, k, h, b)
    PROVE  GoodList(nx, k, nx[h], b) /\ Chain(nx, nx[h]) = Chain(nx, h) \ {h}
<1>1. h \in Pointers /\ h # Null
  BY HashMapAssumption DEF Pointers
<1>2. h \notin Chain(nx, nx[h])
  BY <1>1, ChainBasics DEF GoodList
<1>3. Chain(nx, nx[h]) = Chain(nx, h) \ {h}
  BY <1>2, ChainUnfold
<1> QED BY <1>3 DEF GoodList

\* A list without the node c behind p.
LEMMA ListCut ==
    ASSUME NEW nx \in PointerFields, NEW k, NEW h \in Pointers, NEW b, GoodList(nx, k, h, b),
           NEW p \in Chain(nx, h), NEW c \in Nodes, nx[p] = c,
           NEW nx2 \in PointerFields, nx2[p] = nx[c], \A m \in Nodes \ {p} : nx2[m] = nx[m]
    PROVE  GoodList(nx2, k, h, b) /\ Chain(nx2, h) = Chain(nx, h) \ {c}
<1> DEFINE L == Chain(nx, h)
           L2 == Chain(nx2, h)
<1>1. c # Null /\ c \in L /\ p \in Nodes /\ nx[c] \in Pointers /\ L \in SUBSET Nodes
  BY HashMapAssumption, ChainBasics DEF PointerFields
<1>3. \A m \in L : nx[m] = c => m = p
  BY <1>1 DEF GoodList
<1>4. nx[c] # c /\ nx[c] # p /\ p # c
  <2>1. c \notin Chain(nx, nx[c]) /\ p \notin Chain(nx, nx[p])
    BY <1>1 DEF GoodList
  <2>2. Chain(nx, nx[p]) = {c} \cup Chain(nx, nx[c])
    BY ChainUnfold
  <2>3. nx[c] # Null => nx[c] \in Chain(nx, nx[c])
    BY <1>1, ChainBasics
  <2> QED BY <1>1, <2>1, <2>2, <2>3, HashMapAssumption
<1>5. h # c
  <2>1. p \notin Chain(nx, nx[p])
    BY DEF GoodList
  <2> QED BY <2>1
<1>6. \* What could be reached from a node can still be reached, but for c, and no more.
      ASSUME NEW m \in Pointers, m # Null => m \in L, m # c
      PROVE  Chain(nx2, m) \subseteq Chain(nx, m) \ {c}
  <2> DEFINE S == Chain(nx, m) \ {c}
  <2>1. Chain(nx, m) \subseteq L
    BY <1>6, ChainFrom, ChainNull
  <2>2. S \in SUBSET Nodes /\ (m # Null => m \in S)
    BY <1>6, ChainBasics
  <2>3. ASSUME NEW x \in S, nx2[x] # Null PROVE nx2[x] \in S
    <3>1. CASE x = p
      <4>1. c \in Chain(nx, m)
        BY <1>1, <2>3, <3>1, ChainBasics
      <4>2. nx[c] \in Chain(nx, m)
        BY <2>3, <3>1, <4>1, ChainBasics
      <4> QED BY <1>4, <3>1, <4>2
    <3>2. CASE x # p
      <4>1. nx2[x] = nx[x] /\ x \in L
        BY <2>1, <2>2, <2>3, <3>2
      <4>2. nx[x] \in Chain(nx, m) /\ nx[x] # c
        BY <1>3, <2>3, <3>2, <4>1, ChainBasics
      <4> QED BY <4>1, <4>2
    <3> QED BY <3>1, <3>2
  <2> HIDE DEF S
  <2>4. Chain(nx2, m) \subseteq S
    BY <2>2, <2>3, ChainLeast
  <2> QED BY <2>4 DEF S
<1>7. L2 \subseteq L \ {c}
  <2>1. h # Null => h \in L
    BY ChainBasics
  <2> QED BY <1>5, <1>6, <2>1
<1>8. L \ {c} \subseteq L2
  <2>1. L2 \in SUBSET Nodes /\ (h # Null => h \in L2)
        /\ \A m \in L2 : nx2[m] # Null => nx2[m] \in L2
    BY ChainBasics
  <2>2. p \in L2
    <3> SUFFICES ASSUME p \notin L2 PROVE FALSE
      OBVIOUS
    <3>1. \A m \in L2 : nx2[m] = nx[m]
      BY <2>1
    <3>2. L \subseteq L2
      BY <2>1, <3>1, ChainLeast
    <3> QED BY <3>2
  <2> DEFINE T == L2 \cup {c}
  <2>3. T \in SUBSET Nodes /\ (h # Null => h \in T)
    BY <2>1
  <2>4. ASSUME NEW m \in T, nx[m] # Null PROVE nx[m] \in T
    <3>1. CASE m = c
      BY <2>1, <2>2, <2>4, <3>1
    <3>2. CASE m = p
      BY <3>2
    <3>3. CASE m # c /\ m # p
      BY <2>1, <2>4, <3>3
    <3> QED BY <3>1, <3>2, <3>3
  <2> HIDE DEF T
  <2>5. L \subseteq T
    BY <2>3, <2>4, ChainLeast
  <2> QED BY <2>5 DEF T
<1>9. ASSUME NEW n \in L2 PROVE n \notin Chain(nx2, nx2[n])
  <2>1. n \in L /\ n # c /\ n \notin Chain(nx, nx[n]) /\ n \in Nodes
    BY <1>1, <1>7 DEF GoodList
  <2>2. CASE n = p
    <3>1. Chain(nx, nx[c]) \subseteq Chain(nx, nx[p])
      BY ChainUnfold
    <3>2. nx[c] # Null => nx[c] \in L
      BY <1>1, ChainBasics
    <3>3. Chain(nx2, nx[c]) \subseteq Chain(nx, nx[c])
      BY <1>1, <1>4, <1>6, <3>2
    <3> QED BY <2>1, <2>2, <3>1, <3>3
  <2>3. CASE n # p
    <3>1. nx[n] \in Pointers /\ nx[n] # c /\ (nx[n] # Null => nx[n] \in L)
      BY <1>3, <2>1, <2>3, ChainBasics DEF PointerFields
    <3>2. Chain(nx2, nx[n]) \subseteq Chain(nx, nx[n])
      BY <1>6, <3>1
    <3> QED BY <2>1, <2>3, <3>2
  <2> QED BY <2>2, <2>3
<1>10. ASSUME NEW n \in L2, NEW m \in L2, nx2[n] = nx2[m], nx2[n] # Null PROVE n = m
  <2>1. n \in L /\ m \in L /\ n # c /\ m # c
    BY <1>7
  <2>2. nx2[n] = (IF n = p THEN nx[c] ELSE nx[n]) /\ nx2[m] = (IF m = p THEN nx[c] ELSE nx[m])
    BY <1>1, <2>1
  <2>3. \A x, y \in L : nx[x] = nx[y] /\ nx[x] # Null => x = y
    BY DEF GoodList
  <2> QED BY <1>1, <1>10, <2>1, <2>2, <2>3
<1>11. GoodList(nx2, k, h, b)
  BY <1>7, <1>9, <1>10 DEF GoodList
<1> QED BY <1>7, <1>8, <1>11

-----------------------------------------------------------------------------
\* The lists of the heap, before and after a step.
LEMMA ListsAreChains ==
    /\ \A n : ListFrom(n) = Chain(next, n) /\ ListFrom(n)' = Chain(next', n)
    /\ \A b : Reachable(b) = Chain(next, head[b]) /\ Reachable(b)' = Chain(next', head'[b])
  BY DEF ListFrom, Reachable, Chain

LEMMA MineIs ==
    ASSUME NEW t
    PROVE  /\ Mine(t) = IF pc[t] = "publish" THEN {fresh[t]} ELSE IF pc[t] = "free" THEN {cur[t]} ELSE {}
           /\ Mine(t)' = IF pc'[t] = "publish" THEN {fresh'[t]}
                         ELSE IF pc'[t] = "free" THEN {cur'[t]} ELSE {}
  BY DEF Mine

LEMMA ReachableInLive ==
    ASSUME IInv, HeapInv, NEW b \in Buckets
    PROVE  /\ Reachable(b) \subseteq live /\ live \subseteq Nodes
           /\ \A t \in Threads : Mine(t) \subseteq live
<1>1. Reachable(b) \subseteq Nodes /\ \A t \in Threads : Mine(t) \subseteq Nodes
  BY ChainBasics, ListsAreChains, MineIs DEF IInv, TypeOK, HoldsNode, PointerFields
<1> QED BY <1>1 DEF IInv, TypeOK, HeapInv, LiveInv

\* A bucket whose list a step does not touch.
LEMMA UntouchedBucket ==
    ASSUME IInv, HeapInv, IInv', NEW b \in Buckets, head'[b] = head[b],
           \A n \in Reachable(b) : next'[n] = next[n] /\ key'[n] = key[n]
    PROVE  GoodList(next', key', head'[b], b) /\ Reachable(b)' = Reachable(b)
<1>1. next \in PointerFields /\ next' \in PointerFields /\ head[b] \in Pointers
  BY DEF IInv, TypeOK, PointerFields
<1>2. GoodList(next, key, head[b], b)
  BY DEF HeapInv, ListInv
<1> QED BY <1>1, <1>2, GoodListSame, ListsAreChains

\* What a thread knows stays true as long as nobody else touches the list of its bucket
\* and its own node.
LEMMA UntouchedThread ==
    ASSUME IInv, HeapInv, IInv', NEW u \in Threads,
           /\ pc'[u] = pc[u] /\ request'[u] = request[u]
           /\ cur'[u] = cur[u] /\ prev'[u] = prev[u] /\ fresh'[u] = fresh[u],
           pc[u] \in {"walk", "publish", "free"} =>
               /\ head'[Bucket(u)] = head[Bucket(u)]
               /\ \A n \in Reachable(Bucket(u)) : next'[n] = next[n] /\ key'[n] = key[n]
               /\ \A n \in Mine(u) : next'[n] = next[n] /\ key'[n] = key[n] /\ value'[n] = value[n]
    PROVE  /\ Mine(u)' = Mine(u)
           /\ pc'[u] = "walk" => Walking(u)'
           /\ pc'[u] = "publish" => Publishing(u)'
           /\ pc'[u] = "free" => Freeing(u)'
<1>1. Mine(u)' = Mine(u)
  BY MineIs
<1> SUFFICES ASSUME pc[u] \in {"walk", "publish", "free"}
             PROVE  /\ pc[u] = "walk" => Walking(u)'
                    /\ pc[u] = "publish" => Publishing(u)'
                    /\ pc[u] = "free" => Freeing(u)'
  BY <1>1
<1> DEFINE b == Bucket(u)
<1>2. b \in Buckets /\ Bucket(u)' = b
  <2>1. request[u] \in Requests
    BY DEF IInv, HasRequest
  <2> QED BY <2>1, BucketType DEF Bucket
<1>3. Reachable(b)' = Reachable(b)
  BY <1>2, UntouchedBucket
<1>4. ASSUME NEW S \in SUBSET Reachable(b), Absent(u, S) PROVE Absent(u, S)'
  BY <1>4 DEF Absent
<1>5. ASSUME pc[u] = "walk" PROVE Walking(u)'
  <2>1. Walking(u)
    BY <1>5 DEF HeapInv, WalkInv
  <2>2. ListFrom(cur[u])' = ListFrom(cur[u])
    <3>1. next \in PointerFields /\ next' \in PointerFields /\ cur[u] \in Pointers /\ head[b] \in Pointers
      BY <1>2 DEF IInv, TypeOK, PointerFields
    <3>2. Chain(next, cur[u]) \subseteq Chain(next, head[b])
      BY <2>1, <3>1, ChainFrom, ChainNull, ListsAreChains DEF Walking
    <3>3. Chain(next', cur[u]) = Chain(next, cur[u])
      BY <3>1, <3>2, ChainSame, ListsAreChains
    <3>4. ListFrom(cur[u])' = Chain(next', cur'[u])
      BY DEF ListFrom, Chain
    <3> QED BY <3>3, <3>4, ListsAreChains
  <2>3. Absent(u, Reachable(b) \ ListFrom(cur[u]))
    BY <2>1 DEF Walking
  <2>4. Absent(u, Reachable(b) \ ListFrom(cur[u]))'
    <3> DEFINE S == Reachable(b) \ ListFrom(cur[u])
    <3>1. \A n \in S : key'[n] # request'[u].key
      BY <2>3 DEF Absent
    <3>2. (Reachable(Bucket(u)) \ ListFrom(cur[u]))' = S
      BY <1>2, <1>3, <2>2
    <3> QED BY <3>1, <3>2 DEF Absent
  <2>5. /\ cur'[u] # Null => cur'[u] \in Reachable(Bucket(u))'
        /\ IF prev'[u] = Null THEN cur'[u] = head'[Bucket(u)']
           ELSE prev'[u] \in Reachable(Bucket(u))' /\ next'[prev'[u]] = cur'[u]
    BY <1>2, <1>3, <2>1 DEF Walking
  <2> QED BY <2>4, <2>5 DEF Walking
<1>6. ASSUME pc[u] = "publish" PROVE Publishing(u)'
  <2>1. Publishing(u) /\ fresh[u] \in Mine(u)
    BY <1>6, MineIs DEF HeapInv, WalkInv
  <2>2. \A n \in Reachable(b) : key'[n] # request'[u].key
    BY <2>1 DEF Publishing, Absent
  <2>3. Absent(u, Reachable(Bucket(u)))'
    BY <1>2, <1>3, <2>2 DEF Absent
  <2> QED BY <1>2, <2>1, <2>3 DEF Publishing
<1>7. ASSUME pc[u] = "free" PROVE Freeing(u)'
  BY <1>2, <1>3, <1>7 DEF HeapInv, WalkInv, Freeing
<1> QED BY <1>5, <1>6, <1>7

\* Steps that change no list.
Quiet(t) ==
    \/ Call(t) \/ Lock(t) \/ Step(t) \/ Replace(t) \/ ReadValue(t) \/ Missing(t) \/ Unlock(t)

\* The locals of the other threads.
OthersStay(t) ==
    \A u \in Threads \ {t} :
        /\ pc'[u] = pc[u] /\ request'[u] = request[u]
        /\ cur'[u] = cur[u] /\ prev'[u] = prev[u] /\ fresh'[u] = fresh[u]

LEMMA LocalsOfOthers ==
    ASSUME IInv, NEW t \in Threads, Call(t) \/ Operation(t) PROVE OthersStay(t)
<1> USE DEF IInv, TypeOK, OthersStay, Goto
<1>1. CASE Call(t)
  BY <1>1 DEF Call
<1>2. CASE Lock(t) \/ Step(t) \/ Missing(t) \/ Free(t) \/ Publish(t)
  BY <1>2 DEF Lock, Step, Missing, Free, Publish
<1>3. CASE Replace(t) \/ ReadValue(t) \/ Unlink(t)
  BY <1>3 DEF Replace, ReadValue, Unlink, Found
<1>4. CASE Allocate(t)
  BY <1>4 DEF Allocate
<1>5. CASE Unlock(t)
  BY <1>5 DEF Unlock, Return
<1> QED BY <1>1, <1>2, <1>3, <1>4, <1>5 DEF Operation

\* Two threads inside are in different buckets.
LEMMA OwnBucket ==
    ASSUME IInv, NEW t \in Threads, NEW u \in Threads \ {t},
           pc[t] \in Inside, pc[u] \in Inside
    PROVE  Bucket(t) # Bucket(u)
<1>1. Bucket(t) \in Buckets /\ Bucket(u) \in Buckets
  BY BucketType DEF IInv, HasRequest, Inside
<1> QED BY <1>1 DEF IInv, LocksBucket

\* The node found is on the list.
LEMMA FoundNode ==
    ASSUME IInv, HeapInv, NEW t \in Threads, NEW op, Found(t, op)
    PROVE  /\ Bucket(t) \in Buckets
           /\ cur[t] \in Reachable(Bucket(t)) /\ cur[t] \in live /\ cur[t] \in Nodes
           /\ key[cur[t]] = request[t].key
           /\ Walking(t)
           /\ \A u \in Threads : cur[t] \notin Mine(u)
<1>1. Bucket(t) \in Buckets
  BY BucketType DEF Found, IInv, HasRequest
<1>2. Walking(t)
  BY DEF Found, HeapInv, WalkInv
<1>3. cur[t] \in Reachable(Bucket(t)) /\ key[cur[t]] = request[t].key
  BY <1>2 DEF Walking, Found
<1>4. \A u \in Threads : cur[t] \notin Mine(u)
  BY <1>1, <1>3 DEF HeapInv, OwnInv
<1> QED BY <1>1, <1>2, <1>3, <1>4, ReachableInLive

LEMMA QuietHeap ==
    ASSUME IInv, HeapInv, IInv', NEW t \in Threads, Quiet(t) PROVE HeapInv'
<1>1. UNCHANGED <<head, key, next, live>>
  BY DEF Quiet, Call, Lock, Step, Replace, ReadValue, Missing, Unlock, Found, heap
<1>2. OthersStay(t)
  BY LocalsOfOthers DEF Quiet, Operation
<1>3. Mine(t) = {} /\ Mine(t)' = {}
  <2>1. pc[t] \notin {"publish", "free"} /\ pc'[t] \notin {"publish", "free"}
    BY DEF Quiet, Call, Lock, Step, Replace, ReadValue, Missing, Unlock, Found, Return, Goto, IInv, TypeOK
  <2> QED BY <2>1, MineIs
<1>4. ASSUME NEW u \in Threads \ {t}, NEW n \in Mine(u) PROVE value'[n] = value[n]
  <2>1. CASE Replace(t)
    <3>1. n # cur[t] /\ n \in Nodes
      BY <1>4, <2>1, FoundNode, MineIs DEF Replace, IInv, HoldsNode, TypeOK
    <3> QED BY <2>1, <3>1 DEF Replace, IInv, TypeOK
  <2>2. CASE ~Replace(t)
    BY <2>2 DEF Quiet, Call, Lock, Step, ReadValue, Missing, Unlock, Found, heap
  <2> QED BY <2>1, <2>2
<1>5. ASSUME NEW u \in Threads \ {t}
      PROVE  /\ Mine(u)' = Mine(u)
             /\ pc'[u] = "walk" => Walking(u)'
             /\ pc'[u] = "publish" => Publishing(u)'
             /\ pc'[u] = "free" => Freeing(u)'
  BY <1>1, <1>2, <1>4, UntouchedThread DEF OthersStay
<1>6. ASSUME NEW b \in Buckets PROVE GoodList(next', key', head'[b], b) /\ Reachable(b)' = Reachable(b)
  BY <1>1, UntouchedBucket
<1>7. ListInv' /\ OwnInv' /\ LiveInv'
  <2>1. \A u \in Threads : Mine(u)' = Mine(u)
    BY <1>3, <1>5
  <2>2. ListInv'
    BY <1>6 DEF ListInv
  <2>3. OwnInv'
    BY <2>1, <1>6 DEF HeapInv, OwnInv
  <2>4. LiveInv'
    BY <2>1, <1>1, <1>6 DEF HeapInv, LiveInv
  <2> QED BY <2>2, <2>3, <2>4
<1>8. ASSUME pc'[t] = "walk" PROVE Walking(t)'
  <2>1. CASE Lock(t)
    <3>1. /\ cur'[t] = head[Bucket(t)] /\ prev'[t] = Null
          /\ request'[t] = request[t] /\ Bucket(t) \in Buckets
      BY <2>1, BucketType DEF Lock, IInv, TypeOK, HasRequest
    <3>2. Bucket(t)' = Bucket(t)
      BY <3>1 DEF Bucket
    <3>3. ListFrom(cur[t])' = Reachable(Bucket(t))'
      BY <1>1, <3>1, <3>2 DEF Reachable, ListFrom
    <3>4. Absent(t, Reachable(Bucket(t)) \ ListFrom(cur[t]))'
      BY <3>3 DEF Absent
    <3>5. cur'[t] # Null => cur'[t] \in Reachable(Bucket(t))'
      <4>1. next' \in PointerFields /\ cur'[t] \in Pointers
        BY <1>1, <3>1 DEF IInv, TypeOK, PointerFields
      <4> QED BY <4>1, <1>1, <3>1, <3>2, ChainBasics, ListsAreChains
    <3> QED BY <1>1, <3>1, <3>2, <3>4, <3>5 DEF Walking
  <2>2. CASE Step(t)
    <3> DEFINE b == Bucket(t)
               c == cur[t]
    <3>1. /\ c \in Nodes /\ key[c] # request[t].key
          /\ prev'[t] = c /\ cur'[t] = next[c] /\ request'[t] = request[t]
          /\ b \in Buckets /\ Walking(t)
      BY <2>2, BucketType DEF Step, IInv, TypeOK, HasRequest, Pointers, HeapInv, WalkInv
    <3>2. Bucket(t)' = b /\ Reachable(b)' = Reachable(b) /\ c # Null
      BY <1>6, <2>2, <3>1 DEF Bucket, Step
    <3>3. next \in PointerFields /\ next[c] \in Pointers /\ head[b] \in Pointers
      BY <3>1 DEF IInv, TypeOK, PointerFields
    <3>4. c \in Reachable(b) /\ (next[c] # Null => next[c] \in Reachable(b))
      BY <3>1, <3>2, <3>3, ChainBasics, ListsAreChains DEF Walking
    <3>5. ListFrom(cur[t])' = ListFrom(next[c]) /\ ListFrom(c) = {c} \cup ListFrom(next[c])
      <4>1. ListFrom(cur[t])' = Chain(next', cur'[t])
        BY DEF ListFrom, Chain
      <4> QED BY <1>1, <3>1, <3>3, <4>1, ChainUnfold, ListsAreChains
    <3>6. \A n \in Reachable(b) \ ListFrom(next[c]) : key[n] # request[t].key
      BY <3>1, <3>5 DEF Walking, Absent
    <3>7. Absent(t, Reachable(Bucket(t)) \ ListFrom(cur[t]))'
      BY <1>1, <3>1, <3>2, <3>5, <3>6 DEF Absent
    <3> QED BY <1>1, <3>1, <3>2, <3>4, <3>7 DEF Walking
  <2>3. CASE ~(Lock(t) \/ Step(t))
    BY <1>8, <2>3 DEF Quiet, Call, Replace, ReadValue, Missing, Unlock, Found, Return, Goto, IInv, TypeOK
  <2> QED BY <2>1, <2>2, <2>3
<1>9. WalkInv'
  BY <1>3, <1>5, <1>8, MineIs DEF WalkInv
<1> QED BY <1>7, <1>9 DEF HeapInv

\* The other buckets and the other threads, when a step of t changes no more than the
\* list of its bucket and a node that is on no list and of no other thread.
LEMMA OthersUntouched ==
    ASSUME IInv, HeapInv, IInv', NEW t \in Threads, OthersStay(t),
           pc[t] \in Inside, NEW n \in Pointers,
           \A b \in Buckets : n \notin Reachable(b) \/ b = Bucket(t),
           \A u \in Threads \ {t} : n \notin Mine(u),
           \A b \in Buckets \ {Bucket(t)} : head'[b] = head[b],
           \A m \in Nodes \ {n} : key'[m] = key[m] /\ value'[m] = value[m],
           \A m \in Nodes \ {n} : next'[m] = next[m] \/ m \in Reachable(Bucket(t))
    PROVE  /\ \A b \in Buckets \ {Bucket(t)} :
                  GoodList(next', key', head'[b], b) /\ Reachable(b)' = Reachable(b)
           /\ \A u \in Threads \ {t} :
                  /\ Mine(u)' = Mine(u)
                  /\ pc'[u] = "walk" => Walking(u)'
                  /\ pc'[u] = "publish" => Publishing(u)'
                  /\ pc'[u] = "free" => Freeing(u)'
<1>0. Bucket(t) \in Buckets
  BY BucketType DEF IInv, HasRequest, Inside
<1>1. ASSUME NEW b \in Buckets \ {Bucket(t)}, NEW m \in Reachable(b)
      PROVE  next'[m] = next[m] /\ key'[m] = key[m]
  <2>1. m \in Nodes /\ m # n
    BY ReachableInLive
  <2>2. m \notin Reachable(Bucket(t))
    <3>1. GoodList(next, key, head[b], b) /\ GoodList(next, key, head[Bucket(t)], Bucket(t))
      BY <1>0 DEF HeapInv, ListInv
    <3> QED BY <3>1, <1>1, ListsAreChains DEF GoodList
  <2> QED BY <2>1, <2>2
<1>2. ASSUME NEW u \in Threads \ {t}, NEW m \in Mine(u)
      PROVE  next'[m] = next[m] /\ key'[m] = key[m] /\ value'[m] = value[m]
  <2>1. m \in Nodes /\ m # n
    BY ReachableInLive, <1>0
  <2>2. m \notin Reachable(Bucket(t))
    BY <1>0 DEF HeapInv, OwnInv
  <2> QED BY <2>1, <2>2
<1>3. ASSUME NEW b \in Buckets \ {Bucket(t)}
      PROVE  GoodList(next', key', head'[b], b) /\ Reachable(b)' = Reachable(b)
  BY <1>1, UntouchedBucket
<1>4. ASSUME NEW u \in Threads \ {t}
      PROVE  /\ Mine(u)' = Mine(u)
             /\ pc'[u] = "walk" => Walking(u)'
             /\ pc'[u] = "publish" => Publishing(u)'
             /\ pc'[u] = "free" => Freeing(u)'
  <2>1. pc[u] \in {"walk", "publish", "free"} => Bucket(u) \in Buckets \ {Bucket(t)}
    <3>1. {"walk", "publish", "free"} \subseteq Inside
      BY DEF Inside, ControlPoints
    <3> QED BY <3>1, OwnBucket, BucketType DEF IInv, HasRequest
  <2>2. /\ pc'[u] = pc[u] /\ request'[u] = request[u]
        /\ cur'[u] = cur[u] /\ prev'[u] = prev[u] /\ fresh'[u] = fresh[u]
    BY DEF OthersStay
  <2> QED BY <2>1, <2>2, <1>1, <1>2, UntouchedThread
<1> QED BY <1>3, <1>4

\* The whole invariant after a step of t, from what is said of its bucket a and of itself.
LEMMA HeapAfter ==
    ASSUME IInv, HeapInv, IInv', NEW t \in Threads, NEW a \in Buckets,
           \A b \in Buckets \ {a} :
               GoodList(next', key', head'[b], b) /\ Reachable(b)' = Reachable(b),
           \A u \in Threads \ {t} :
               /\ Mine(u)' = Mine(u)
               /\ pc'[u] = "walk" => Walking(u)'
               /\ pc'[u] = "publish" => Publishing(u)'
               /\ pc'[u] = "free" => Freeing(u)',
           GoodList(next', key', head'[a], a),
           Reachable(a)' \cap Mine(t)' = {},
           \A m \in Reachable(a)' \cup Mine(t)' :
               \/ m \in Reachable(a) \cup Mine(t)
               \/ m \in Nodes \ live,
           \A m \in Nodes : m \in live' <=>
               \/ m \in Reachable(a)' \cup Mine(t)'
               \/ m \in live \ (Reachable(a) \cup Mine(t)),
           /\ pc'[t] = "walk" => Walking(t)'
           /\ pc'[t] = "publish" => Publishing(t)'
           /\ pc'[t] = "free" => Freeing(t)'
    PROVE  HeapInv'
<1> DEFINE Old == Reachable(a) \cup Mine(t)
           New == Reachable(a)' \cup Mine(t)'
<1>1. ListInv'
  BY DEF ListInv
<1>2. \* What is not of t does not meet what is.
      /\ \A b \in Buckets \ {a} : Reachable(b) \cap Old = {} /\ Reachable(b) \subseteq live
      /\ \A u \in Threads \ {t} : Mine(u) \cap Old = {} /\ Mine(u) \subseteq live
  <2>1. ASSUME NEW b \in Buckets \ {a} PROVE Reachable(b) \cap Old = {} /\ Reachable(b) \subseteq live
    <3>1. Reachable(b) \cap Reachable(a) = {}
      <4>1. GoodList(next, key, head[b], b) /\ GoodList(next, key, head[a], a)
        BY DEF HeapInv, ListInv
      <4> QED BY <4>1, ListsAreChains DEF GoodList
    <3> QED BY <3>1, ReachableInLive DEF HeapInv, OwnInv
  <2>2. ASSUME NEW u \in Threads \ {t} PROVE Mine(u) \cap Old = {} /\ Mine(u) \subseteq live
    BY ReachableInLive DEF HeapInv, OwnInv
  <2> QED BY <2>1, <2>2
<1>3. /\ \A b \in Buckets \ {a} : Reachable(b) \cap New = {}
      /\ \A u \in Threads \ {t} : Mine(u) \cap New = {}
  BY <1>2
<1>4. OwnInv'
  <2>1. ASSUME NEW u \in Threads, NEW b \in Buckets PROVE Mine(u)' \cap Reachable(b)' = {}
    <3>1. CASE u = t /\ b = a
      BY <3>1
    <3>2. CASE u = t /\ b # a
      BY <3>2, <1>3
    <3>3. CASE u # t /\ b = a
      BY <3>3, <1>3
    <3>4. CASE u # t /\ b # a
      BY <3>4 DEF HeapInv, OwnInv
    <3> QED BY <3>1, <3>2, <3>3, <3>4
  <2>2. ASSUME NEW u \in Threads, NEW v \in Threads, u # v PROVE Mine(u)' \cap Mine(v)' = {}
    <3>1. CASE u = t
      BY <2>2, <3>1, <1>3
    <3>2. CASE v = t
      BY <2>2, <3>2, <1>3
    <3>3. CASE u # t /\ v # t
      BY <2>2, <3>3 DEF HeapInv, OwnInv
    <3> QED BY <3>1, <3>2, <3>3
  <2>3. /\ \A u \in Threads, b \in Buckets : Mine(u)' \cap Reachable(b)' = {}
        /\ \A u, v \in Threads : u # v => Mine(u)' \cap Mine(v)' = {}
    BY <2>1, <2>2
  <2> QED BY <2>3 DEF OwnInv
<1>5. LiveInv'
  <2> SUFFICES ASSUME NEW n \in Nodes
               PROVE  n \in live' <=> \/ \E b \in Buckets : n \in Reachable(b)'
                                      \/ \E u \in Threads : n \in Mine(u)'
    BY DEF LiveInv
  <2>1. n \in live <=> \/ \E b \in Buckets : n \in Reachable(b)
                       \/ \E u \in Threads : n \in Mine(u)
    BY DEF HeapInv, LiveInv
  <2>2. ASSUME n \in live \ Old
        PROVE  \/ \E b \in Buckets : n \in Reachable(b)'
               \/ \E u \in Threads : n \in Mine(u)'
    BY <2>1, <2>2
  <2>3. ASSUME NEW b \in Buckets \ {a}, n \in Reachable(b)' PROVE n \in live \ Old
    BY <2>3, <1>2
  <2>4. ASSUME NEW u \in Threads \ {t}, n \in Mine(u)' PROVE n \in live \ Old
    BY <2>4, <1>2
  <2>5. n \in live' <=> n \in New \/ n \in live \ Old
    OBVIOUS
  <2>6. CASE n \in New
    BY <2>5, <2>6
  <2>7. CASE n \notin New
    <3>1. \A b \in Buckets : n \in Reachable(b)' => n \in live \ Old
      BY <2>3, <2>7
    <3>2. \A u \in Threads : n \in Mine(u)' => n \in live \ Old
      BY <2>4, <2>7
    <3> HIDE DEF New, Old
    <3> QED BY <2>2, <2>5, <2>7, <3>1, <3>2
  <2> QED BY <2>6, <2>7
<1>6. WalkInv'
  BY DEF WalkInv
<1> QED BY <1>1, <1>4, <1>5, <1>6 DEF HeapInv

LEMMA NullIsNowhere ==
    ASSUME IInv, HeapInv
    PROVE  /\ Null \in Pointers /\ Null \notin Nodes
           /\ \A b \in Buckets : Null \notin Reachable(b)
           /\ \A u \in Threads : Null \notin Mine(u)
<1>1. Null \in Pointers /\ Null \notin Nodes
  BY HashMapAssumption DEF Pointers
<1>2. \A b \in Buckets : Null \notin Reachable(b)
  BY <1>1, ReachableInLive
<1>3. \A u \in Threads : Null \notin Mine(u)
  BY <1>1, MineIs DEF IInv, HoldsNode
<1> QED BY <1>1, <1>2, <1>3

LEMMA PointerTypes ==
    ASSUME IInv, IInv', NEW b \in Buckets
    PROVE  /\ next \in PointerFields /\ next' \in PointerFields
           /\ head[b] \in Pointers /\ head'[b] \in Pointers
  BY DEF IInv, TypeOK, PointerFields

\* map_remove takes the node it has found out of the list, and no other.
LEMMA UnlinkList ==
    ASSUME IInv, HeapInv, IInv', NEW t \in Threads, Unlink(t), NEW a, a = Bucket(t)
    PROVE  /\ GoodList(next', key', head'[a], a)
           /\ Reachable(a)' = Reachable(a) \ {cur[t]}
           /\ \A b \in Buckets \ {a} : head'[b] = head[b]
           /\ \A m \in Nodes : next'[m] = next[m] \/ m \in Reachable(a)
           /\ prev[t] # Null => prev[t] \in Reachable(a) \ {cur[t]}
<1> DEFINE c == cur[t]
<1>1. /\ a \in Buckets /\ c \in Reachable(a) /\ c \in Nodes /\ Walking(t)
      /\ c # Null /\ key' = key
  BY FoundNode, NullIsNowhere DEF Unlink
<1>2. GoodList(next, key, head[a], a)
  BY <1>1 DEF HeapInv, ListInv
<1>3. next \in PointerFields /\ next' \in PointerFields /\ head[a] \in Pointers
  BY <1>1, PointerTypes
<1>4. CASE prev[t] # Null
  <2> DEFINE p == prev[t]
  <2>1. /\ p \in Reachable(a) /\ next[p] = c /\ head' = head
        /\ next' = [next EXCEPT ![p] = next[c]]
    BY <1>1, <1>4 DEF Walking, Unlink
  <2>2. GoodList(next', key, head[a], a) /\ Chain(next', head[a]) = Chain(next, head[a]) \ {c}
    <3> HIDE DEF p, c
    <3>1. p \in Chain(next, head[a])
      BY <2>1, ListsAreChains
    <3>2. next'[p] = next[c] /\ \A m \in Nodes \ {p} : next'[m] = next[m]
      BY <1>1, <1>3, <2>1, ReachableInLive DEF PointerFields
    <3>3. \A nx2 \in PointerFields :
              nx2[p] = next[c] /\ (\A m \in Nodes \ {p} : nx2[m] = next[m])
                  => GoodList(nx2, key, head[a], a) /\ Chain(nx2, head[a]) = Chain(next, head[a]) \ {c}
      <4>1. next \in PointerFields /\ head[a] \in Pointers /\ p \in Chain(next, head[a]) /\ c \in Nodes
        BY <1>1, <1>3, <3>1
      <4> QED BY <1>2, <2>1, <4>1, ListCut
    <3> QED BY <1>3, <3>2, <3>3
  <2>3. p # c
    <3>1. p \notin Chain(next, next[p])
      BY <1>2, <2>1, ListsAreChains DEF GoodList
    <3>2. c \in Chain(next, c)
      BY <1>1, <1>3, ChainBasics DEF Pointers
    <3> QED BY <2>1, <3>1, <3>2
  <2>4. \A m \in Nodes : next'[m] = next[m] \/ m \in Reachable(a)
    BY <2>1, <1>3 DEF PointerFields
  <2>5. Reachable(a) = Chain(next, head[a]) /\ Reachable(a)' = Chain(next', head'[a])
    BY ListsAreChains
  <2> HIDE DEF c, p
  <2>6. Reachable(a)' = Reachable(a) \ {c}
    BY <2>1, <2>2, <2>5
  <2>7. GoodList(next', key', head'[a], a)
    BY <1>1, <2>1, <2>2
  <2> QED BY <2>1, <2>3, <2>4, <2>6, <2>7 DEF c, p
<1>5. CASE prev[t] = Null
  <2>1. c = head[a] /\ next' = next /\ head' = [head EXCEPT ![a] = next[c]]
    BY <1>1, <1>5 DEF Walking, Unlink
  <2>2. GoodList(next, key, next[c], a) /\ Chain(next, next[c]) = Chain(next, c) \ {c}
    BY <1>1, <1>2, <1>3, <2>1, ListPop
  <2>3. head'[a] = next[c] /\ \A b \in Buckets \ {a} : head'[b] = head[b]
    BY <1>1, <2>1 DEF IInv, TypeOK
  <2>5. Reachable(a) = Chain(next, head[a]) /\ Reachable(a)' = Chain(next', head'[a])
    BY ListsAreChains
  <2> HIDE DEF c
  <2>6. Reachable(a)' = Reachable(a) \ {c}
    BY <2>1, <2>2, <2>3, <2>5
  <2>7. GoodList(next', key', head'[a], a)
    BY <1>1, <2>1, <2>2, <2>3
  <2> QED BY <1>5, <2>1, <2>3, <2>6, <2>7 DEF c
<1> QED BY <1>4, <1>5

LEMMA UnlinkHeap ==
    ASSUME IInv, HeapInv, IInv', NEW t \in Threads, Unlink(t) PROVE HeapInv'
<1>1. PICK a \in Buckets : a = Bucket(t)
  BY FoundNode DEF Unlink
<1>2. PICK c \in Nodes : c = cur[t] /\ c \in Reachable(a) /\ c \in live
  BY <1>1, FoundNode DEF Unlink
<1>3. /\ GoodList(next', key', head'[a], a)
      /\ Reachable(a)' = Reachable(a) \ {c}
      /\ \A b \in Buckets \ {a} : head'[b] = head[b]
      /\ \A m \in Nodes : next'[m] = next[m] \/ m \in Reachable(a)
      /\ prev[t] # Null => prev[t] \in Reachable(a) \ {c}
  BY <1>1, <1>2, UnlinkList
<1>4. /\ OthersStay(t) /\ pc[t] = "walk" /\ pc'[t] = "free"
      /\ UNCHANGED <<key, value, live, request, cur, prev>>
  BY LocalsOfOthers DEF Operation, Unlink, Found, Goto, IInv, TypeOK
<1>5. Mine(t) = {} /\ Mine(t)' = {c}
  BY <1>2, <1>4, MineIs
<1>6. pc[t] \in Inside
  BY <1>4 DEF Inside, ControlPoints
<1>7. /\ \A b \in Buckets \ {a} : GoodList(next', key', head'[b], b) /\ Reachable(b)' = Reachable(b)
      /\ \A u \in Threads \ {t} :
             /\ Mine(u)' = Mine(u)
             /\ pc'[u] = "walk" => Walking(u)'
             /\ pc'[u] = "publish" => Publishing(u)'
             /\ pc'[u] = "free" => Freeing(u)'
  BY <1>1, <1>3, <1>4, <1>6, NullIsNowhere, OthersUntouched
<1>8. Freeing(t)'
  <2>1. Bucket(t)' = a
    BY <1>1, <1>4 DEF Bucket
  <2> QED BY <1>3, <1>4, <2>1 DEF Freeing
<1>9. \A m \in Nodes : m \in live' <=> \/ m \in Reachable(a)' \cup Mine(t)'
                                       \/ m \in live \ (Reachable(a) \cup Mine(t))
  BY <1>2, <1>3, <1>4, <1>5, ReachableInLive
<1>10. \A m \in Reachable(a)' \cup Mine(t)' : m \in Reachable(a) \cup Mine(t)
  BY <1>2, <1>3, <1>5
<1>11. Reachable(a)' \cap Mine(t)' = {}
  BY <1>3, <1>5
<1> QED BY <1>3, <1>4, <1>7, <1>8, <1>9, <1>10, <1>11, HeapAfter

LEMMA FreeHeap ==
    ASSUME IInv, HeapInv, IInv', NEW t \in Threads, Free(t) PROVE HeapInv'
<1>1. PICK a \in Buckets : a = Bucket(t)
  BY BucketType DEF Free, IInv, HasRequest
<1>2. PICK c \in Nodes : c = cur[t] /\ Mine(t) = {c}
  BY MineIs DEF Free, IInv, HoldsNode
<1>3. /\ \A b \in Buckets : c \notin Reachable(b)
      /\ \A u \in Threads \ {t} : c \notin Mine(u)
      /\ c \in live /\ c \in Pointers
  BY <1>1, <1>2, ReachableInLive DEF HeapInv, OwnInv, Pointers
<1>4. /\ OthersStay(t) /\ pc[t] = "free" /\ pc'[t] = "unlock" /\ head' = head /\ live' = live \ {c}
      /\ \A m \in Nodes \ {c} : next'[m] = next[m] /\ key'[m] = key[m] /\ value'[m] = value[m]
  BY <1>2, LocalsOfOthers DEF Operation, Free, Dispose, Wipe, Goto, IInv, TypeOK
<1>5. Mine(t)' = {}
  BY <1>4, MineIs
<1>6. pc[t] \in Inside
  BY <1>4 DEF Inside, ControlPoints
<1>7. /\ \A b \in Buckets \ {a} : GoodList(next', key', head'[b], b) /\ Reachable(b)' = Reachable(b)
      /\ \A u \in Threads \ {t} :
             /\ Mine(u)' = Mine(u)
             /\ pc'[u] = "walk" => Walking(u)'
             /\ pc'[u] = "publish" => Publishing(u)'
             /\ pc'[u] = "free" => Freeing(u)'
  BY <1>1, <1>3, <1>4, <1>6, OthersUntouched
<1>8. GoodList(next', key', head'[a], a) /\ Reachable(a)' = Reachable(a)
  <2>1. \A m \in Reachable(a) : m \in Nodes \ {c}
    BY <1>3, ReachableInLive
  <2> QED BY <1>4, <2>1, UntouchedBucket
<1>9. \A m \in Nodes : m \in live' <=> \/ m \in Reachable(a)' \cup Mine(t)'
                                       \/ m \in live \ (Reachable(a) \cup Mine(t))
  BY <1>2, <1>3, <1>4, <1>5, <1>8, ReachableInLive
<1>10. \A m \in Reachable(a)' \cup Mine(t)' : m \in Reachable(a) \cup Mine(t)
  BY <1>5, <1>8
<1>11. Reachable(a)' \cap Mine(t)' = {}
  BY <1>5
<1> QED BY <1>4, <1>7, <1>8, <1>9, <1>10, <1>11, HeapAfter

LEMMA AllocateHeap ==
    ASSUME IInv, HeapInv, IInv', NEW t \in Threads, Allocate(t) PROVE HeapInv'
<1>1. PICK a \in Buckets : a = Bucket(t)
  BY BucketType DEF Allocate, IInv, HasRequest
<1>2. PICK n \in Nodes \ live :
          /\ live' = live \cup {n}
          /\ fresh' = [fresh EXCEPT ![t] = n]
          /\ key' = [key EXCEPT ![n] = request[t].key]
          /\ value' = [value EXCEPT ![n] = request[t].value]
          /\ next' = [next EXCEPT ![n] = head[a]]
  BY <1>1 DEF Allocate
<1>3. /\ \A b \in Buckets : n \notin Reachable(b)
      /\ \A u \in Threads : n \notin Mine(u)
      /\ n \in Pointers
  BY <1>1, <1>2, ReachableInLive DEF Pointers
<1>4. /\ OthersStay(t) /\ pc[t] = "walk" /\ pc'[t] = "publish" /\ cur[t] = Null
      /\ UNCHANGED <<head, request>> /\ request[t].op = "insert"
  BY LocalsOfOthers DEF Operation, Allocate, Goto, IInv, TypeOK
<1>5. /\ fresh'[t] = n
      /\ key'[n] = request[t].key /\ value'[n] = request[t].value /\ next'[n] = head[a]
      /\ \A m \in Nodes \ {n} : next'[m] = next[m] /\ key'[m] = key[m] /\ value'[m] = value[m]
  BY <1>2 DEF IInv, TypeOK
<1>6. Mine(t) = {} /\ Mine(t)' = {n} /\ pc[t] \in Inside
  BY <1>4, <1>5, MineIs DEF Inside, ControlPoints
<1>7. /\ \A b \in Buckets \ {a} : GoodList(next', key', head'[b], b) /\ Reachable(b)' = Reachable(b)
      /\ \A u \in Threads \ {t} :
             /\ Mine(u)' = Mine(u)
             /\ pc'[u] = "walk" => Walking(u)'
             /\ pc'[u] = "publish" => Publishing(u)'
             /\ pc'[u] = "free" => Freeing(u)'
  BY <1>1, <1>3, <1>4, <1>5, <1>6, OthersUntouched
<1>8. GoodList(next', key', head'[a], a) /\ Reachable(a)' = Reachable(a)
  <2>1. \A m \in Reachable(a) : m \in Nodes \ {n}
    BY <1>3, ReachableInLive
  <2> QED BY <1>4, <1>5, <2>1, UntouchedBucket
<1>9. Publishing(t)'
  <2>1. Bucket(t)' = a
    BY <1>1, <1>4 DEF Bucket
  <2>2. \A m \in Reachable(a) : key[m] # request[t].key
    <3>1. Absent(t, Reachable(a) \ ListFrom(Null))
      BY <1>1, <1>4 DEF HeapInv, WalkInv, Walking
    <3>2. ListFrom(Null) = {}
      BY <1>1, ChainNull, PointerTypes, ListsAreChains
    <3> QED BY <3>1, <3>2 DEF Absent
  <2>3. \A m \in Reachable(a)' : key'[m] # request'[t].key
    BY <1>3, <1>4, <1>5, <1>8, <2>2, ReachableInLive
  <2>4. Absent(t, Reachable(Bucket(t)))'
    BY <2>1, <2>3 DEF Absent
  <2> QED BY <1>4, <1>5, <2>1, <2>4 DEF Publishing
<1>10. \A m \in Nodes : m \in live' <=> \/ m \in Reachable(a)' \cup Mine(t)'
                                        \/ m \in live \ (Reachable(a) \cup Mine(t))
  BY <1>2, <1>6, <1>8, ReachableInLive
<1>11. Reachable(a)' \cap Mine(t)' = {}
  BY <1>3, <1>6, <1>8
<1>12. \A m \in Reachable(a)' \cup Mine(t)' : m \in Reachable(a) \cup Mine(t) \/ m \in Nodes \ live
  BY <1>2, <1>6, <1>8
<1> QED BY <1>4, <1>7, <1>8, <1>9, <1>10, <1>11, <1>12, HeapAfter

LEMMA PublishList ==
    ASSUME IInv, HeapInv, IInv', NEW t \in Threads, Publish(t), NEW a \in Buckets, a = Bucket(t)
    PROVE  /\ GoodList(next', key', head'[a], a)
           /\ Reachable(a)' = Reachable(a) \cup {fresh[t]}
<1> DEFINE n == fresh[t]
<1>1. /\ n \in Nodes /\ n \in Mine(t) /\ Publishing(t)
      /\ head'[a] = n /\ next' = next /\ key' = key
  BY MineIs DEF Publish, IInv, TypeOK, HoldsNode, HeapInv, WalkInv
<1>2. GoodList(next, key, head[a], a) /\ n \notin Reachable(a)
  BY <1>1 DEF HeapInv, ListInv, OwnInv
<1>3. /\ next[n] = head[a] /\ key[n] \in Keys /\ HashOf[key[n]] = a
      /\ \A m \in Reachable(a) : key[m] # key[n]
  <2>1. request[t] \in Requests
    BY DEF Publish, IInv, HasRequest
  <2> QED BY <1>1, <2>1 DEF Publishing, Absent, Bucket, Requests
<1>4. next \in PointerFields /\ head[a] \in Pointers
  BY PointerTypes
<1>5. GoodList(next, key, n, a) /\ Chain(next, n) = Chain(next, head[a]) \cup {n}
  BY <1>1, <1>2, <1>3, <1>4, ListPush, ListsAreChains
<1>6. Reachable(a) = Chain(next, head[a]) /\ Reachable(a)' = Chain(next', head'[a])
  BY ListsAreChains
<1> QED BY <1>1, <1>5, <1>6

LEMMA PublishHeap ==
    ASSUME IInv, HeapInv, IInv', NEW t \in Threads, Publish(t) PROVE HeapInv'
<1>1. PICK a \in Buckets : a = Bucket(t)
  BY BucketType DEF Publish, IInv, HasRequest
<1>2. PICK n \in Nodes : n = fresh[t] /\ Mine(t) = {n}
  BY MineIs DEF Publish, IInv, HoldsNode
<1>3. GoodList(next', key', head'[a], a) /\ Reachable(a)' = Reachable(a) \cup {n}
  BY <1>1, <1>2, PublishList
<1>4. /\ OthersStay(t) /\ pc[t] = "publish" /\ pc'[t] = "unlock"
      /\ UNCHANGED <<key, value, next, live>>
      /\ \A b \in Buckets \ {a} : head'[b] = head[b]
  BY <1>1, LocalsOfOthers DEF Operation, Publish, Goto, IInv, TypeOK
<1>5. Mine(t)' = {} /\ pc[t] \in Inside
  BY <1>4, MineIs DEF Inside, ControlPoints
<1>6. /\ \A b \in Buckets \ {a} : GoodList(next', key', head'[b], b) /\ Reachable(b)' = Reachable(b)
      /\ \A u \in Threads \ {t} :
             /\ Mine(u)' = Mine(u)
             /\ pc'[u] = "walk" => Walking(u)'
             /\ pc'[u] = "publish" => Publishing(u)'
             /\ pc'[u] = "free" => Freeing(u)'
  BY <1>1, <1>4, <1>5, NullIsNowhere, OthersUntouched
<1>7. \A m \in Nodes : m \in live' <=> \/ m \in Reachable(a)' \cup Mine(t)'
                                       \/ m \in live \ (Reachable(a) \cup Mine(t))
  BY <1>2, <1>3, <1>4, <1>5, ReachableInLive
<1>8. \A m \in Reachable(a)' \cup Mine(t)' : m \in Reachable(a) \cup Mine(t)
  BY <1>2, <1>3, <1>5
<1>9. Reachable(a)' \cap Mine(t)' = {}
  BY <1>5
<1> QED BY <1>3, <1>4, <1>6, <1>7, <1>8, <1>9, HeapAfter

\* map_destroy: nobody has a node, and every list is given back.
LEMMA DestroyHeap ==
    ASSUME IInv, HeapInv, IInv', MapDestroy PROVE HeapInv'
<1>1. \A t \in Threads : pc[t] = "idle" /\ pc'[t] = "idle" /\ Mine(t) = {} /\ Mine(t)' = {}
  BY MineIs DEF MapDestroy
<1>2. \A b \in Buckets : head'[b] = Null
  BY DEF MapDestroy
<1>3. \A b \in Buckets : GoodList(next', key', head'[b], b) /\ Reachable(b)' = {}
  BY <1>2, GoodListEmpty, ChainNull, PointerTypes, ListsAreChains
<1>4. live' = {}
  <2>1. \A n \in live : n \in Nodes /\ \E b \in Buckets : n \in Reachable(b)
    BY <1>1 DEF IInv, TypeOK, HeapInv, LiveInv
  <2>2. \A n \in live : n \in UNION {ListFrom(head[b]) : b \in Buckets}
    BY <2>1 DEF Reachable
  <2> QED BY <2>2 DEF MapDestroy, Dispose
<1>5. ListInv' /\ OwnInv'
  BY <1>1, <1>3 DEF ListInv, OwnInv
<1>6. LiveInv' /\ WalkInv'
  BY <1>1, <1>3, <1>4 DEF LiveInv, WalkInv
<1> QED BY <1>5, <1>6 DEF HeapInv

LEMMA InitHeap == ASSUME Init PROVE HeapInv
<1>1. \A t \in Threads : pc[t] = "idle" /\ Mine(t) = {}
  BY MineIs DEF Init
<1>2. next \in PointerFields
  BY DEF Init, PointerFields, Pointers
<1>3. \A b \in Buckets : GoodList(next, key, head[b], b) /\ Reachable(b) = {}
  BY <1>2, GoodListEmpty, ChainNull, ListsAreChains DEF Init
<1> QED BY <1>1, <1>3 DEF Init, HeapInv, ListInv, OwnInv, LiveInv, WalkInv

LEMMA NextHeap == IInv /\ HeapInv /\ [Next]_vars => HeapInv'
<1> SUFFICES ASSUME IInv, HeapInv, [Next]_vars PROVE HeapInv'
  OBVIOUS
<1>1. IInv'
  BY NextIInv
<1>2. ASSUME NEW t \in Threads, Call(t) \/ Operation(t) PROVE HeapInv'
  BY <1>1, <1>2, QuietHeap, UnlinkHeap, FreeHeap, AllocateHeap, PublishHeap DEF Operation, Quiet
<1>3. CASE MapDestroy
  BY <1>1, <1>3, DestroyHeap
<1>4. CASE UNCHANGED vars
  <2>1. /\ UNCHANGED <<head, key, value, next, live>>
        /\ UNCHANGED <<pc, request, cur, prev, fresh>>
    BY <1>4 DEF vars, heap
  <2>2. \A b \in Buckets : GoodList(next', key', head'[b], b) /\ Reachable(b)' = Reachable(b)
    BY <1>1, <2>1, UntouchedBucket
  <2>3. \A t \in Threads : /\ Mine(t)' = Mine(t)
                           /\ pc'[t] = "walk" => Walking(t)'
                           /\ pc'[t] = "publish" => Publishing(t)'
                           /\ pc'[t] = "free" => Freeing(t)'
    BY <1>1, <2>1, UntouchedThread
  <2>4. ListInv' /\ OwnInv'
    BY <2>2, <2>3 DEF HeapInv, ListInv, OwnInv
  <2>5. LiveInv' /\ WalkInv'
    BY <2>1, <2>2, <2>3 DEF HeapInv, LiveInv, WalkInv
  <2> QED BY <2>4, <2>5 DEF HeapInv
<1> QED BY <1>2, <1>3, <1>4 DEF Next, Ended

\* A thread never has a freed node in its hands while it walks or frees: whoever has
\* unlinked and freed nodes meanwhile did it on other lists.
THEOREM NoNodeUsedAfterFree == Spec => []NoUseAfterFree
<1>1. IInv /\ HeapInv => NoUseAfterFree
  <2> SUFFICES ASSUME IInv, HeapInv, NEW t \in Threads, pc[t] \in {"walk", "free"}
               PROVE  (cur[t] # Null => cur[t] \in live) /\ (prev[t] # Null => prev[t] \in live)
    BY DEF NoUseAfterFree
  <2>1. Bucket(t) \in Buckets
    BY BucketType DEF IInv, HasRequest
  <2>2. CASE pc[t] = "walk"
    BY <2>1, <2>2, ReachableInLive DEF HeapInv, WalkInv, Walking
  <2>3. CASE pc[t] = "free"
    BY <2>1, <2>3, ReachableInLive, MineIs DEF HeapInv, WalkInv, Freeing
  <2> QED BY <2>2, <2>3
<1> QED BY InitIInv, NextIInv, InitHeap, NextHeap, <1>1, PTL DEF Spec

\* The lists keep their form whatever the interleaving: no node is lost, none on a list
\* is free, every list ends, and no key is twice on it or in the wrong bucket.
THEOREM ListsStayWellFormed == Spec => []ListsWellFormed
<1>1. IInv /\ HeapInv => ListsWellFormed
  <2> SUFFICES ASSUME IInv, HeapInv PROVE ListsWellFormed
    OBVIOUS
  <2>1. live = (UNION {Reachable(b) : b \in Buckets})
                 \cup {fresh[t] : t \in {u \in Threads : pc[u] = "publish"}}
                 \cup {cur[t] : t \in {u \in Threads : pc[u] = "free"}}
    <3> DEFINE A == UNION {Reachable(b) : b \in Buckets}
               F == {fresh[t] : t \in {u \in Threads : pc[u] = "publish"}}
               C == {cur[t] : t \in {u \in Threads : pc[u] = "free"}}
    <3>1. \A n : n \in A <=> \E b \in Buckets : n \in Reachable(b)
      OBVIOUS
    <3>2. \A n : n \in F \cup C <=> \E t \in Threads : n \in Mine(t)
      BY MineIs
    <3>3. A \subseteq Nodes /\ F \cup C \subseteq Nodes /\ live \subseteq Nodes
      <4>1. \A b \in Buckets : Reachable(b) \subseteq Nodes
        BY ReachableInLive
      <4>2. F \cup C \subseteq Nodes
        BY DEF IInv, HoldsNode
      <4> QED BY <3>1, <4>1, <4>2 DEF IInv, TypeOK
    <3> HIDE DEF A, F, C
    <3>4. \A n \in Nodes : n \in live <=> n \in A \/ n \in F \cup C
      BY <3>1, <3>2 DEF HeapInv, LiveInv
    <3>5. live = A \cup F \cup C
      BY <3>3, <3>4
    <3> QED BY <3>5 DEF A, F, C
  <2>2. \A b \in Buckets : GoodList(next, key, head[b], b)
    BY DEF HeapInv, ListInv
  <2> QED BY <2>1, <2>2, ListsAreChains DEF GoodList, ListsWellFormed
<1> QED BY InitIInv, NextIInv, InitHeap, NextHeap, <1>1, PTL DEF Spec

-----------------------------------------------------------------------------
\* Linearizability.  The nodes that hold key k: at most one.
Holders(k) == {n \in Reachable(HashOf[k]) : key[n] = k}

LEMMA MapValueIs ==
    ASSUME IInv, HeapInv, NEW k \in Keys
    PROVE  /\ \A n \in Holders(k) : MapValue(k) = value[n] /\ Holders(k) = {n}
           /\ Holders(k) = {} => MapValue(k) = Null
<1>1. MapValue(k) = IF Holders(k) = {} THEN Null ELSE value[CHOOSE n \in Holders(k) : TRUE]
  BY DEF MapValue, Holders
<1>2. ASSUME NEW n \in Holders(k) PROVE Holders(k) = {n}
  <2>1. HashOf[k] \in Buckets
    BY HashMapAssumption
  <2>2. GoodList(next, key, head[HashOf[k]], HashOf[k])
    BY <2>1 DEF HeapInv, ListInv
  <2>3. Reachable(HashOf[k]) = Chain(next, head[HashOf[k]])
    BY ListsAreChains
  <2> QED BY <2>2, <2>3 DEF GoodList, Holders
<1>3. ASSUME NEW n \in Holders(k) PROVE MapValue(k) = value[n]
  <2>1. (CHOOSE m \in Holders(k) : TRUE) \in Holders(k)
    BY <1>3
  <2> QED BY <1>1, <1>2, <1>3, <2>1
<1> QED BY <1>1, <1>2, <1>3

LEMMA MapValueIsNext ==
    ASSUME IInv', HeapInv', NEW k \in Keys
    PROVE  /\ \A n \in Holders(k)' : MapValue(k)' = value'[n] /\ Holders(k)' = {n}
           /\ Holders(k)' = {} => MapValue(k)' = Null
<1>1. MapValue(k)' = IF Holders(k)' = {} THEN Null ELSE value'[CHOOSE n \in Holders(k)' : TRUE]
  BY DEF MapValue, Holders
<1>2. ASSUME NEW n \in Holders(k)' PROVE Holders(k)' = {n}
  <2>1. HashOf[k] \in Buckets
    BY HashMapAssumption
  <2>2. GoodList(next', key', head'[HashOf[k]], HashOf[k])
    BY <2>1 DEF HeapInv, ListInv
  <2>3. Reachable(HashOf[k])' = Chain(next', head'[HashOf[k]])
    BY ListsAreChains
  <2> QED BY <2>2, <2>3 DEF GoodList, Holders
<1>3. ASSUME NEW n \in Holders(k)' PROVE MapValue(k)' = value'[n]
  <2>1. (CHOOSE m \in Holders(k)' : TRUE) \in Holders(k)'
    BY <1>3
  <2> QED BY <1>1, <1>2, <1>3, <2>1
<1> QED BY <1>1, <1>2, <1>3

\* Where the holders of a key stay and keep their values, so does the map.
LEMMA MapValueStays ==
    ASSUME IInv, HeapInv, IInv', HeapInv', NEW k \in Keys,
           Holders(k)' = Holders(k), \A n \in Holders(k) : value'[n] = value[n]
    PROVE  MapValue(k)' = MapValue(k)
<1>1. CASE Holders(k) = {}
  BY <1>1, MapValueIs, MapValueIsNext
<1>2. ASSUME NEW n \in Holders(k) PROVE MapValue(k)' = MapValue(k)
  BY <1>2, MapValueIs, MapValueIsNext
<1> QED BY <1>1, <1>2

\* The lists that a step of t leaves alone, by bucket.
LEMMA HoldersStay ==
    ASSUME IInv, HeapInv, IInv', NEW k \in Keys,
           head'[HashOf[k]] = head[HashOf[k]],
           \A n \in Reachable(HashOf[k]) : next'[n] = next[n] /\ key'[n] = key[n]
    PROVE  Holders(k)' = Holders(k)
<1>1. HashOf[k] \in Buckets
  BY HashMapAssumption
<1>2. Reachable(HashOf[k])' = Reachable(HashOf[k])
  BY <1>1, UntouchedBucket
<1> QED BY <1>2 DEF Holders

\* The abstract variables.
Map == [k \in Keys |-> MapValue(k)]
StatusOf(point) ==
    CASE point = "idle" -> "idle"
      [] point \in {"lock", "walk", "publish"} -> "called"
      [] point \in {"free", "unlock"} -> "returning"
Status == [t \in Threads |-> StatusOf(pc[t])]

LEMMA Abstraction ==
    /\ Map = [k \in Keys |-> MapValue(k)]
    /\ Status = [t \in Threads |->
                    CASE pc[t] = "idle" -> "idle"
                      [] pc[t] \in {"lock", "walk", "publish"} -> "called"
                      [] pc[t] \in {"free", "unlock"} -> "returning"]
  BY DEF Map, Status, StatusOf

LEMMA StatusAfter ==
    ASSUME IInv, NEW t \in Threads, NEW point, Goto(t, point)
    PROVE  Status' = [Status EXCEPT ![t] = StatusOf(point)]
  BY DEF Status, Goto, IInv, TypeOK

LEMMA MapAfter ==
    ASSUME \A k \in Keys : MapValue(k)' = MapValue(k) PROVE Map' = Map
  BY DEF Map

\* Steps that touch nothing a reader of the lists could see.
LEMMA SilentMap ==
    ASSUME IInv, HeapInv, IInv', HeapInv', NEW t \in Threads,
           (Quiet(t) /\ ~Replace(t)) \/ Free(t) \/ Allocate(t)
    PROVE  Map' = Map
<1>1. head' = head
  BY DEF Quiet, Call, Lock, Step, ReadValue, Missing, Unlock, Found, heap, Free, Allocate
<1>2. ASSUME NEW b \in Buckets, NEW n \in Reachable(b)
      PROVE  next'[n] = next[n] /\ key'[n] = key[n] /\ value'[n] = value[n]
  <2>1. n \in live /\ n \in Nodes
    BY <1>2, ReachableInLive
  <2>2. CASE Free(t)
    <3>1. Mine(t) = {cur[t]}
      BY <2>2, MineIs DEF Free
    <3>2. n # cur[t]
      BY <1>2, <3>1 DEF HeapInv, OwnInv
    <3> QED BY <2>1, <2>2, <3>2 DEF Free, Dispose, Wipe
  <2>3. CASE Allocate(t)
    BY <2>1, <2>3 DEF Allocate, IInv, TypeOK
  <2>4. CASE Quiet(t) /\ ~Replace(t)
    BY <2>4 DEF Quiet, Call, Lock, Step, ReadValue, Missing, Unlock, Found, heap
  <2> QED BY <2>2, <2>3, <2>4
<1>3. ASSUME NEW k \in Keys PROVE MapValue(k)' = MapValue(k)
  <2>1. HashOf[k] \in Buckets
    BY HashMapAssumption
  <2>2. Holders(k)' = Holders(k)
    BY <1>1, <1>2, <2>1, HoldersStay
  <2>3. \A n \in Holders(k) : value'[n] = value[n]
    BY <1>2, <2>1 DEF Holders
  <2> QED BY <2>2, <2>3, MapValueStays
<1> QED BY <1>3, MapAfter

LEMMA SilentRefines ==
    ASSUME IInv, HeapInv, IInv', HeapInv', NEW t \in Threads,
           Lock(t) \/ Step(t) \/ Free(t) \/ Allocate(t)
    PROVE  UNCHANGED Atomic!mapVars
<1>1. Map' = Map
  <2>1. ~Replace(t) \/ Free(t)
    BY DEF Replace, Found, Lock, Step, Allocate, Free
  <2> QED BY <2>1, SilentMap DEF Quiet
<1>2. Status' = Status
  <2>1. ASSUME NEW point, Goto(t, point), StatusOf(point) = StatusOf(pc[t]) PROVE Status' = Status
    BY <2>1, StatusAfter DEF Status
  <2>2. /\ StatusOf("lock") = StatusOf("walk") /\ StatusOf("free") = StatusOf("unlock")
        /\ StatusOf("walk") = StatusOf("publish")
    BY DEF StatusOf
  <2>3. CASE Step(t)
    BY <2>3 DEF Step, Status
  <2> QED BY <2>1, <2>2, <2>3 DEF Lock, Free, Allocate
<1>3. request' = request /\ result' = result
  BY DEF Lock, Step, Free, Allocate
<1> QED BY <1>1, <1>2, <1>3 DEF Atomic!mapVars, Map, Status, StatusOf

LEMMA CallRefines ==
    ASSUME IInv, HeapInv, IInv', HeapInv', NEW t \in Threads, Call(t)
    PROVE  Atomic!Call(t)
<1>1. Map' = Map
  <2>1. ~Replace(t)
    BY DEF Replace, Found, Call
  <2> QED BY <2>1, SilentMap DEF Quiet
<1>2. Status' = [Status EXCEPT ![t] = "called"] /\ Status[t] = "idle"
  <2>1. Status' = [Status EXCEPT ![t] = StatusOf("lock")]
    BY StatusAfter DEF Call
  <2>2. StatusOf("lock") = "called" /\ StatusOf("idle") = "idle"
    BY DEF StatusOf
  <2> QED BY <2>1, <2>2 DEF Status, Call
<1>3. PICK r \in Requests : request' = [request EXCEPT ![t] = r]
  BY DEF Call
<1>4. result' = result
  BY DEF Call
<1>5. r \in Atomic!Requests
  BY DEF Requests, Atomic!Requests
<1> QED BY <1>1, <1>2, <1>3, <1>4, <1>5 DEF Atomic!Call, Map, Status, StatusOf

LEMMA UnlockRefines ==
    ASSUME IInv, HeapInv, IInv', HeapInv', NEW t \in Threads, Unlock(t)
    PROVE  Atomic!Return(t)
<1>1. Map' = Map
  <2>1. ~Replace(t)
    BY DEF Replace, Found, Unlock
  <2> QED BY <2>1, SilentMap DEF Quiet
<1>2. Status' = [Status EXCEPT ![t] = "idle"] /\ Status[t] = "returning"
  <2>1. Status' = [Status EXCEPT ![t] = StatusOf("idle")]
    BY StatusAfter DEF Unlock, Return
  <2>2. StatusOf("unlock") = "returning" /\ StatusOf("idle") = "idle"
    BY DEF StatusOf
  <2> QED BY <2>1, <2>2 DEF Status, Unlock
<1> QED BY <1>1, <1>2 DEF Unlock, Return, Answer, Atomic!Return, Map, Status, StatusOf

\* What an operation that takes effect has to do, for its request and answer.
LEMMA EffectRefines ==
    ASSUME IInv, HeapInv, IInv', HeapInv', NEW t \in Threads,
           NEW point \in {"free", "unlock"}, Goto(t, point),
           pc[t] \in {"walk", "publish"}, request' = request,
           NEW x \in Keys, x = request[t].key, Answer(t, MapValue(x)),
           \A k \in Keys \ {x} : MapValue(k)' = MapValue(k),
           /\ request[t].op = "insert" => MapValue(x)' = request[t].value
           /\ request[t].op = "remove" => MapValue(x)' = Null
           /\ request[t].op = "get" => MapValue(x)' = MapValue(x)
    PROVE  Atomic!Effect(t)
<1>1. request[t].op \in {"insert", "remove", "get"}
  BY DEF IInv, HasRequest, Requests
<1>2. Map' = CASE request[t].op = "insert" -> [Map EXCEPT ![x] = request[t].value]
               [] request[t].op = "remove" -> [Map EXCEPT ![x] = Null]
               [] request[t].op = "get" -> Map
  <2>1. CASE request[t].op = "insert"
    BY <2>1 DEF Map
  <2>2. CASE request[t].op = "remove"
    BY <2>2 DEF Map
  <2>3. CASE request[t].op = "get"
    BY <2>3 DEF Map
  <2> QED BY <1>1, <2>1, <2>2, <2>3
<1>3. Status' = [Status EXCEPT ![t] = "returning"] /\ Status[t] = "called"
  <2>1. Status' = [Status EXCEPT ![t] = StatusOf(point)]
    BY StatusAfter
  <2>2. StatusOf(point) = "returning" /\ StatusOf(pc[t]) = "called"
    BY DEF StatusOf
  <2> QED BY <2>1, <2>2 DEF Status
<1>4. result' = [result EXCEPT ![t] = Map[request[t].key]]
  BY DEF Answer, Map
<1> QED BY <1>2, <1>3, <1>4 DEF Atomic!Effect, Map, Status, StatusOf

\* The node a thread has found is the one that holds its key.
LEMMA FoundHolder ==
    ASSUME IInv, HeapInv, NEW t \in Threads, NEW op, Found(t, op)
    PROVE  /\ request[t].key \in Keys
           /\ Holders(request[t].key) = {cur[t]} /\ MapValue(request[t].key) = value[cur[t]]
<1>1. request[t].key \in Keys
  BY DEF Found, IInv, HasRequest, Requests
<1>2. cur[t] \in Holders(request[t].key)
  BY FoundNode DEF Holders, Bucket
<1> QED BY <1>1, <1>2, MapValueIs

LEMMA GetRefines ==
    ASSUME IInv, HeapInv, IInv', HeapInv', NEW t \in Threads, ReadValue(t) \/ Missing(t)
    PROVE  Atomic!Effect(t)
<1>1. PICK x \in Keys : x = request[t].key
  BY DEF ReadValue, Missing, Found, IInv, HasRequest, Requests
<1>2. Map' = Map
  <2>1. ~Replace(t)
    BY DEF Replace, Found, ReadValue, Missing
  <2> QED BY <2>1, SilentMap DEF Quiet
<1>3. \A k \in Keys : MapValue(k)' = MapValue(k)
  BY <1>2 DEF Map
<1>4. /\ Goto(t, "unlock") /\ pc[t] \in {"walk", "publish"} /\ request' = request
      /\ request[t].op \in {"remove", "get"}
  BY DEF ReadValue, Missing, Found, IInv, HasRequest, Requests
<1>5. CASE ReadValue(t)
  <2>1. Answer(t, MapValue(x)) /\ request[t].op = "get"
    BY <1>1, <1>5, FoundHolder DEF ReadValue, Found
  <2> QED BY <1>1, <1>3, <1>4, <2>1, EffectRefines
<1>6. CASE Missing(t)
  <2>1. Holders(x) = {}
    <3>1. Bucket(t) \in Buckets
      BY <1>6, BucketType DEF Missing, IInv, HasRequest
    <3>2. Absent(t, Reachable(Bucket(t)) \ ListFrom(Null))
      BY <1>6 DEF Missing, HeapInv, WalkInv, Walking
    <3>3. ListFrom(Null) = {}
      BY <3>1, ChainNull, PointerTypes, ListsAreChains
    <3> QED BY <1>1, <3>2, <3>3 DEF Absent, Holders, Bucket
  <2>2. MapValue(x) = Null
    BY <2>1, MapValueIs
  <2>3. Answer(t, MapValue(x)) /\ MapValue(x)' = Null
    BY <1>3, <1>6, <2>2 DEF Missing
  <2> QED BY <1>1, <1>3, <1>4, <2>3, EffectRefines
<1> QED BY <1>5, <1>6

LEMMA ReplaceRefines ==
    ASSUME IInv, HeapInv, IInv', HeapInv', NEW t \in Threads, Replace(t)
    PROVE  Atomic!Effect(t)
<1>1. PICK x \in Keys : x = request[t].key
  BY FoundHolder DEF Replace
<1>2. PICK c \in Nodes : c = cur[t]
  BY FoundNode DEF Replace
<1>3. Holders(x) = {c} /\ MapValue(x) = value[c] /\ key[c] = x
  BY <1>1, <1>2, FoundNode, FoundHolder DEF Replace
<1>4. /\ UNCHANGED <<head, key, next>> /\ request' = request
      /\ value' = [value EXCEPT ![c] = request[t].value]
      /\ Goto(t, "unlock") /\ pc[t] = "walk" /\ request[t].op = "insert"
      /\ Answer(t, value[c])
  BY <1>2 DEF Replace, Found
<1>5. \A k \in Keys : Holders(k)' = Holders(k)
  BY <1>4, HoldersStay
<1>6. ASSUME NEW k \in Keys \ {x} PROVE MapValue(k)' = MapValue(k)
  <2>1. \A n \in Holders(k) : value'[n] = value[n]
    <3>1. HashOf[k] \in Buckets
      BY HashMapAssumption
    <3>2. \A n \in Holders(k) : n \in Nodes /\ n # c
      BY <1>3, <3>1, ReachableInLive DEF Holders
    <3> QED BY <1>4, <3>2 DEF IInv, TypeOK
  <2> QED BY <1>5, <2>1, MapValueStays
<1>7. MapValue(x)' = request[t].value
  <2>1. c \in Holders(x)'
    BY <1>3, <1>5
  <2>2. value'[c] = request[t].value
    BY <1>4 DEF IInv, TypeOK
  <2> QED BY <2>1, <2>2, MapValueIsNext
<1> QED BY <1>1, <1>3, <1>4, <1>6, <1>7, EffectRefines

LEMMA UnlinkRefines ==
    ASSUME IInv, HeapInv, IInv', HeapInv', NEW t \in Threads, Unlink(t)
    PROVE  Atomic!Effect(t)
<1>1. PICK x \in Keys : x = request[t].key
  BY FoundHolder DEF Unlink
<1>2. PICK c \in Nodes : c = cur[t]
  BY FoundNode DEF Unlink
<1>3. Holders(x) = {c} /\ MapValue(x) = value[c] /\ key[c] = x
  BY <1>1, <1>2, FoundNode, FoundHolder DEF Unlink
<1>4. PICK a \in Buckets : a = Bucket(t) /\ a = HashOf[x]
  BY <1>1, FoundNode DEF Unlink, Bucket
<1>5. /\ UNCHANGED <<key, value>> /\ request' = request
      /\ Goto(t, "free") /\ pc[t] = "walk" /\ request[t].op = "remove"
      /\ Answer(t, value[c])
  BY <1>2 DEF Unlink, Found
<1>6. /\ Reachable(a)' = Reachable(a) \ {c}
      /\ \A b \in Buckets \ {a} : head'[b] = head[b]
      /\ \A m \in Nodes : next'[m] = next[m] \/ m \in Reachable(a)
  BY <1>2, <1>4, UnlinkList
<1>7. /\ OthersStay(t) /\ pc[t] \in Inside
  BY <1>5, LocalsOfOthers DEF Operation, Inside, ControlPoints
<1>8. \A b \in Buckets \ {a} : Reachable(b)' = Reachable(b)
  BY <1>4, <1>5, <1>6, <1>7, NullIsNowhere, OthersUntouched
<1>9. ASSUME NEW k \in Keys PROVE Holders(k)' = Holders(k) \ {c}
  <2>1. HashOf[k] \in Buckets
    BY HashMapAssumption
  <2>2. CASE HashOf[k] = a
    <3>1. Holders(k) = {n \in Reachable(a) : key[n] = k}
      BY <2>2 DEF Holders
    <3>2. Holders(k)' = {n \in Reachable(a)' : key'[n] = k}
      BY <2>2 DEF Holders
    <3> QED BY <1>5, <1>6, <3>1, <3>2
  <2>3. CASE HashOf[k] # a
    <3>1. k # x
      BY <1>4, <2>3
    <3>2. c \notin Holders(k)
      BY <1>3, <3>1 DEF Holders
    <3>3. Reachable(HashOf[k])' = Reachable(HashOf[k])
      BY <1>8, <2>1, <2>3
    <3> QED BY <1>5, <3>2, <3>3 DEF Holders
  <2> QED BY <2>2, <2>3
<1>10. ASSUME NEW k \in Keys \ {x} PROVE MapValue(k)' = MapValue(k)
  <2>1. c \notin Holders(k)
    BY <1>3 DEF Holders
  <2>2. Holders(k)' = Holders(k)
    BY <1>9, <2>1
  <2> QED BY <1>5, <2>2, MapValueStays
<1>11. MapValue(x)' = Null
  <2>1. Holders(x)' = {}
    BY <1>3, <1>9
  <2> QED BY <2>1, MapValueIsNext
<1> QED BY <1>1, <1>3, <1>5, <1>10, <1>11, EffectRefines

LEMMA PublishRefines ==
    ASSUME IInv, HeapInv, IInv', HeapInv', NEW t \in Threads, Publish(t)
    PROVE  Atomic!Effect(t)
<1>1. PICK x \in Keys : x = request[t].key
  BY DEF Publish, IInv, HasRequest, Requests
<1>2. PICK n \in Nodes : n = fresh[t]
  BY DEF Publish, IInv, HoldsNode
<1>3. PICK a \in Buckets : a = Bucket(t) /\ a = HashOf[x]
  BY <1>1, BucketType DEF Publish, IInv, HasRequest, Bucket
<1>4. /\ request[t].op = "insert" /\ key[n] = x /\ value[n] = request[t].value
      /\ \A m \in Reachable(a) : key[m] # x
  BY <1>1, <1>2, <1>3 DEF Publish, HeapInv, WalkInv, Publishing, Absent
<1>5. /\ UNCHANGED <<key, value, next>> /\ request' = request
      /\ Goto(t, "unlock") /\ pc[t] = "publish"
      /\ Answer(t, Null)
  BY DEF Publish
<1>6. /\ Reachable(a)' = Reachable(a) \cup {n}
      /\ \A b \in Buckets \ {a} : head'[b] = head[b]
  BY <1>2, <1>3, PublishList DEF Publish, IInv, TypeOK
<1>7. \A k \in Keys : HashOf[k] # a => Holders(k)' = Holders(k)
  BY <1>5, <1>6, HashMapAssumption, HoldersStay
<1>8. \A k \in Keys \ {x} : MapValue(k)' = MapValue(k)
  <2> SUFFICES ASSUME NEW k \in Keys \ {x} PROVE Holders(k)' = Holders(k)
    BY <1>5, MapValueStays
  <2>1. CASE HashOf[k] = a
    <3>1. Holders(k) = {m \in Reachable(a) : key[m] = k}
      BY <2>1 DEF Holders
    <3>2. Holders(k)' = {m \in Reachable(a)' : key'[m] = k}
      BY <2>1 DEF Holders
    <3> QED BY <1>4, <1>5, <1>6, <3>1, <3>2
  <2> QED BY <1>7, <2>1
<1>9. MapValue(x) = Null
  <2>1. Holders(x) = {}
    BY <1>3, <1>4 DEF Holders
  <2> QED BY <2>1, MapValueIs
<1>10. MapValue(x)' = request[t].value
  <2>1. n \in Reachable(HashOf[x])' /\ key'[n] = x
    BY <1>3, <1>4, <1>5, <1>6
  <2>2. n \in Holders(x)'
    BY <2>1 DEF Holders
  <2> QED BY <1>4, <1>5, <2>2, MapValueIsNext
<1> QED BY <1>1, <1>4, <1>5, <1>8, <1>9, <1>10, EffectRefines

LEMMA DestroyRefines ==
    ASSUME IInv, HeapInv, IInv', HeapInv', MapDestroy PROVE Atomic!Destroy
<1>1. \A t \in Threads : Status[t] = "idle"
  BY DEF MapDestroy, Status, StatusOf
<1>2. Map' = [k \in Keys |-> Null]
  <2>1. \A b \in Buckets : Reachable(b)' = {}
    <3>1. \A b \in Buckets : head'[b] = Null
      BY DEF MapDestroy
    <3> QED BY <3>1, ChainNull, PointerTypes, ListsAreChains
  <2>2. ASSUME NEW k \in Keys PROVE MapValue(k)' = Null
    <3>1. HashOf[k] \in Buckets
      BY HashMapAssumption
    <3>2. Holders(k)' = {}
      BY <2>1, <3>1 DEF Holders
    <3> QED BY <3>2, MapValueIsNext
  <2> QED BY <2>2 DEF Map
<1>3. Status' = Status /\ request' = request /\ result' = result
  BY DEF MapDestroy, Status
<1> QED BY <1>1, <1>2, <1>3 DEF Atomic!Destroy, Map, Status, StatusOf

LEMMA NextRefines ==
    ASSUME IInv, HeapInv, IInv', HeapInv', [Next]_vars
    PROVE  [Atomic!Next]_Atomic!mapVars
<1>1. ASSUME NEW t \in Threads, Call(t) \/ Operation(t) PROVE [Atomic!Next]_Atomic!mapVars
  <2>1. CASE Lock(t) \/ Step(t) \/ Free(t) \/ Allocate(t)
    BY <2>1, SilentRefines
  <2>2. CASE Call(t)
    BY <2>2, CallRefines DEF Atomic!Next
  <2>3. CASE Unlock(t)
    BY <2>3, UnlockRefines DEF Atomic!Next
  <2>4. CASE ReadValue(t) \/ Missing(t) \/ Replace(t) \/ Unlink(t) \/ Publish(t)
    BY <2>4, GetRefines, ReplaceRefines, UnlinkRefines, PublishRefines DEF Atomic!Next
  <2> QED BY <1>1, <2>1, <2>2, <2>3, <2>4 DEF Operation
<1>2. CASE MapDestroy
  BY <1>2, DestroyRefines DEF Atomic!Next
<1>3. CASE UNCHANGED vars
  <2>1. Status' = Status /\ request' = request /\ result' = result
    BY <1>3 DEF vars, Status
  <2>2. \A k \in Keys : Holders(k)' = Holders(k) /\ value' = value
    BY <1>3, HoldersStay DEF vars, heap
  <2>3. Map' = Map
    BY <2>2, MapValueStays, MapAfter
  <2> QED BY <2>1, <2>3 DEF Atomic!mapVars, Map, Status, StatusOf
<1> QED BY <1>1, <1>2, <1>3 DEF Next, Ended

LEMMA InitRefines == Init => Atomic!Init
<1> SUFFICES ASSUME Init PROVE Atomic!Init
  OBVIOUS
<1>1. IInv /\ HeapInv
  BY InitIInv, InitHeap
<1>2. Map = [k \in Keys |-> Null]
  <2>1. \A b \in Buckets : Reachable(b) = {}
    <3>1. next \in PointerFields
      BY DEF Init, PointerFields, Pointers
    <3> QED BY <3>1, ChainNull, ListsAreChains DEF Init
  <2>2. \A k \in Keys : Holders(k) = {}
    BY <2>1, HashMapAssumption DEF Holders
  <2> QED BY <1>1, <2>2, MapValueIs DEF Map
<1>3. Status = [t \in Threads |-> "idle"]
  BY DEF Init, Status, StatusOf
<1> QED BY <1>2, <1>3 DEF Init, Atomic!Init, Map, Status, StatusOf

\* map_insert, map_get and map_remove are linearizable for any threads, keys, hash
\* function and heap: each takes effect on one map in one step between its call and its
\* return, map_remove when it unlinks the node and not when it frees it.
THEOREM MapIsAtomic == Spec => ImplementsAtomicMap
<1>1. IInv /\ HeapInv /\ IInv' /\ HeapInv' /\ [Next]_vars => [Atomic!Next]_Atomic!mapVars
  BY NextRefines
<1> QED BY InitIInv, NextIInv, InitHeap, NextHeap, InitRefines, <1>1, PTL
        DEF Spec, ImplementsAtomicMap, Atomic!Spec

=============================================================================
