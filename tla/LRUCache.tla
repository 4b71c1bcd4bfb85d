------------------------------ MODULE LRUCache ------------------------------
(***************************************************************************)
(* src/146.c: a cache of limited capacity.  Its nodes are on a doubly      *)
(* linked list in the order of their use and on the singly linked chains   *)
(* of a hash table.  One action per function of the interface; the helper  *)
(* functions are operators from a cache to a cache, with the same names.   *)
(***************************************************************************)
EXTENDS Integers, SequencesExt

CONSTANTS Keys, Values,
          capacity,
          map_size,    \* 10007 in the code
          Nodes,       \* the addresses malloc gives to nodes
          Null

ASSUME LRUCacheAssumption ==
    /\ Keys \subseteq Nat
    /\ capacity \in Nat \ {0}
    /\ map_size \in Nat \ {0}
    /\ Null \notin Nodes \cup Values

VARIABLES cache,   \* the fields of LRUCache, and those of the nodes by address;
                   \* cache.live: the nodes allocated and not freed
          result,  \* what the last call returned; Null for -1 and for void
          freed    \* has lRUCacheFree been called?

vars == <<cache, result, freed>>

Pointers == Nodes \cup {Null}

\* lRUCacheCreate.
Init ==
    /\ cache = [size |-> 0, head |-> Null, tail |-> Null,
                map |-> [h \in 0 .. map_size - 1 |-> Null],
                key |-> [n \in Nodes |-> Null], value |-> [n \in Nodes |-> Null],
                prev |-> [n \in Nodes |-> Null], next |-> [n \in Nodes |-> Null],
                hnext |-> [n \in Nodes |-> Null], live |-> {}]
    /\ result = Null
    /\ freed = FALSE

hash(k) == k % map_size

-----------------------------------------------------------------------------
\* The list.
removeNode(c, n) ==
    LET a == IF c.prev[n] # Null THEN [c EXCEPT !.next[c.prev[n]] = c.next[n]]
             ELSE [c EXCEPT !.head = c.next[n]]
    IN  IF a.next[n] # Null THEN [a EXCEPT !.prev[a.next[n]] = a.prev[n]]
        ELSE [a EXCEPT !.tail = a.prev[n]]

\* Mutant: the old head keeps its null prev.
addToHeadMutant(c, n) ==
    LET a == [c EXCEPT !.next[n] = c.head, !.prev[n] = Null, !.head = n]
    IN  IF a.tail = Null THEN [a EXCEPT !.tail = n] ELSE a
addToHead(c, n) ==
    LET a == [c EXCEPT !.next[n] = c.head, !.prev[n] = Null]
        b == IF a.head # Null THEN [a EXCEPT !.prev[a.head] = n] ELSE a
        d == [b EXCEPT !.head = n]
    IN  IF d.tail = Null THEN [d EXCEPT !.tail = n] ELSE d

-----------------------------------------------------------------------------
\* The nodes from n on along the pointers of a field; if these run in a circle,
\* one more than there are nodes.
Walk(field, n) ==
    LET follow == [p \in Pointers |-> IF p = Null THEN Null ELSE field[p]]
        at[m \in Nat] == IF m = 0 THEN n ELSE follow[at[m - 1]]
        steps == {m \in 0 .. Cardinality(Nodes) : at[m] # Null}
    IN  [m \in 1 .. Cardinality(steps) |-> at[m - 1]]

Chain(c, h) == Walk(c.hnext, c.map[h])

\* The place of k on its chain, 0 if it is not there.
PlaceOf(c, k) ==
    LET chain == Chain(c, hash(k))
        places == {m \in DOMAIN chain : c.key[chain[m]] = k}
    IN  IF places = {} THEN 0 ELSE CHOOSE m \in places : \A o \in places : m <= o

getNode(c, k) == IF PlaceOf(c, k) = 0 THEN Null ELSE Chain(c, hash(k))[PlaceOf(c, k)]

putNode(c, n) ==
    [c EXCEPT !.hnext[n] = c.map[hash(c.key[n])], !.map[hash(c.key[n])] = n]

\* Mutant: the rest of the chain is cut off.
removeFromMapMutant(c, k) ==
    LET place == PlaceOf(c, k) chain == Chain(c, hash(k))
    IN  IF place = 0 THEN c
        ELSE IF place = 1 THEN [c EXCEPT !.map[hash(k)] = Null]
        ELSE [c EXCEPT !.hnext[chain[place - 1]] = Null]
removeFromMap(c, k) ==
    LET place == PlaceOf(c, k)
        chain == Chain(c, hash(k))
    IN  CASE place = 0 -> c
          [] place = 1 -> [c EXCEPT !.map[hash(k)] = c.hnext[chain[1]]]
          [] place > 1 -> [c EXCEPT !.hnext[chain[place - 1]] = c.hnext[chain[place]]]

\* createNode, at any address that is not in use.
createNode(c, n, k, v) ==
    [c EXCEPT !.live = @ \cup {n}, !.key[n] = k, !.value[n] = v,
              !.prev[n] = Null, !.next[n] = Null, !.hnext[n] = Null]

\* free: the fields mean nothing any more.
Release(c, n) ==
    [c EXCEPT !.live = @ \ {n}, !.key[n] = Null, !.value[n] = Null,
              !.prev[n] = Null, !.next[n] = Null, !.hnext[n] = Null]

-----------------------------------------------------------------------------
\* Mutant: a hit does not count as a use.
lRUCacheGetMutant(k) ==
    /\ ~freed
    /\ LET n == getNode(cache, k)
       IN  result' = IF n = Null THEN Null ELSE cache.value[n]
    /\ UNCHANGED <<cache, freed>>
lRUCacheGet(k) ==
    /\ ~freed
    /\ LET n == getNode(cache, k)
       IN  IF n = Null
           THEN result' = Null /\ UNCHANGED cache
           ELSE /\ result' = cache.value[n]
                /\ cache' = addToHead(removeNode(cache, n), n)
    /\ UNCHANGED freed

\* lRUCachePut on a key that is there.
Update(k, v) ==
    /\ ~freed
    /\ getNode(cache, k) # Null
    /\ cache' = LET n == getNode(cache, k)
                IN  addToHead(removeNode([cache EXCEPT !.value[n] = v], n), n)
    /\ result' = Null
    /\ UNCHANGED freed

\* lRUCachePut on a new key; at the capacity the tail makes room.
Evict(c) ==
    [Release(removeFromMap(removeNode(c, c.tail), c.key[c.tail]), c.tail)
        EXCEPT !.size = @ - 1]

MakeRoom(c) == IF c.size = capacity THEN Evict(c) ELSE c

Insert(k, v) ==
    /\ ~freed
    /\ getNode(cache, k) = Null
    /\ LET c == MakeRoom(cache)
       IN  \E n \in Nodes \ c.live :
               cache' = [putNode(addToHead(createNode(c, n, k, v), n), n) EXCEPT !.size = @ + 1]
    /\ result' = Null
    /\ UNCHANGED freed

\* lRUCacheFree walks the list; the map goes with the cache.
Freed(c) == ToSet(Walk(c.next, c.head))

lRUCacheFree ==
    /\ ~freed
    /\ cache' = [cache EXCEPT !.live = @ \ Freed(cache)]
    /\ freed' = TRUE
    /\ result' = Null

Next ==
    \/ lRUCacheFree
    \/ \E k \in Keys : lRUCacheGet(k) \/ \E v \in Values : Update(k, v) \/ Insert(k, v)

Spec == Init /\ [][Next]_vars

-----------------------------------------------------------------------------
TypeOK ==
    /\ cache.size \in 0 .. capacity
    /\ {cache.head, cache.tail} \subseteq Pointers
    /\ cache.map \in [0 .. map_size - 1 -> Pointers]
    /\ cache.key \in [Nodes -> Keys \cup {Null}]
    /\ cache.value \in [Nodes -> Values \cup {Null}]
    /\ \A field \in {cache.prev, cache.next, cache.hnext} : field \in [Nodes -> Pointers]
    /\ cache.live \subseteq Nodes
    /\ result \in Values \cup {Null}
    /\ freed \in BOOLEAN

\* The three structures hold the same nodes: the list read backwards from the
\* tail is the list read forwards from the head, it has size nodes and all that
\* are allocated, and a node is on the chain of its key's hash and nowhere else,
\* although eviction takes it out of list and chain by different functions; and
\* lRUCacheFree, which goes along the list only, leaves no node allocated.
List == Walk(cache.next, cache.head)
StructuresAgree ==
    /\ TypeOK
    /\ freed => cache.live = {}
    /\ ~freed =>
        /\ Len(List) = cache.size /\ ToSet(List) = cache.live /\ IsInjective(List)
        /\ Walk(cache.prev, cache.tail) = Reverse(List)
        /\ \A h \in DOMAIN cache.map :
               /\ IsInjective(Chain(cache, h))
               /\ ToSet(Chain(cache, h)) = {n \in cache.live : hash(cache.key[n]) = h}

\* The lists implement the cache of LruStore: the node given up is the one used
\* longest ago, a get counts as a use, and so does a put on a key that is there.
Entries ==
    IF freed THEN <<>>
    ELSE [m \in DOMAIN List |-> [key |-> cache.key[List[m]], value |-> cache.value[List[m]]]]

Store == INSTANCE LruStore
             WITH Capacity <- capacity, Miss <- Null,
                  recent <- Entries
ImplementsLru == Store!Spec

=============================================================================
