-------------------------- MODULE StructuresProofs --------------------------
(***************************************************************************)
(* Proofs about the structures of Structures, for any sizes and inputs:    *)
(* list, chains and size of the LRU cache stay in step over every sequence *)
(* of calls and the cache implements LruStore, the sliding window writes   *)
(* the maximum of every window, the allocator implements BlockStore, and   *)
(* the lists of the skip list stay parts of one another and implement      *)
(* NumberBag. Last the functions on arrays and texts, right for any input. *)
(***************************************************************************)
EXTENDS Structures, FunctionInputs, SequenceTheorems, FiniteSetTheorems, WellFoundedInduction, TLAPS

-----------------------------------------------------------------------------
\* What holds at 0 and goes on from each number to the next holds up to m.
LEMMA UpTo ==
    ASSUME NEW m \in Nat, NEW S, 0 \in S, \A n \in 0 .. m - 1 : n \in S => n + 1 \in S
    PROVE  \A n \in 0 .. m : n \in S
<1> DEFINE Missing == {n \in 0 .. m : n \notin S}
<1> SUFFICES ASSUME Missing # {} PROVE FALSE
  OBVIOUS
<1>1. PICK n \in Missing : \A k \in Missing : ~(<<k, n>> \in OpToRel(<, Nat))
  <2>1. Missing \in SUBSET Nat
    OBVIOUS
  <2> QED BY <2>1, NatLessThanWellFounded, WFMin
<1>2. n \in 0 .. m /\ n \notin S /\ n # 0
  OBVIOUS
<1>3. n - 1 \in 0 .. m - 1 /\ n - 1 \in Nat /\ n - 1 < n /\ (n - 1) + 1 = n
  BY <1>2
<1>4. n - 1 \in Missing
  BY <1>2, <1>3
<1>5. <<n - 1, n>> \in OpToRel(<, Nat)
  <2>1. n - 1 \in Nat /\ n \in Nat /\ n - 1 < n
    BY <1>3
  <2> QED BY <2>1 DEF OpToRel
<1> HIDE DEF Missing
<1> QED BY <1>1, <1>4, <1>5

-----------------------------------------------------------------------------
\* Sequences of nodes: what stands at a place, Null before the first and behind the
\* last one; the sequence without its place i, and with n in front.
NodeSeqs == {s \in Seq(Nodes) : \A i, j \in 1 .. Len(s) : s[i] = s[j] => i = j}
At(s, i) == IF i \in 1 .. Len(s) THEN s[i] ELSE Null
On(s) == {s[i] : i \in 1 .. Len(s)}
Drop(s, i) == [j \in 1 .. Len(s) - 1 |-> IF j < i THEN s[j] ELSE s[j + 1]]
Push(n, s) == [j \in 1 .. Len(s) + 1 |-> IF j = 1 THEN n ELSE s[j - 1]]

LEMMA FunctionIsSeq ==
    ASSUME NEW X, NEW n \in Nat, NEW f \in [1 .. n -> X]
    PROVE  f \in Seq(X) /\ Len(f) = n
<1>1. f \in Seq(X) /\ DOMAIN f = 1 .. n
  BY SeqDef
<1>2. Len(f) \in Nat /\ 1 .. Len(f) = 1 .. n
  BY <1>1, LenProperties
<1> QED BY <1>1, <1>2

LEMMA NodeSeqFacts ==
    ASSUME NEW s \in NodeSeqs
    PROVE  /\ s \in Seq(Nodes) /\ Len(s) \in Nat /\ DOMAIN s = 1 .. Len(s)
           /\ \A i \in 1 .. Len(s) : s[i] \in Nodes /\ s[i] # Null /\ At(s, i) = s[i]
           /\ \A i, j \in 1 .. Len(s) : s[i] = s[j] => i = j
           /\ At(s, 0) = Null /\ At(s, Len(s) + 1) = Null
           /\ \A i : At(s, i) \in Pointers
           /\ On(s) \subseteq Nodes
<1>1. s \in Seq(Nodes) /\ Len(s) \in Nat /\ DOMAIN s = 1 .. Len(s)
  BY LenProperties DEF NodeSeqs
<1>2. \A i \in 1 .. Len(s) : s[i] \in Nodes
  BY <1>1, ElementOfSeq
<1> QED BY <1>1, <1>2, LRUCacheAssumption DEF NodeSeqs, At, On, Pointers

LEMMA DropFacts ==
    ASSUME NEW s \in NodeSeqs, NEW i \in 1 .. Len(s)
    PROVE  /\ Drop(s, i) \in NodeSeqs /\ Len(Drop(s, i)) = Len(s) - 1
           /\ \A j \in 1 .. Len(s) - 1 : Drop(s, i)[j] = IF j < i THEN s[j] ELSE s[j + 1]
           /\ On(Drop(s, i)) = On(s) \ {s[i]}
<1> DEFINE d == Drop(s, i)
           L == Len(s)
<1>1. /\ L \in Nat /\ L - 1 \in Nat /\ i \in 1 .. L
      /\ \A j \in 1 .. L : s[j] \in Nodes
      /\ \A j, k \in 1 .. L : s[j] = s[k] => j = k
  BY NodeSeqFacts
<1>2. \A j \in 1 .. L - 1 : d[j] = IF j < i THEN s[j] ELSE s[j + 1]
  BY DEF Drop
<1>3. d \in [1 .. L - 1 -> Nodes]
  <2>1. \A j \in 1 .. L - 1 : j \in 1 .. L /\ j + 1 \in 1 .. L
    BY <1>1
  <2> QED BY <1>1, <2>1 DEF Drop
<1>4. d \in Seq(Nodes) /\ Len(d) = L - 1
  BY <1>1, <1>3, FunctionIsSeq
<1> HIDE DEF d
<1>5. ASSUME NEW j \in 1 .. L - 1, NEW k \in 1 .. L - 1, d[j] = d[k] PROVE j = k
  <2>1. /\ j \in 1 .. L /\ j + 1 \in 1 .. L /\ k \in 1 .. L /\ k + 1 \in 1 .. L
    BY <1>1
  <2>2. CASE j < i /\ k < i
    BY <1>1, <1>2, <1>5, <2>1, <2>2
  <2>3. CASE j < i /\ ~(k < i)
    BY <1>1, <1>2, <1>5, <2>1, <2>3
  <2>4. CASE ~(j < i) /\ k < i
    BY <1>1, <1>2, <1>5, <2>1, <2>4
  <2>5. CASE ~(j < i) /\ ~(k < i)
    BY <1>1, <1>2, <1>5, <2>1, <2>5
  <2> QED BY <2>2, <2>3, <2>4, <2>5
<1>6. ASSUME NEW j \in 1 .. L - 1 PROVE d[j] \in On(s) \ {s[i]}
  <2>1. j \in 1 .. L /\ j + 1 \in 1 .. L
    BY <1>1
  <2>2. CASE j < i
    BY <1>1, <1>2, <2>1, <2>2 DEF On
  <2>3. CASE ~(j < i)
    BY <1>1, <1>2, <2>1, <2>3 DEF On
  <2> QED BY <2>2, <2>3
<1>7. ASSUME NEW j \in 1 .. L, j # i PROVE \E k \in 1 .. L - 1 : d[k] = s[j]
  <2>1. CASE j < i
    BY <1>1, <1>2, <2>1
  <2>2. CASE ~(j < i)
    <3>1. j - 1 \in 1 .. L - 1 /\ (j - 1) + 1 = j /\ ~(j - 1 < i)
      BY <1>1, <1>7, <2>2
    <3> QED BY <1>2, <3>1
  <2> QED BY <2>1, <2>2
<1>8. On(d) = On(s) \ {s[i]}
  <2>1. On(d) = {d[j] : j \in 1 .. L - 1} /\ On(s) = {s[j] : j \in 1 .. L}
    BY <1>4 DEF On
  <2>2. ASSUME NEW x \in On(s) \ {s[i]} PROVE x \in On(d)
    <3>1. PICK j \in 1 .. L : x = s[j] /\ j # i
      BY <2>1
    <3> QED BY <1>7, <2>1, <3>1
  <2> QED BY <1>6, <2>1, <2>2
<1>9. d \in NodeSeqs
  BY <1>4, <1>5 DEF NodeSeqs
<1> QED BY <1>2, <1>4, <1>8, <1>9 DEF d

LEMMA PushFacts ==
    ASSUME NEW s \in NodeSeqs, NEW n \in Nodes, n \notin On(s)
    PROVE  /\ Push(n, s) \in NodeSeqs /\ Len(Push(n, s)) = Len(s) + 1
           /\ \A j \in 1 .. Len(s) + 1 : Push(n, s)[j] = IF j = 1 THEN n ELSE s[j - 1]
           /\ On(Push(n, s)) = On(s) \cup {n}
<1> DEFINE p == Push(n, s)
           L == Len(s)
<1>1. /\ L \in Nat /\ L + 1 \in Nat
      /\ \A j \in 1 .. L : s[j] \in Nodes /\ s[j] # n
      /\ \A j, k \in 1 .. L : s[j] = s[k] => j = k
  BY NodeSeqFacts DEF On
<1>2. \A j \in 1 .. L + 1 : p[j] = IF j = 1 THEN n ELSE s[j - 1]
  BY DEF Push
<1>3. p \in [1 .. L + 1 -> Nodes]
  <2>1. \A j \in 1 .. L + 1 : j # 1 => j - 1 \in 1 .. L
    BY <1>1
  <2> QED BY <1>1, <2>1 DEF Push
<1>4. p \in Seq(Nodes) /\ Len(p) = L + 1
  BY <1>1, <1>3, FunctionIsSeq
<1> HIDE DEF p
<1>5. ASSUME NEW j \in 1 .. L + 1, NEW k \in 1 .. L + 1, p[j] = p[k] PROVE j = k
  <2>1. (j # 1 => j - 1 \in 1 .. L) /\ (k # 1 => k - 1 \in 1 .. L)
    BY <1>1
  <2> QED BY <1>1, <1>2, <1>5, <2>1
<1>6. \A j \in 1 .. L : j + 1 \in 1 .. L + 1 /\ p[j + 1] = s[j]
  BY <1>1, <1>2
<1>7. 1 \in 1 .. L + 1 /\ p[1] = n
  BY <1>1, <1>2
<1>8. On(p) = On(s) \cup {n}
  <2>1. \A j \in 1 .. L + 1 : p[j] = n \/ (j - 1 \in 1 .. L /\ p[j] = s[j - 1])
    BY <1>1, <1>2
  <2> QED BY <1>4, <1>6, <1>7, <2>1 DEF On
<1>9. p \in NodeSeqs
  BY <1>4, <1>5 DEF NodeSeqs
<1> QED BY <1>2, <1>4, <1>8, <1>9 DEF p

-----------------------------------------------------------------------------
\* A walk.  When the pointers of a field lead from n through s to Null, Walk finds s.
PointerFields == [Nodes -> Pointers]
IsWalk(field, n, s) == n = At(s, 1) /\ \A i \in 1 .. Len(s) : field[s[i]] = At(s, i + 1)

LEMMA SeqIsShort ==
    ASSUME IsFiniteSet(Nodes), NEW s \in NodeSeqs
    PROVE  Len(s) <= Cardinality(Nodes) /\ Cardinality(Nodes) \in Nat
<1>1. s \in [1 .. Len(s) -> Nodes] /\ Len(s) \in Nat
  BY NodeSeqFacts, LenProperties
<1>2. s \in Injection(1 .. Len(s), Nodes)
  BY <1>1, NodeSeqFacts DEF Injection, IsInjective
<1>3. Cardinality(1 .. Len(s)) <= Cardinality(Nodes)
  BY <1>2, FS_Injection
<1>4. Cardinality(1 .. Len(s)) = Len(s)
  <2>1. 1 \in Int /\ Len(s) \in Int
    BY <1>1
  <2>2. Cardinality(1 .. Len(s)) = IF 1 > Len(s) THEN 0 ELSE Len(s) - 1 + 1
    BY <2>1, FS_Interval
  <2> QED BY <1>1, <2>2
<1> QED BY <1>3, <1>4, FS_CardinalityType

LEMMA WalkIs ==
    ASSUME IsFiniteSet(Nodes), NEW field \in PointerFields, NEW n, NEW s \in NodeSeqs,
           IsWalk(field, n, s)
    PROVE  Walk(field, n) = s
<1> DEFINE follow == [p \in Pointers |-> IF p = Null THEN Null ELSE field[p]]
           L == Len(s)
           Fits(f) == f = [m \in Nat |-> IF m = 0 THEN n ELSE follow[f[m - 1]]]
           g == [m \in Nat |-> At(s, m + 1)]
           at == CHOOSE f : Fits(f)
           steps == {m \in 0 .. Cardinality(Nodes) : at[m] # Null}
<1>1. /\ L \in Nat /\ L <= Cardinality(Nodes) /\ Cardinality(Nodes) \in Nat
      /\ s \in Seq(Nodes) /\ DOMAIN s = 1 .. L
      /\ \A i \in 1 .. L : s[i] \in Nodes /\ s[i] # Null /\ At(s, i) = s[i]
  BY SeqIsShort, NodeSeqFacts
<1>2. ASSUME NEW m \in Nat, m # 0 PROVE g[m] = follow[g[m - 1]]
  <2>1. g[m] = At(s, m + 1) /\ g[m - 1] = At(s, m)
    BY <1>2
  <2>2. CASE m \in 1 .. L
    <3>1. At(s, m) = s[m] /\ s[m] \in Nodes /\ s[m] # Null
      BY <1>1, <2>2
    <3>2. field[s[m]] = At(s, m + 1)
      BY <2>2 DEF IsWalk
    <3> QED BY <2>1, <3>1, <3>2 DEF Pointers
  <2>3. CASE m \notin 1 .. L
    <3>1. m + 1 \notin 1 .. L
      BY <1>1, <1>2, <2>3
    <3>2. At(s, m) = Null /\ At(s, m + 1) = Null
      BY <2>3, <3>1 DEF At
    <3> QED BY <2>1, <3>2 DEF Pointers
  <2> QED BY <2>2, <2>3
<1>3. g[0] = n
  BY DEF IsWalk
<1>4. Fits(g)
  <2> HIDE DEF follow
  <2>1. \A m \in Nat : g[m] = IF m = 0 THEN n ELSE follow[g[m - 1]]
    <3> HIDE DEF g
    <3> QED BY <1>2, <1>3
  <2>2. g = [m \in Nat |-> g[m]]
    OBVIOUS
  <2> HIDE DEF g
  <2> QED BY <2>1, <2>2
<1>5. Walk(field, n) = [m \in 1 .. Cardinality(steps) |-> at[m - 1]]
  BY DEF Walk
<1>6. Fits(at)
  <2> HIDE DEF Fits, g
  <2> QED BY <1>4
<1>7. at[0] = n /\ \A m \in Nat : m # 0 => at[m] = follow[at[m - 1]]
  <2> HIDE DEF at, follow
  <2> QED BY <1>6
<1> HIDE DEF at, follow, g
<1>8. ASSUME NEW M \in Nat PROVE at[M] = g[M]
  <2> DEFINE S == {m \in Nat : at[m] = g[m]}
  <2>1. 0 \in S
    BY <1>3, <1>7
  <2>2. ASSUME NEW m \in 0 .. M - 1, m \in S PROVE m + 1 \in S
    <3>1. m \in Nat /\ m + 1 \in Nat /\ m + 1 # 0 /\ (m + 1) - 1 = m
      OBVIOUS
    <3>2. at[m + 1] = follow[at[m]] /\ g[m + 1] = follow[g[m]]
      BY <1>2, <1>7, <3>1
    <3> QED BY <2>2, <3>1, <3>2
  <2> HIDE DEF S
  <2>3. \A m \in 0 .. M : m \in S
    BY <2>1, <2>2, UpTo
  <2> QED BY <2>3 DEF S
<1>9. \A m \in Nat : at[m] = At(s, m + 1)
  BY <1>8 DEF g
<1>10. steps = 0 .. L - 1
  <2>1. ASSUME NEW m \in 0 .. Cardinality(Nodes) PROVE at[m] # Null <=> m \in 0 .. L - 1
    <3>1. m \in Nat /\ at[m] = At(s, m + 1)
      BY <1>1, <1>9
    <3>2. CASE m + 1 \in 1 .. L
      BY <1>1, <3>1, <3>2
    <3>3. CASE m + 1 \notin 1 .. L
      BY <1>1, <3>1, <3>3 DEF At
    <3> QED BY <3>2, <3>3
  <2>2. 0 .. L - 1 \subseteq 0 .. Cardinality(Nodes)
    BY <1>1
  <2> QED BY <2>1, <2>2
<1>11. Cardinality(steps) = L
  <2>1. 0 \in Int /\ L - 1 \in Int
    BY <1>1
  <2>2. Cardinality(0 .. L - 1) = IF 0 > L - 1 THEN 0 ELSE (L - 1) - 0 + 1
    BY <2>1, FS_Interval
  <2>3. Cardinality(0 .. L - 1) = L
    BY <1>1, <2>2
  <2> HIDE DEF steps
  <2> QED BY <1>10, <2>3
<1> HIDE DEF steps
<1>12. ASSUME NEW m \in 1 .. L PROVE at[m - 1] = s[m]
  <2>1. m - 1 \in Nat /\ (m - 1) + 1 = m
    BY <1>1
  <2> QED BY <1>1, <1>9, <2>1
<1>13. Walk(field, n) = [m \in 1 .. L |-> s[m]]
  BY <1>5, <1>11, <1>12
<1>14. s = [m \in 1 .. L |-> s[m]]
  BY <1>1, LenProperties
<1> QED BY <1>13, <1>14

-----------------------------------------------------------------------------
\* The list.  c stands for a cache at any moment of a call.
Chains == 0 .. map_size - 1
Caches ==
    [size : Int, head : Pointers, tail : Pointers, map : [Chains -> Pointers],
     key : [Nodes -> Keys \cup {Null}], value : [Nodes -> Values \cup {Null}],
     prev : PointerFields, next : PointerFields, hnext : PointerFields, live : SUBSET Nodes]

Linked(c, s) ==
    /\ c.head = At(s, 1) /\ c.tail = At(s, Len(s))
    /\ \A i \in 1 .. Len(s) : c.next[s[i]] = At(s, i + 1) /\ c.prev[s[i]] = At(s, i - 1)

\* What the functions on the list leave alone, and what those on the chains do.
SameTable(c, d) ==
    /\ d.size = c.size /\ d.map = c.map /\ d.key = c.key /\ d.value = c.value
    /\ d.hnext = c.hnext /\ d.live = c.live
SameList(c, d) ==
    /\ d.size = c.size /\ d.head = c.head /\ d.tail = c.tail /\ d.prev = c.prev /\ d.next = c.next
    /\ d.key = c.key /\ d.value = c.value /\ d.live = c.live

LEMMA NullIsNoNode == Null \notin Nodes /\ Null \in Pointers /\ Nodes \subseteq Pointers
  BY LRUCacheAssumption DEF Pointers

\* removeNode by fields.
LEMMA removeNodeFields ==
    ASSUME NEW c \in Caches, NEW n \in Nodes
    PROVE  LET d == removeNode(c, n)
           IN  /\ d \in Caches /\ SameTable(c, d)
               /\ d.next = [m \in Nodes |-> IF m = c.prev[n] THEN c.next[n] ELSE c.next[m]]
               /\ d.prev = [m \in Nodes |-> IF m = c.next[n] THEN c.prev[n] ELSE c.prev[m]]
               /\ d.head = IF c.prev[n] = Null THEN c.next[n] ELSE c.head
               /\ d.tail = IF c.next[n] = Null THEN c.prev[n] ELSE c.tail
<1> DEFINE a == IF c.prev[n] # Null THEN [c EXCEPT !.next[c.prev[n]] = c.next[n]]
                ELSE [c EXCEPT !.head = c.next[n]]
           d == IF a.next[n] # Null THEN [a EXCEPT !.prev[a.next[n]] = a.prev[n]]
                ELSE [a EXCEPT !.tail = a.prev[n]]
<1>1. /\ c.prev[n] \in Pointers /\ c.next[n] \in Pointers
      /\ c.prev \in PointerFields /\ c.next \in PointerFields
  BY DEF Caches, PointerFields
<1>2. /\ a \in Caches /\ SameTable(c, a) /\ a.prev = c.prev /\ a.tail = c.tail
      /\ a.next = [m \in Nodes |-> IF m = c.prev[n] THEN c.next[n] ELSE c.next[m]]
      /\ a.head = IF c.prev[n] = Null THEN c.next[n] ELSE c.head
  <2>1. CASE c.prev[n] # Null
    BY <1>1, <2>1, NullIsNoNode DEF Caches, PointerFields, SameTable, Pointers
  <2>2. CASE c.prev[n] = Null
    BY <1>1, <2>2, NullIsNoNode DEF Caches, PointerFields, SameTable
  <2> QED BY <2>1, <2>2
<1> HIDE DEF a
<1>3. a.next[n] = c.next[n]
  BY <1>2
<1>4. /\ d \in Caches /\ SameTable(c, d) /\ d.next = a.next /\ d.head = a.head
      /\ d.prev = [m \in Nodes |-> IF m = c.next[n] THEN c.prev[n] ELSE c.prev[m]]
      /\ d.tail = IF c.next[n] = Null THEN c.prev[n] ELSE c.tail
  <2>1. CASE c.next[n] # Null
    BY <1>1, <1>2, <1>3, <2>1, NullIsNoNode DEF Caches, PointerFields, SameTable, Pointers
  <2>2. CASE c.next[n] = Null
    BY <1>1, <1>2, <1>3, <2>2, NullIsNoNode DEF Caches, PointerFields, SameTable
  <2> QED BY <2>1, <2>2
<1>5. d = removeNode(c, n)
  BY DEF removeNode, a
<1> HIDE DEF d
<1> QED BY <1>2, <1>4, <1>5

LEMMA DropAt ==
    ASSUME NEW s \in NodeSeqs, NEW i \in 1 .. Len(s), NEW j \in 0 .. Len(s)
    PROVE  At(Drop(s, i), j) = IF j < i THEN At(s, j) ELSE At(s, j + 1)
<1>1. /\ Len(s) \in Nat /\ Len(Drop(s, i)) = Len(s) - 1
      /\ \A k \in 1 .. Len(s) - 1 : Drop(s, i)[k] = IF k < i THEN s[k] ELSE s[k + 1]
  BY NodeSeqFacts, DropFacts
<1>2. CASE j \in 1 .. Len(s) - 1
  <2>1. j \in 1 .. Len(s) /\ j + 1 \in 1 .. Len(s)
    BY <1>1, <1>2
  <2> QED BY <1>1, <1>2, <2>1 DEF At
<1>3. CASE j = 0
  BY <1>1, <1>3 DEF At
<1>4. CASE j = Len(s)
  BY <1>1, <1>4 DEF At
<1> QED BY <1>1, <1>2, <1>3, <1>4

LEMMA AtIs ==
    ASSUME NEW s \in NodeSeqs, NEW i \in 1 .. Len(s), NEW j \in Int
    PROVE  /\ At(s, j) = s[i] <=> i = j
           /\ At(s, j) = Null <=> j \notin 1 .. Len(s)
<1>1. /\ \A k \in 1 .. Len(s) : s[k] # Null
      /\ \A k \in 1 .. Len(s) : s[k] = s[i] => k = i
  BY NodeSeqFacts
<1>2. CASE j \in 1 .. Len(s)
  BY <1>1, <1>2 DEF At
<1>3. CASE j \notin 1 .. Len(s)
  BY <1>1, <1>3 DEF At
<1> QED BY <1>2, <1>3

\* removeNode takes a node off the list.
LEMMA removeNodeUnlinks ==
    ASSUME NEW c \in Caches, NEW s \in NodeSeqs, Linked(c, s), NEW i \in 1 .. Len(s)
    PROVE  /\ removeNode(c, s[i]) \in Caches /\ SameTable(c, removeNode(c, s[i]))
           /\ Linked(removeNode(c, s[i]), Drop(s, i))
<1> DEFINE n == s[i]
           L == Len(s)
           t == Drop(s, i)
           d == removeNode(c, n)
<1>1. /\ L \in Nat /\ i \in 1 .. L /\ n \in Nodes
      /\ \A j \in 1 .. L : s[j] \in Nodes
      /\ t \in NodeSeqs /\ Len(t) = L - 1
      /\ \A j \in 1 .. L - 1 : t[j] = IF j < i THEN s[j] ELSE s[j + 1]
  BY NodeSeqFacts, DropFacts
<1>2. \A j \in 0 .. L : At(t, j) = IF j < i THEN At(s, j) ELSE At(s, j + 1)
  BY DropAt
<1>3. \A k \in 1 .. L, j \in Int : /\ At(s, j) = s[k] <=> k = j
                                   /\ At(s, j) = Null <=> j \notin 1 .. L
  BY AtIs
<1>4. c.next[n] = At(s, i + 1) /\ c.prev[n] = At(s, i - 1)
  BY DEF Linked
<1>5. /\ d \in Caches /\ SameTable(c, d)
      /\ d.next = [m \in Nodes |-> IF m = c.prev[n] THEN c.next[n] ELSE c.next[m]]
      /\ d.prev = [m \in Nodes |-> IF m = c.next[n] THEN c.prev[n] ELSE c.prev[m]]
      /\ d.head = IF c.prev[n] = Null THEN c.next[n] ELSE c.head
      /\ d.tail = IF c.next[n] = Null THEN c.prev[n] ELSE c.tail
  BY <1>1, removeNodeFields
<1> HIDE DEF d, t, n
<1>6. d.head = At(t, 1)
  <2>1. c.prev[n] = Null <=> i = 1
    BY <1>1, <1>3, <1>4
  <2> QED BY <1>1, <1>2, <1>4, <1>5, <2>1 DEF Linked
<1>7. d.tail = At(t, L - 1)
  <2>1. c.next[n] = Null <=> i = L
    BY <1>1, <1>3, <1>4
  <2>2. L - 1 \in 0 .. L
    BY <1>1
  <2>3. At(t, L - 1) = IF L - 1 < i THEN At(s, L - 1) ELSE At(s, L)
    BY <1>1, <1>2, <2>2
  <2> QED BY <1>1, <1>4, <1>5, <2>1, <2>3 DEF Linked
<1>8. ASSUME NEW j \in 1 .. L - 1
      PROVE  d.next[t[j]] = At(t, j + 1) /\ d.prev[t[j]] = At(t, j - 1)
  <2>1. /\ j \in 1 .. L /\ j + 1 \in 1 .. L /\ j + 1 \in 0 .. L /\ j - 1 \in 0 .. L
        /\ j \in Int /\ j - 1 \in Int /\ i - 1 \in Int /\ i + 1 \in Int
    BY <1>1
  <2>2. /\ At(t, j + 1) = IF j + 1 < i THEN At(s, j + 1) ELSE At(s, (j + 1) + 1)
        /\ At(t, j - 1) = IF j - 1 < i THEN At(s, j - 1) ELSE At(s, (j - 1) + 1)
    BY <1>2, <2>1
  <2>3. CASE j < i
    <3>1. t[j] = s[j] /\ s[j] \in Nodes
      BY <1>1, <2>1, <2>3
    <3>2. c.next[s[j]] = At(s, j + 1) /\ c.prev[s[j]] = At(s, j - 1)
      BY <2>1 DEF Linked
    <3>3. (s[j] = c.prev[n] <=> j = i - 1) /\ s[j] # c.next[n]
      BY <1>1, <1>3, <1>4, <2>1, <2>3
    <3>4. d.prev[s[j]] = At(s, j - 1)
      BY <1>5, <3>1, <3>2, <3>3
    <3>5. d.next[s[j]] = IF j = i - 1 THEN At(s, i + 1) ELSE At(s, j + 1)
      BY <1>4, <1>5, <3>1, <3>2, <3>3
    <3> QED BY <1>1, <2>1, <2>2, <2>3, <3>1, <3>4, <3>5
  <2>4. CASE ~(j < i)
    <3>1. t[j] = s[j + 1] /\ s[j + 1] \in Nodes
      BY <1>1, <2>1, <2>4
    <3>2. c.next[s[j + 1]] = At(s, (j + 1) + 1) /\ c.prev[s[j + 1]] = At(s, (j + 1) - 1)
      BY <2>1 DEF Linked
    <3>3. (s[j + 1] = c.next[n] <=> j + 1 = i + 1) /\ s[j + 1] # c.prev[n]
      BY <1>1, <1>3, <1>4, <2>1, <2>4
    <3>4. d.next[s[j + 1]] = At(s, (j + 1) + 1)
      BY <1>5, <3>1, <3>2, <3>3
    <3>5. d.prev[s[j + 1]] = IF j = i THEN At(s, i - 1) ELSE At(s, (j + 1) - 1)
      BY <1>1, <1>4, <1>5, <3>1, <3>2, <3>3
    <3>6. (j + 1) - 1 = j /\ (j - 1) + 1 = j /\ ~(j + 1 < i) /\ (j - 1 < i <=> j = i)
      BY <1>1, <2>4
    <3> QED BY <2>2, <3>1, <3>4, <3>5, <3>6
  <2> QED BY <2>3, <2>4
<1>9. Linked(d, t)
  BY <1>1, <1>6, <1>7, <1>8 DEF Linked
<1> QED BY <1>5, <1>9 DEF d, t, n

\* addToHead by fields.
LEMMA addToHeadFields ==
    ASSUME NEW c \in Caches, NEW n \in Nodes, n # c.head
    PROVE  LET d == addToHead(c, n)
           IN  /\ d \in Caches /\ SameTable(c, d)
               /\ d.next = [m \in Nodes |-> IF m = n THEN c.head ELSE c.next[m]]
               /\ d.prev = [m \in Nodes |-> IF m = c.head THEN n ELSE IF m = n THEN Null ELSE c.prev[m]]
               /\ d.head = n
               /\ d.tail = IF c.tail = Null THEN n ELSE c.tail
<1> DEFINE a == [c EXCEPT !.next[n] = c.head, !.prev[n] = Null]
           b == IF a.head # Null THEN [a EXCEPT !.prev[a.head] = n] ELSE a
           e == [b EXCEPT !.head = n]
           d == IF e.tail = Null THEN [e EXCEPT !.tail = n] ELSE e
<1>1. c.head \in Pointers /\ c.prev \in PointerFields /\ c.next \in PointerFields /\ n \in Pointers
  BY NullIsNoNode DEF Caches
<1>2. /\ a \in Caches /\ SameTable(c, a) /\ a.head = c.head /\ a.tail = c.tail
      /\ a.next = [m \in Nodes |-> IF m = n THEN c.head ELSE c.next[m]]
      /\ a.prev = [m \in Nodes |-> IF m = n THEN Null ELSE c.prev[m]]
  BY <1>1, NullIsNoNode DEF Caches, PointerFields, SameTable
<1> HIDE DEF a
<1>3. /\ b \in Caches /\ SameTable(c, b) /\ b.tail = c.tail /\ b.next = a.next
      /\ b.prev = [m \in Nodes |-> IF m = c.head THEN n ELSE IF m = n THEN Null ELSE c.prev[m]]
  <2>1. CASE c.head # Null
    BY <1>1, <1>2, <2>1, NullIsNoNode DEF Caches, PointerFields, SameTable, Pointers
  <2>2. CASE c.head = Null
    BY <1>1, <1>2, <2>2, NullIsNoNode DEF Caches, PointerFields, SameTable
  <2> QED BY <2>1, <2>2
<1> HIDE DEF b
<1>4. /\ e \in Caches /\ SameTable(c, e) /\ e.tail = c.tail /\ e.next = a.next /\ e.prev = b.prev
      /\ e.head = n
  BY <1>1, <1>3 DEF Caches, SameTable
<1> HIDE DEF e
<1>5. /\ d \in Caches /\ SameTable(c, d) /\ d.next = a.next /\ d.prev = b.prev /\ d.head = n
      /\ d.tail = IF c.tail = Null THEN n ELSE c.tail
  BY <1>1, <1>4 DEF Caches, SameTable
<1>6. d = addToHead(c, n)
  BY DEF addToHead, a, b, e
<1> HIDE DEF d
<1> QED BY <1>2, <1>3, <1>5, <1>6

\* addToHead puts a node in front of the list.
LEMMA addToHeadLinks ==
    ASSUME NEW c \in Caches, NEW s \in NodeSeqs, Linked(c, s), NEW n \in Nodes, n \notin On(s)
    PROVE  /\ addToHead(c, n) \in Caches /\ SameTable(c, addToHead(c, n))
           /\ Linked(addToHead(c, n), Push(n, s))
<1> DEFINE L == Len(s)
           t == Push(n, s)
           d == addToHead(c, n)
<1>1. /\ L \in Nat /\ n # Null
      /\ \A j \in 1 .. L : s[j] \in Nodes /\ s[j] # Null /\ s[j] # n /\ At(s, j) = s[j]
      /\ t \in NodeSeqs /\ Len(t) = L + 1
      /\ \A j \in 1 .. L + 1 : t[j] = IF j = 1 THEN n ELSE s[j - 1]
  BY NodeSeqFacts, PushFacts, NullIsNoNode DEF On
<1>2. \A j \in Int : At(t, j) = IF j = 1 THEN n ELSE At(s, j - 1)
  <2> SUFFICES ASSUME NEW j \in Int PROVE At(t, j) = IF j = 1 THEN n ELSE At(s, j - 1)
    OBVIOUS
  <2> HIDE DEF t
  <2> QED BY <1>1 DEF At
<1>3. c.head = At(s, 1) /\ c.tail = At(s, L)
  BY DEF Linked
<1>4. n # c.head
  BY <1>1, <1>3 DEF At
<1>5. /\ d \in Caches /\ SameTable(c, d)
      /\ d.next = [m \in Nodes |-> IF m = n THEN c.head ELSE c.next[m]]
      /\ d.prev = [m \in Nodes |-> IF m = c.head THEN n ELSE IF m = n THEN Null ELSE c.prev[m]]
      /\ d.head = n
      /\ d.tail = IF c.tail = Null THEN n ELSE c.tail
  BY <1>4, addToHeadFields
<1> HIDE DEF d, t
<1>6. d.head = At(t, 1)
  BY <1>2, <1>5
<1>7. d.tail = At(t, L + 1)
  <2>1. CASE L = 0
    BY <1>1, <1>2, <1>3, <1>5, <2>1 DEF At
  <2>2. CASE L # 0
    <3>1. L \in 1 .. L /\ c.tail = s[L] /\ c.tail # Null
      BY <1>1, <1>3, <2>2
    <3>2. At(t, L + 1) = At(s, L)
      BY <1>1, <1>2, <2>2
    <3> QED BY <1>3, <1>5, <3>1, <3>2
  <2> QED BY <2>1, <2>2
<1>8. ASSUME NEW j \in 1 .. L + 1
      PROVE  d.next[t[j]] = At(t, j + 1) /\ d.prev[t[j]] = At(t, j - 1)
  <2>1. CASE j = 1
    <3>1. At(t, 1 + 1) = At(s, 1) /\ At(t, 1 - 1) = At(s, 0 - 1)
      BY <1>2
    <3>2. At(s, 0 - 1) = Null
      BY <1>1 DEF At
    <3>3. t[j] = n
      BY <1>1, <2>1
    <3> QED BY <1>3, <1>4, <1>5, <2>1, <3>1, <3>2, <3>3
  <2>2. CASE j # 1
    <3>1. j - 1 \in 1 .. L /\ t[j] = s[j - 1] /\ j - 1 \in Int /\ j + 1 \in Int /\ 1 \in 1 .. L
      BY <1>1, <2>2
    <3>2. s[j - 1] \in Nodes /\ s[j - 1] # n /\ At(s, 1) = s[1]
      BY <1>1, <3>1
    <3>3. c.next[s[j - 1]] = At(s, (j - 1) + 1) /\ c.prev[s[j - 1]] = At(s, (j - 1) - 1)
      BY <3>1 DEF Linked
    <3>4. At(t, j + 1) = At(s, (j - 1) + 1) /\ At(t, j - 1) = IF j = 2 THEN n ELSE At(s, (j - 1) - 1)
      BY <1>2, <2>2, <3>1
    <3>5. s[j - 1] = c.head <=> j = 2
      <4>1. \A k, m \in 1 .. L : s[k] = s[m] => k = m
        BY NodeSeqFacts
      <4> QED BY <1>3, <3>1, <3>2, <4>1
    <3> QED BY <1>5, <3>1, <3>2, <3>3, <3>4, <3>5
  <2> QED BY <2>1, <2>2
<1>9. Linked(d, t)
  BY <1>1, <1>6, <1>7, <1>8 DEF Linked
<1> QED BY <1>5, <1>9 DEF d, t

-----------------------------------------------------------------------------
\* The chains of the hash table.
Chained(c, h, s) == IsWalk(c.hnext, c.map[h], s)

LEMMA HashType == \A k \in Keys : hash(k) \in Chains
<1> SUFFICES ASSUME NEW k \in Keys PROVE hash(k) \in Chains
  OBVIOUS
<1>1. k \in Nat /\ map_size \in Nat /\ map_size > 0
  BY LRUCacheAssumption
<1>2. k % map_size \in 0 .. map_size - 1
  BY <1>1
<1> QED BY <1>2 DEF hash, Chains

\* Where a key is on its chain.
LEMMA PlaceOfIs ==
    ASSUME IsFiniteSet(Nodes), NEW c \in Caches, NEW k \in Keys, NEW s \in NodeSeqs,
           Chained(c, hash(k), s),
           \A i, j \in 1 .. Len(s) : c.key[s[i]] = k /\ c.key[s[j]] = k => i = j
    PROVE  /\ Chain(c, hash(k)) = s
           /\ PlaceOf(c, k) \in 0 .. Len(s)
           /\ PlaceOf(c, k) = 0 => \A i \in 1 .. Len(s) : c.key[s[i]] # k
           /\ PlaceOf(c, k) # 0 => c.key[s[PlaceOf(c, k)]] = k
           /\ getNode(c, k) = At(s, PlaceOf(c, k))
<1> DEFINE places == {m \in DOMAIN s : c.key[s[m]] = k}
           First(m) == \A o \in places : m <= o
           p == PlaceOf(c, k)
<1>1. Chain(c, hash(k)) = s
  BY WalkIs DEF Chained, Chain, Caches
<1>2. DOMAIN s = 1 .. Len(s) /\ Len(s) \in Nat
  BY NodeSeqFacts
<1>3. p = IF places = {} THEN 0 ELSE CHOOSE m \in places : First(m)
  BY <1>1 DEF PlaceOf
<1>4. \A m, o \in places : m = o
  BY <1>2
<1>5. places # {} => p \in places
  <2> SUFFICES ASSUME places # {} PROVE p \in places
    OBVIOUS
  <2>1. \E m \in places : First(m)
    BY <1>2, <1>4
  <2>2. p = CHOOSE m \in places : First(m)
    BY <1>3
  <2> HIDE DEF places, First, p
  <2> QED BY <2>1, <2>2
<1>6. places = {} => p = 0
  BY <1>3
<1>7. getNode(c, k) = IF p = 0 THEN Null ELSE s[p]
  BY <1>1 DEF getNode
<1> HIDE DEF p
<1>8. /\ p \in 0 .. Len(s)
      /\ p = 0 => \A i \in 1 .. Len(s) : c.key[s[i]] # k
      /\ p # 0 => p \in 1 .. Len(s) /\ c.key[s[p]] = k
  BY <1>2, <1>5, <1>6
<1>9. getNode(c, k) = At(s, p)
  BY <1>2, <1>7, <1>8 DEF At
<1> QED BY <1>1, <1>8, <1>9 DEF p

\* removeFromMap takes a node off its chain and leaves the other chains alone.
LEMMA removeFromMapUnlinks ==
    ASSUME IsFiniteSet(Nodes), NEW c \in Caches, NEW k \in Keys, NEW s \in NodeSeqs,
           Chained(c, hash(k), s), NEW p \in 1 .. Len(s),
           Chain(c, hash(k)) = s, PlaceOf(c, k) = p
    PROVE  LET d == removeFromMap(c, k)
           IN  /\ d \in Caches /\ SameList(c, d)
               /\ Chained(d, hash(k), Drop(s, p))
               /\ \A h \in Chains, u \in NodeSeqs :
                      h # hash(k) /\ Chained(c, h, u) /\ On(u) \cap On(s) = {} => Chained(d, h, u)
<1> DEFINE L == Len(s)
           t == Drop(s, p)
           d == removeFromMap(c, k)
<1>1. /\ L \in Nat /\ p \in Nat /\ p >= 1
      /\ \A j \in 1 .. L : s[j] \in Nodes /\ s[j] # Null /\ At(s, j) = s[j]
      /\ \A i, j \in 1 .. L : s[i] = s[j] => i = j
      /\ \A j \in Int : At(s, j) \in Pointers
      /\ t \in NodeSeqs /\ Len(t) = L - 1
      /\ \A j \in 1 .. L - 1 : t[j] = IF j < p THEN s[j] ELSE s[j + 1]
  BY NodeSeqFacts, DropFacts
<1>2. /\ c.map[hash(k)] = At(s, 1) /\ \A i \in 1 .. L : c.hnext[s[i]] = At(s, i + 1)
      /\ hash(k) \in Chains
  BY HashType DEF Chained, IsWalk
<1>3. \A j \in 0 .. L : At(t, j) = IF j < p THEN At(s, j) ELSE At(s, j + 1)
  BY DropAt
<1>4. /\ d \in Caches /\ SameList(c, d)
      /\ d.map = [h \in Chains |-> IF p = 1 /\ h = hash(k) THEN At(s, 2) ELSE c.map[h]]
      /\ d.hnext = [m \in Nodes |-> IF p > 1 /\ m = s[p - 1] THEN At(s, p + 1) ELSE c.hnext[m]]
  <2>1. CASE p = 1
    <3>1. d = [c EXCEPT !.map[hash(k)] = At(s, 2)]
      BY <1>2, <2>1 DEF removeFromMap
    <3>2. At(s, 2) \in Pointers /\ hash(k) \in Chains
      BY <1>1, <1>2
    <3> HIDE DEF d
    <3> QED BY <2>1, <3>1, <3>2 DEF Caches, SameList, PointerFields
  <2>2. CASE p > 1
    <3>1. d = [c EXCEPT !.hnext[s[p - 1]] = At(s, p + 1)]
      BY <1>2, <2>2 DEF removeFromMap
    <3>2. At(s, p + 1) \in Pointers /\ s[p - 1] \in Nodes
      BY <1>1, <2>2
    <3> HIDE DEF d
    <3> QED BY <2>2, <3>1, <3>2 DEF Caches, SameList, PointerFields
  <2> QED BY <1>1, <2>1, <2>2
<1> HIDE DEF d, t
<1>5. d.map[hash(k)] = At(t, 1)
  BY <1>1, <1>2, <1>3, <1>4
<1>6. ASSUME NEW j \in 1 .. L - 1 PROVE d.hnext[t[j]] = At(t, j + 1)
  <2>1. j \in 1 .. L /\ j + 1 \in 1 .. L /\ j + 1 \in 0 .. L
    BY <1>1
  <2>2. At(t, j + 1) = IF j + 1 < p THEN At(s, j + 1) ELSE At(s, (j + 1) + 1)
    BY <1>3, <2>1
  <2>3. CASE j < p
    <3>1. t[j] = s[j] /\ s[j] \in Nodes /\ c.hnext[s[j]] = At(s, j + 1)
      BY <1>1, <1>2, <2>1, <2>3
    <3>2. p > 1 /\ p - 1 \in 1 .. L /\ (s[j] = s[p - 1] <=> j = p - 1)
      BY <1>1, <2>1, <2>3
    <3>3. d.hnext[s[j]] = IF j = p - 1 THEN At(s, p + 1) ELSE At(s, j + 1)
      BY <1>4, <3>1, <3>2
    <3> QED BY <1>1, <2>1, <2>2, <2>3, <3>1, <3>3
  <2>4. CASE ~(j < p)
    <3>1. t[j] = s[j + 1] /\ s[j + 1] \in Nodes /\ c.hnext[s[j + 1]] = At(s, (j + 1) + 1)
      BY <1>1, <1>2, <2>1, <2>4
    <3>2. p > 1 => s[j + 1] # s[p - 1]
      BY <1>1, <2>1, <2>4
    <3>3. d.hnext[s[j + 1]] = At(s, (j + 1) + 1)
      BY <1>4, <3>1, <3>2
    <3> QED BY <1>1, <2>2, <2>4, <3>1, <3>3
  <2> QED BY <2>3, <2>4
<1>7. Chained(d, hash(k), t)
  BY <1>1, <1>5, <1>6 DEF Chained, IsWalk
<1>8. ASSUME NEW h \in Chains, NEW u \in NodeSeqs, h # hash(k), Chained(c, h, u), On(u) \cap On(s) = {}
      PROVE  Chained(d, h, u)
  <2>1. d.map[h] = At(u, 1)
    BY <1>4, <1>8 DEF Chained, IsWalk
  <2>2. ASSUME NEW i \in 1 .. Len(u) PROVE d.hnext[u[i]] = At(u, i + 1)
    <3>1. u[i] \in Nodes /\ u[i] \in On(u)
      BY NodeSeqFacts DEF On
    <3>2. p > 1 => s[p - 1] \in On(s)
      BY <1>1 DEF On
    <3>3. c.hnext[u[i]] = At(u, i + 1)
      BY <1>8 DEF Chained, IsWalk
    <3> QED BY <1>4, <1>8, <3>1, <3>2, <3>3
  <2> QED BY <2>1, <2>2 DEF Chained, IsWalk
<1> QED BY <1>4, <1>7, <1>8 DEF d, t

\* putNode puts a node in front of its chain and leaves the others alone.
LEMMA putNodeLinks ==
    ASSUME NEW c \in Caches, NEW n \in Nodes, c.key[n] \in Keys, NEW s \in NodeSeqs,
           Chained(c, hash(c.key[n]), s), n \notin On(s)
    PROVE  LET d == putNode(c, n)
           IN  /\ d \in Caches /\ SameList(c, d)
               /\ Chained(d, hash(c.key[n]), Push(n, s))
               /\ \A h \in Chains, u \in NodeSeqs :
                      h # hash(c.key[n]) /\ Chained(c, h, u) /\ n \notin On(u) => Chained(d, h, u)
<1> DEFINE k == c.key[n]
           t == Push(n, s)
           d == putNode(c, n)
           L == Len(s)
<1>1. /\ L \in Nat /\ hash(k) \in Chains
      /\ \A j \in 1 .. L : s[j] \in Nodes /\ s[j] # n
      /\ t \in NodeSeqs /\ Len(t) = L + 1
      /\ \A j \in 1 .. L + 1 : t[j] = IF j = 1 THEN n ELSE s[j - 1]
      /\ At(s, 1) \in Pointers
  BY NodeSeqFacts, PushFacts, HashType DEF On
<1>2. \A j \in Int : At(t, j) = IF j = 1 THEN n ELSE At(s, j - 1)
  <2> SUFFICES ASSUME NEW j \in Int PROVE At(t, j) = IF j = 1 THEN n ELSE At(s, j - 1)
    OBVIOUS
  <2> HIDE DEF t
  <2> QED BY <1>1 DEF At
<1>3. /\ c.map[hash(k)] = At(s, 1) /\ \A i \in 1 .. L : c.hnext[s[i]] = At(s, i + 1)
  BY DEF Chained, IsWalk
<1>4. /\ d \in Caches /\ SameList(c, d)
      /\ d.map = [h \in Chains |-> IF h = hash(k) THEN n ELSE c.map[h]]
      /\ d.hnext = [m \in Nodes |-> IF m = n THEN At(s, 1) ELSE c.hnext[m]]
  <2>1. d = [c EXCEPT !.hnext[n] = At(s, 1), !.map[hash(k)] = n]
    BY <1>3 DEF putNode
  <2> HIDE DEF d, k
  <2> QED BY <1>1, <2>1, NullIsNoNode DEF Caches, SameList, PointerFields
<1> HIDE DEF d, t, k
<1>5. d.map[hash(k)] = At(t, 1)
  BY <1>1, <1>2, <1>4
<1>6. ASSUME NEW j \in 1 .. L + 1 PROVE d.hnext[t[j]] = At(t, j + 1)
  <2>1. CASE j = 1
    BY <1>1, <1>2, <1>4, <2>1
  <2>2. CASE j # 1
    <3>1. j - 1 \in 1 .. L /\ t[j] = s[j - 1] /\ j + 1 \in Int /\ (j + 1) - 1 = (j - 1) + 1 /\ j + 1 # 1
      BY <1>1, <2>2
    <3>2. d.hnext[s[j - 1]] = At(s, (j - 1) + 1)
      BY <1>1, <1>3, <1>4, <3>1
    <3> QED BY <1>2, <3>1, <3>2
  <2> QED BY <2>1, <2>2
<1>7. Chained(d, hash(k), t)
  BY <1>1, <1>5, <1>6 DEF Chained, IsWalk
<1>8. ASSUME NEW h \in Chains, NEW u \in NodeSeqs, h # hash(k), Chained(c, h, u), n \notin On(u)
      PROVE  Chained(d, h, u)
  <2>1. \A i \in 1 .. Len(u) : u[i] \in Nodes /\ u[i] # n
    BY <1>8, NodeSeqFacts DEF On
  <2> QED BY <1>4, <1>8, <2>1 DEF Chained, IsWalk
<1> QED BY <1>4, <1>7, <1>8 DEF d, t, k

-----------------------------------------------------------------------------
\* A cache between two calls: s is its list, chains are those of the table.  All
\* that is allocated is on the list and on the chain of its key, and keys differ.
Keyed(c) ==
    /\ \A n \in c.live : c.key[n] \in Keys /\ c.value[n] \in Values
    /\ \A n, m \in c.live : c.key[n] = c.key[m] => n = m
Tabled(c, chains) ==
    \A h \in Chains : /\ Chained(c, h, chains[h])
                      /\ On(chains[h]) = {n \in c.live : hash(c.key[n]) = h}
ChainSeqs == [Chains -> NodeSeqs]
Good(c, s, chains) ==
    /\ c \in Caches /\ Linked(c, s) /\ On(s) = c.live /\ Len(s) = c.size
    /\ Keyed(c) /\ Tabled(c, chains)

LEMMA LinkedFrame ==
    ASSUME NEW c, NEW d, NEW s \in NodeSeqs, Linked(c, s), d.head = c.head, d.tail = c.tail,
           \A m \in On(s) : d.next[m] = c.next[m] /\ d.prev[m] = c.prev[m]
    PROVE  Linked(d, s)
<1>1. \A i \in 1 .. Len(s) : s[i] \in On(s)
  BY DEF On
<1> QED BY <1>1 DEF Linked

LEMMA ChainedFrame ==
    ASSUME NEW c, NEW d, NEW h \in Chains, NEW s \in NodeSeqs, Chained(c, h, s),
           d.map[h] = c.map[h], \A m \in On(s) : d.hnext[m] = c.hnext[m]
    PROVE  Chained(d, h, s)
<1>1. \A i \in 1 .. Len(s) : s[i] \in On(s)
  BY DEF On
<1> QED BY <1>1 DEF Chained, IsWalk

\* getNode finds the node of a key, wherever it is on the list.
Finds(c, chains, k) ==
    /\ getNode(c, k) = Null => \A n \in c.live : c.key[n] # k
    /\ getNode(c, k) # Null => /\ getNode(c, k) \in c.live
                               /\ c.key[getNode(c, k)] = k
                               /\ PlaceOf(c, k) \in 1 .. Len(chains[hash(k)])
                               /\ chains[hash(k)][PlaceOf(c, k)] = getNode(c, k)
    /\ Chain(c, hash(k)) = chains[hash(k)]

LEMMA getNodeFinds ==
    ASSUME IsFiniteSet(Nodes), NEW c, NEW s \in NodeSeqs, NEW chains \in ChainSeqs,
           Good(c, s, chains), NEW k \in Keys
    PROVE  Finds(c, chains, k)
<1> USE DEF Finds
<1> DEFINE u == chains[hash(k)]
<1>1. /\ hash(k) \in Chains /\ u \in NodeSeqs /\ c \in Caches
      /\ Chained(c, hash(k), u) /\ On(u) = {n \in c.live : hash(c.key[n]) = hash(k)}
  BY HashType DEF Good, Tabled, ChainSeqs
<1>2. /\ \A i \in 1 .. Len(u) : u[i] \in c.live /\ At(u, i) = u[i] /\ u[i] # Null
      /\ \A i, j \in 1 .. Len(u) : u[i] = u[j] => i = j
      /\ Len(u) \in Nat
  BY <1>1, NodeSeqFacts DEF On
<1>3. \A i, j \in 1 .. Len(u) : c.key[u[i]] = k /\ c.key[u[j]] = k => i = j
  BY <1>2 DEF Good, Keyed
<1>4. /\ Chain(c, hash(k)) = u
      /\ PlaceOf(c, k) \in 0 .. Len(u)
      /\ PlaceOf(c, k) = 0 => \A i \in 1 .. Len(u) : c.key[u[i]] # k
      /\ PlaceOf(c, k) # 0 => c.key[u[PlaceOf(c, k)]] = k
      /\ getNode(c, k) = At(u, PlaceOf(c, k))
  BY <1>1, <1>3, PlaceOfIs
<1> HIDE DEF u
<1>5. CASE PlaceOf(c, k) = 0
  <2>1. getNode(c, k) = Null
    BY <1>4, <1>5 DEF At
  <2>2. ASSUME NEW n \in c.live, c.key[n] = k PROVE FALSE
    <3>1. n \in On(u)
      BY <1>1, <2>2
    <3>2. PICK i \in 1 .. Len(u) : n = u[i]
      BY <3>1 DEF On
    <3> QED BY <1>4, <1>5, <2>2, <3>2
  <2> QED BY <1>4, <2>1, <2>2 DEF u
<1>6. CASE PlaceOf(c, k) # 0
  <2>1. PlaceOf(c, k) \in 1 .. Len(u)
    BY <1>2, <1>4, <1>6
  <2>2. getNode(c, k) = u[PlaceOf(c, k)] /\ getNode(c, k) # Null
    BY <1>2, <1>4, <2>1
  <2> QED BY <1>2, <1>4, <1>6, <2>1, <2>2 DEF u
<1> QED BY <1>5, <1>6

\* A use of a node takes it to the front.
LEMMA UseIsGood ==
    ASSUME NEW c, NEW s \in NodeSeqs, NEW chains \in ChainSeqs, Good(c, s, chains), NEW i \in 1 .. Len(s)
    PROVE  LET d == addToHead(removeNode(c, s[i]), s[i])
           IN  /\ Good(d, Push(s[i], Drop(s, i)), chains)
               /\ Push(s[i], Drop(s, i)) \in NodeSeqs
               /\ SameTable(c, d)
<1> DEFINE n == s[i]
           a == removeNode(c, n)
           d == addToHead(a, n)
           t == Drop(s, i)
           r == Push(n, t)
<1>1. n \in Nodes /\ n \in On(s) /\ Len(s) \in Nat
  BY NodeSeqFacts DEF On
<1>2. a \in Caches /\ SameTable(c, a) /\ Linked(a, t)
  BY removeNodeUnlinks DEF Good
<1>3. t \in NodeSeqs /\ Len(t) = Len(s) - 1 /\ On(t) = On(s) \ {n}
  BY DropFacts
<1> HIDE DEF a, t
<1>4. d \in Caches /\ SameTable(a, d) /\ Linked(d, r)
  BY <1>1, <1>2, <1>3, addToHeadLinks
<1>5. r \in NodeSeqs /\ Len(r) = Len(t) + 1 /\ On(r) = On(t) \cup {n}
  BY <1>1, <1>3, PushFacts
<1> HIDE DEF d, r
<1>6. SameTable(c, d)
  BY <1>2, <1>4 DEF SameTable
<1>7. On(r) = d.live /\ Len(r) = d.size
  BY <1>1, <1>3, <1>5, <1>6 DEF Good, SameTable
<1>8. Keyed(d) /\ Tabled(d, chains)
  BY <1>6 DEF Good, SameTable, Keyed, Tabled, Chained
<1> HIDE DEF n
<1>9. Good(d, r, chains)
  BY <1>4, <1>7, <1>8 DEF Good
<1> QED BY <1>5, <1>6, <1>9 DEF d, a, r, t, n

\* A new value for a node of the list.
LEMMA ValueIsGood ==
    ASSUME NEW c, NEW s \in NodeSeqs, NEW chains \in ChainSeqs, Good(c, s, chains),
           NEW n \in Nodes, NEW v \in Values
    PROVE  LET d == [c EXCEPT !.value[n] = v]
           IN  /\ Good(d, s, chains)
               /\ d.key = c.key /\ d.value = [c.value EXCEPT ![n] = v] /\ d.live = c.live
<1> DEFINE d == [c EXCEPT !.value[n] = v]
<1>1. /\ d \in Caches /\ d.value = [c.value EXCEPT ![n] = v]
      /\ d.key = c.key /\ d.live = c.live /\ d.size = c.size /\ d.head = c.head /\ d.tail = c.tail
      /\ d.next = c.next /\ d.prev = c.prev /\ d.map = c.map /\ d.hnext = c.hnext
  BY DEF Good, Caches
<1>2. c.value \in [Nodes -> Values \cup {Null}] /\ c.live \subseteq Nodes
  BY DEF Good, Caches
<1> HIDE DEF d
<1>3. Linked(d, s)
  BY <1>1 DEF Good, Linked
<1>4. Keyed(d)
  BY <1>1, <1>2 DEF Good, Keyed
<1>5. Tabled(d, chains)
  BY <1>1 DEF Good, Tabled, Chained
<1>6. Good(d, s, chains)
  BY <1>1, <1>3, <1>4, <1>5 DEF Good
<1> QED BY <1>1, <1>6 DEF d

\* Eviction takes the last node off the list, its chain and the heap.
LEMMA EvictIsGood ==
    ASSUME IsFiniteSet(Nodes), NEW c, NEW s \in NodeSeqs, NEW chains \in ChainSeqs,
           Good(c, s, chains), Len(s) # 0
    PROVE  /\ Drop(s, Len(s)) \in NodeSeqs
           /\ \E after \in ChainSeqs : Good(Evict(c), Drop(s, Len(s)), after)
           /\ \A m \in Evict(c).live : /\ m \in c.live
                                       /\ Evict(c).key[m] = c.key[m] /\ Evict(c).value[m] = c.value[m]
           /\ Evict(c).size = c.size - 1
<1> DEFINE L == Len(s)
           n == s[L]
           t == Drop(s, L)
           k == c.key[n]
           u == chains[hash(k)]
           p == PlaceOf(c, k)
           a == removeNode(c, n)
           b == removeFromMap(a, k)
           r == Release(b, n)
           d == [r EXCEPT !.size = @ - 1]
           after == [chains EXCEPT ![hash(k)] = Drop(u, p)]
<1>1. L \in Nat /\ L \in 1 .. L /\ n \in Nodes /\ n # Null /\ n \in On(s) /\ At(s, L) = n
  BY NodeSeqFacts DEF On
<1>2. /\ c \in Caches /\ c.tail = n /\ n \in c.live /\ k \in Keys /\ c.size \in Int /\ L = c.size
      /\ \A m \in c.live : c.key[m] = k => m = n
  BY <1>1 DEF Good, Linked, Keyed, Caches
<1>3. a \in Caches /\ SameTable(c, a) /\ Linked(a, t)
  BY <1>1, removeNodeUnlinks DEF Good
<1>4. t \in NodeSeqs /\ Len(t) = L - 1 /\ On(t) = On(s) \ {n}
  BY <1>1, DropFacts
<1>5. Good(c, s, chains) /\ getNode(c, k) = n /\ p \in 1 .. Len(u) /\ u[p] = n /\ Chain(c, hash(k)) = u
  <2> HIDE DEF k, n, p, u
  <2>1. Finds(c, chains, k)
    BY <1>2, getNodeFinds
  <2>2. c.key[n] = k
    BY DEF k
  <2> QED BY <1>2, <2>1, <2>2 DEF p, u, Finds
<1>6. /\ Chain(a, hash(k)) = u /\ PlaceOf(a, k) = p
      /\ \A h \in Chains : Chained(a, h, chains[h])
  <2>1. a.hnext = c.hnext /\ a.map = c.map /\ a.key = c.key
    BY <1>3 DEF SameTable
  <2>2. Chain(a, hash(k)) = Chain(c, hash(k))
    BY <2>1 DEF Chain
  <2>3. PlaceOf(a, k) = PlaceOf(c, k)
    <3> HIDE DEF a, k
    <3> QED BY <2>1, <2>2 DEF PlaceOf
  <2>4. \A h \in Chains : Chained(a, h, chains[h])
    BY <2>1 DEF Good, Tabled, Chained
  <2> QED BY <1>5, <2>2, <2>3, <2>4
<1>7. /\ hash(k) \in Chains /\ u \in NodeSeqs
      /\ \A h \in Chains : /\ chains[h] \in NodeSeqs
                           /\ On(chains[h]) = {m \in c.live : hash(c.key[m]) = h}
  BY <1>2, HashType DEF Good, Tabled, ChainSeqs
<1> HIDE DEF a, t, k, u, p, n
<1>8. /\ b \in Caches /\ SameList(a, b)
      /\ Chained(b, hash(k), Drop(u, p))
      /\ \A h \in Chains, w \in NodeSeqs :
             h # hash(k) /\ Chained(a, h, w) /\ On(w) \cap On(u) = {} => Chained(b, h, w)
  <2>1. Chained(a, hash(k), u)
    BY <1>6, <1>7 DEF u
  <2>2. /\ a \in Caches /\ k \in Keys /\ u \in NodeSeqs /\ p \in 1 .. Len(u)
        /\ Chain(a, hash(k)) = u /\ PlaceOf(a, k) = p
    BY <1>2, <1>3, <1>5, <1>6, <1>7
  <2>3. /\ removeFromMap(a, k) \in Caches /\ SameList(a, removeFromMap(a, k))
        /\ Chained(removeFromMap(a, k), hash(k), Drop(u, p))
        /\ \A h \in Chains, w \in NodeSeqs :
               h # hash(k) /\ Chained(a, h, w) /\ On(w) \cap On(u) = {}
                   => Chained(removeFromMap(a, k), h, w)
    BY <2>1, <2>2, removeFromMapUnlinks
  <2> QED BY <2>3 DEF b
<1>9. Drop(u, p) \in NodeSeqs /\ On(Drop(u, p)) = On(u) \ {n}
  BY <1>5, <1>7, DropFacts
<1> HIDE DEF b
<1>10. after \in ChainSeqs
  BY <1>7, <1>9 DEF ChainSeqs
<1>11. \A h \in Chains : /\ Chained(b, h, after[h])
                         /\ after[h] \in NodeSeqs
                         /\ On(after[h]) = {m \in c.live \ {n} : hash(c.key[m]) = h}
  <2> SUFFICES ASSUME NEW h \in Chains
               PROVE  /\ Chained(b, h, after[h])
                      /\ after[h] \in NodeSeqs
                      /\ On(after[h]) = {m \in c.live \ {n} : hash(c.key[m]) = h}
    OBVIOUS
  <2>1. CASE h = hash(k)
    <3>1. after[h] = Drop(u, p)
      BY <1>7, <2>1 DEF ChainSeqs
    <3>2. On(u) = {m \in c.live : hash(c.key[m]) = h}
      BY <1>7, <2>1 DEF u
    <3> QED BY <1>8, <1>9, <2>1, <3>1, <3>2
  <2>2. CASE h # hash(k)
    <3>1. after[h] = chains[h]
      BY <2>2 DEF ChainSeqs
    <3>2. c.key[n] = k
      BY DEF k
    <3>3. On(chains[h]) \cap On(u) = {}
      BY <1>7, <2>2 DEF u
    <3>4. Chained(b, h, chains[h])
      BY <1>6, <1>7, <1>8, <2>2, <3>3
    <3> QED BY <1>7, <2>2, <3>1, <3>2, <3>4
  <2> QED BY <2>1, <2>2
<1> HIDE DEF after
<1>12. SameList(a, b) /\ SameTable(c, a) /\ b.key = c.key /\ b.value = c.value /\ b.live = c.live /\ b.size = c.size
  BY <1>3, <1>8 DEF SameList, SameTable
<1>13. /\ d \in Caches /\ d.live = c.live \ {n} /\ d.size = c.size - 1
       /\ d.head = b.head /\ d.tail = b.tail /\ d.map = b.map
       /\ \A m \in Nodes : m # n => /\ d.key[m] = c.key[m] /\ d.value[m] = c.value[m]
                                    /\ d.prev[m] = b.prev[m] /\ d.next[m] = b.next[m]
                                    /\ d.hnext[m] = b.hnext[m]
  <2>1. /\ r \in Caches /\ r.live = b.live \ {n} /\ r.size = b.size
        /\ r.head = b.head /\ r.tail = b.tail /\ r.map = b.map
        /\ \A m \in Nodes : m # n => /\ r.key[m] = b.key[m] /\ r.value[m] = b.value[m]
                                     /\ r.prev[m] = b.prev[m] /\ r.next[m] = b.next[m]
                                     /\ r.hnext[m] = b.hnext[m]
    BY <1>8, NullIsNoNode DEF Release, Caches, PointerFields
  <2> HIDE DEF r
  <2>2. /\ d \in Caches /\ d.size = r.size - 1
        /\ d.live = r.live /\ d.head = r.head /\ d.tail = r.tail /\ d.map = r.map
        /\ d.key = r.key /\ d.value = r.value /\ d.prev = r.prev /\ d.next = r.next /\ d.hnext = r.hnext
    BY <2>1 DEF Caches
  <2> HIDE DEF d
  <2> QED BY <1>12, <2>1, <2>2
<1> HIDE DEF r, d
<1>14. Linked(d, t)
  <2>1. Linked(b, t)
    BY <1>3, <1>8 DEF SameList, Linked
  <2>2. \A m \in On(t) : m \in Nodes /\ m # n
    BY <1>4, NodeSeqFacts
  <2> QED BY <1>4, <1>13, <2>1, <2>2, LinkedFrame
<1>15. On(t) = d.live /\ Len(t) = d.size
  BY <1>2, <1>4, <1>13 DEF Good
<1>16. c.live \subseteq Nodes
  BY <1>2 DEF Caches
<1>17. Keyed(d)
  BY <1>13, <1>16 DEF Good, Keyed
<1>18. Tabled(d, after)
  <2> SUFFICES ASSUME NEW h \in Chains
               PROVE  Chained(d, h, after[h]) /\ On(after[h]) = {m \in d.live : hash(d.key[m]) = h}
    BY DEF Tabled
  <2>1. On(after[h]) = {m \in d.live : hash(d.key[m]) = h}
    BY <1>11, <1>13, <1>16
  <2>2. \A m \in On(after[h]) : d.hnext[m] = b.hnext[m]
    BY <1>11, <1>13, <1>16
  <2>3. Chained(d, h, after[h])
    BY <1>11, <1>13, <2>2, ChainedFrame
  <2> QED BY <2>1, <2>3
<1>19. Good(d, t, after)
  BY <1>13, <1>14, <1>15, <1>17, <1>18 DEF Good
<1>20. Evict(c) = d
  BY <1>2 DEF Evict, a, b, r, d, k
<1> QED BY <1>4, <1>10, <1>13, <1>16, <1>19, <1>20 DEF t

\* An insertion puts a new node in front of the list and of its chain.
Inserted(c, n, k, v) == [putNode(addToHead(createNode(c, n, k, v), n), n) EXCEPT !.size = @ + 1]

LEMMA InsertIsGood ==
    ASSUME NEW c, NEW s \in NodeSeqs, NEW chains \in ChainSeqs, Good(c, s, chains),
           NEW n \in Nodes \ c.live, NEW k \in Keys, NEW v \in Values,
           \A m \in c.live : c.key[m] # k
    PROVE  /\ Push(n, s) \in NodeSeqs
           /\ \E after \in ChainSeqs : Good(Inserted(c, n, k, v), Push(n, s), after)
           /\ LET d == Inserted(c, n, k, v)
              IN  /\ d.size = c.size + 1
                  /\ d.key[n] = k /\ d.value[n] = v
                  /\ \A m \in c.live : d.key[m] = c.key[m] /\ d.value[m] = c.value[m]
<1> DEFINE t == Push(n, s)
           u == chains[hash(k)]
           a == createNode(c, n, k, v)
           b == addToHead(a, n)
           e == putNode(b, n)
           d == [e EXCEPT !.size = @ + 1]
           after == [chains EXCEPT ![hash(k)] = Push(n, u)]
<1>1. c \in Caches /\ n \in Nodes /\ n \notin c.live /\ c.live \subseteq Nodes /\ On(s) = c.live
  BY DEF Good, Caches
<1>2. /\ hash(k) \in Chains /\ u \in NodeSeqs
      /\ \A h \in Chains : /\ chains[h] \in NodeSeqs /\ Chained(c, h, chains[h])
                           /\ On(chains[h]) = {m \in c.live : hash(c.key[m]) = h}
  BY HashType DEF Good, Tabled, ChainSeqs
<1>3. /\ a \in Caches /\ a.live = c.live \cup {n} /\ a.size = c.size
      /\ a.head = c.head /\ a.tail = c.tail /\ a.map = c.map
      /\ a.key[n] = k /\ a.value[n] = v
      /\ \A m \in Nodes : m # n => /\ a.key[m] = c.key[m] /\ a.value[m] = c.value[m]
                                   /\ a.prev[m] = c.prev[m] /\ a.next[m] = c.next[m]
                                   /\ a.hnext[m] = c.hnext[m]
  BY <1>1, NullIsNoNode DEF createNode, Caches, PointerFields
<1> HIDE DEF a, u
<1>4. Linked(a, s)
  <2>1. \A m \in On(s) : a.next[m] = c.next[m] /\ a.prev[m] = c.prev[m]
    BY <1>1, <1>3
  <2> QED BY <1>3, <2>1, LinkedFrame DEF Good
<1>5. \A h \in Chains : Chained(a, h, chains[h]) /\ n \notin On(chains[h])
  <2> SUFFICES ASSUME NEW h \in Chains PROVE Chained(a, h, chains[h]) /\ n \notin On(chains[h])
    OBVIOUS
  <2>1. \A m \in On(chains[h]) : a.hnext[m] = c.hnext[m]
    BY <1>1, <1>2, <1>3
  <2>2. n \notin On(chains[h])
    BY <1>1, <1>2
  <2>3. chains[h] \in NodeSeqs /\ Chained(c, h, chains[h]) /\ a.map[h] = c.map[h]
    BY <1>2, <1>3
  <2>4. Chained(a, h, chains[h])
    BY <2>1, <2>3, ChainedFrame
  <2> QED BY <2>2, <2>4
<1>6. b \in Caches /\ SameTable(a, b) /\ Linked(b, t)
  BY <1>1, <1>3, <1>4, addToHeadLinks
<1>7. t \in NodeSeqs /\ Len(t) = Len(s) + 1 /\ On(t) = On(s) \cup {n}
  BY <1>1, PushFacts
<1> HIDE DEF b, t
<1>8. b.key[n] = k /\ \A h \in Chains : Chained(b, h, chains[h])
  BY <1>3, <1>5, <1>6 DEF SameTable, Chained
<1>9. /\ e \in Caches /\ SameList(b, e) /\ Chained(e, hash(k), Push(n, u))
      /\ \A h \in Chains, w \in NodeSeqs :
             h # hash(k) /\ Chained(b, h, w) /\ n \notin On(w) => Chained(e, h, w)
  <2>1. Chained(b, hash(b.key[n]), u) /\ n \notin On(u) /\ b.key[n] \in Keys
    BY <1>2, <1>5, <1>8 DEF u
  <2>2. /\ putNode(b, n) \in Caches /\ SameList(b, putNode(b, n))
        /\ Chained(putNode(b, n), hash(b.key[n]), Push(n, u))
        /\ \A h \in Chains, w \in NodeSeqs :
               h # hash(b.key[n]) /\ Chained(b, h, w) /\ n \notin On(w)
                   => Chained(putNode(b, n), h, w)
    BY <1>1, <1>2, <1>6, <2>1, putNodeLinks
  <2> QED BY <1>8, <2>2
<1>10. Push(n, u) \in NodeSeqs /\ On(Push(n, u)) = On(u) \cup {n}
  <2>1. n \notin On(u)
    BY <1>2, <1>5 DEF u
  <2> QED BY <1>1, <1>2, <2>1, PushFacts
<1> HIDE DEF e
<1>11. /\ d \in Caches /\ d.size = c.size + 1 /\ d.live = c.live \cup {n}
       /\ d.key[n] = k /\ d.value[n] = v
       /\ \A m \in Nodes : m # n => d.key[m] = c.key[m] /\ d.value[m] = c.value[m]
       /\ d.head = b.head /\ d.tail = b.tail /\ d.next = b.next /\ d.prev = b.prev
       /\ d.map = e.map /\ d.hnext = e.hnext
  <2>1. /\ d \in Caches /\ d.size = e.size + 1 /\ d.live = e.live
        /\ d.key = e.key /\ d.value = e.value
        /\ d.head = e.head /\ d.tail = e.tail /\ d.next = e.next /\ d.prev = e.prev
        /\ d.map = e.map /\ d.hnext = e.hnext
    BY <1>9 DEF Caches
  <2>2. /\ e.size = a.size /\ e.live = a.live /\ e.key = a.key /\ e.value = a.value
        /\ e.head = b.head /\ e.tail = b.tail /\ e.next = b.next /\ e.prev = b.prev
    BY <1>6, <1>9 DEF SameList, SameTable
  <2> HIDE DEF d
  <2> QED BY <1>3, <2>1, <2>2
<1>12. d = Inserted(c, n, k, v)
  BY DEF Inserted, d, e, b, a
<1> HIDE DEF d
<1>13. after \in ChainSeqs
  BY <1>2, <1>10 DEF ChainSeqs
<1>14. Linked(d, t)
  BY <1>6, <1>11 DEF Linked
<1>15. On(t) = d.live /\ Len(t) = d.size
  BY <1>7, <1>11 DEF Good
<1>16. Keyed(d)
  <2>1. \A m \in c.live : /\ m # n /\ d.key[m] = c.key[m] /\ d.value[m] = c.value[m]
                          /\ c.key[m] \in Keys /\ c.value[m] \in Values /\ c.key[m] # k
    BY <1>1, <1>11 DEF Good, Keyed
  <2>2. \A m, o \in c.live : c.key[m] = c.key[o] => m = o
    BY DEF Good, Keyed
  <2> QED BY <1>11, <2>1, <2>2 DEF Keyed
<1>17. Tabled(d, after)
  <2> SUFFICES ASSUME NEW h \in Chains
               PROVE  Chained(d, h, after[h]) /\ On(after[h]) = {m \in d.live : hash(d.key[m]) = h}
    BY DEF Tabled
  <2>1. \A m \in c.live : m # n /\ d.key[m] = c.key[m]
    BY <1>1, <1>11
  <2>2. CASE h = hash(k)
    <3>1. after[h] = Push(n, u) /\ On(u) = {m \in c.live : hash(c.key[m]) = h}
      BY <1>2, <2>2 DEF ChainSeqs, u
    <3>2. Chained(d, h, after[h])
      BY <1>9, <1>11, <2>2, <3>1 DEF Chained
    <3> QED BY <1>10, <1>11, <2>1, <2>2, <3>1, <3>2
  <2>3. CASE h # hash(k)
    <3>1. after[h] = chains[h]
      BY <2>3 DEF ChainSeqs
    <3>2. Chained(e, h, chains[h])
      BY <1>2, <1>5, <1>8, <1>9, <2>3
    <3>3. Chained(d, h, after[h])
      BY <1>11, <3>1, <3>2 DEF Chained
    <3> QED BY <1>2, <1>11, <2>1, <2>3, <3>1, <3>3
  <2> QED BY <2>2, <2>3
<1>18. Good(d, t, after)
  BY <1>11, <1>14, <1>15, <1>16, <1>17 DEF Good
<1> HIDE DEF after
<1>19. \A m \in c.live : d.key[m] = c.key[m] /\ d.value[m] = c.value[m]
  BY <1>1, <1>11
<1> QED BY <1>7, <1>11, <1>12, <1>13, <1>18, <1>19 DEF t

-----------------------------------------------------------------------------
\* The invariant: between two calls the cache is good, and it is never too large.
GoodCache == \E s \in NodeSeqs, chains \in ChainSeqs : Good(cache, s, chains)
CacheInv ==
    /\ cache \in Caches /\ cache.size \in 0 .. capacity
    /\ result \in Values \cup {Null} /\ freed \in BOOLEAN
    /\ freed => cache.live = {}
    /\ ~freed => GoodCache

\* What Walk finds in a good cache.
LEMMA WalksOfGood ==
    ASSUME IsFiniteSet(Nodes), NEW c, NEW s \in NodeSeqs, NEW chains \in ChainSeqs, Good(c, s, chains)
    PROVE  /\ Walk(c.next, c.head) = s
           /\ Walk(c.prev, c.tail) = Reverse(s)
           /\ \A h \in Chains : Chain(c, h) = chains[h]
<1>1. c \in Caches /\ c.next \in PointerFields /\ c.prev \in PointerFields /\ c.hnext \in PointerFields
  BY DEF Good, Caches
<1>2. Walk(c.next, c.head) = s
  <2>1. IsWalk(c.next, c.head, s)
    BY DEF Good, Linked, IsWalk
  <2> QED BY <1>1, <2>1, WalkIs
<1>3. Walk(c.prev, c.tail) = Reverse(s)
  <2> DEFINE r == Reverse(s)
             L == Len(s)
  <2>1. /\ L \in Nat
        /\ \A i \in 1 .. L : s[i] \in Nodes /\ At(s, i) = s[i]
        /\ \A i, j \in 1 .. L : s[i] = s[j] => i = j
        /\ At(s, 0) = Null
    BY NodeSeqFacts
  <2>2. \A i \in 1 .. L : r[i] = s[(L - i) + 1] /\ (L - i) + 1 \in 1 .. L
    BY <2>1 DEF Reverse
  <2>3. r \in [1 .. L -> Nodes]
    BY <2>1, <2>2 DEF Reverse
  <2>4. r \in Seq(Nodes) /\ Len(r) = L
    BY <2>1, <2>3, FunctionIsSeq
  <2> HIDE DEF r
  <2>5. r \in NodeSeqs
    <3>1. ASSUME NEW i \in 1 .. L, NEW j \in 1 .. L, r[i] = r[j] PROVE i = j
      <4>1. (L - i) + 1 = (L - j) + 1
        BY <2>1, <2>2, <3>1
      <4> QED BY <2>1, <4>1
    <3> QED BY <2>4, <3>1 DEF NodeSeqs
  <2>6. \A i \in 1 .. L + 1 : At(r, i) = At(s, (L - i) + 1)
    <3> SUFFICES ASSUME NEW i \in 1 .. L + 1 PROVE At(r, i) = At(s, (L - i) + 1)
      OBVIOUS
    <3>1. CASE i \in 1 .. L
      BY <2>1, <2>2, <2>4, <3>1 DEF At
    <3>2. CASE i = L + 1
      <4>1. (L - i) + 1 = 0 /\ i \notin 1 .. L
        BY <2>1, <3>2
      <4> QED BY <2>1, <2>4, <4>1 DEF At
    <3> QED BY <2>1, <3>1, <3>2
  <2>7. c.tail = At(r, 1)
    <3>1. 1 \in 1 .. L + 1 /\ (L - 1) + 1 = L
      BY <2>1
    <3> QED BY <2>6, <3>1 DEF Good, Linked
  <2>8. ASSUME NEW i \in 1 .. L PROVE c.prev[r[i]] = At(r, i + 1)
    <3>1. (L - i) + 1 \in 1 .. L /\ i + 1 \in 1 .. L + 1 /\ (L - (i + 1)) + 1 = ((L - i) + 1) - 1
      BY <2>1
    <3>2. c.prev[s[(L - i) + 1]] = At(s, ((L - i) + 1) - 1)
      BY <3>1 DEF Good, Linked
    <3>3. At(r, i + 1) = At(s, (L - (i + 1)) + 1)
      BY <2>6, <3>1
    <3> QED BY <2>2, <3>1, <3>2, <3>3
  <2>9. IsWalk(c.prev, c.tail, r)
    BY <2>4, <2>7, <2>8 DEF IsWalk
  <2> QED BY <1>1, <2>5, <2>9, WalkIs DEF r
<1>4. ASSUME NEW h \in Chains PROVE Chain(c, h) = chains[h]
  <2>1. IsWalk(c.hnext, c.map[h], chains[h]) /\ chains[h] \in NodeSeqs
    BY DEF Good, Tabled, Chained, ChainSeqs
  <2> QED BY <1>1, <2>1, WalkIs DEF Chain
<1> QED BY <1>2, <1>3, <1>4

LEMMA AgreeFromInv == ASSUME IsFiniteSet(Nodes), CacheInv PROVE StructuresAgree
<1>1. TypeOK
  BY DEF CacheInv, Caches, PointerFields, TypeOK, Chains
<1>2. ASSUME ~freed
      PROVE  /\ Len(List) = cache.size /\ ToSet(List) = cache.live /\ IsInjective(List)
             /\ Walk(cache.prev, cache.tail) = Reverse(List)
             /\ \A h \in DOMAIN cache.map :
                   /\ IsInjective(Chain(cache, h))
                   /\ ToSet(Chain(cache, h)) = {n \in cache.live : hash(cache.key[n]) = h}
  <2>1. PICK s \in NodeSeqs, chains \in ChainSeqs : Good(cache, s, chains)
    BY <1>2 DEF CacheInv, GoodCache
  <2>2. /\ List = s /\ Walk(cache.prev, cache.tail) = Reverse(s)
        /\ \A h \in Chains : Chain(cache, h) = chains[h]
    BY <2>1, WalksOfGood DEF List
  <2>3. \A r \in NodeSeqs : IsInjective(r) /\ ToSet(r) = On(r)
    BY NodeSeqFacts DEF IsInjective, ToSet, On
  <2>4. DOMAIN cache.map = Chains
    BY DEF CacheInv, Caches
  <2>5. ASSUME NEW h \in Chains
        PROVE  chains[h] \in NodeSeqs /\ On(chains[h]) = {n \in cache.live : hash(cache.key[n]) = h}
    BY <2>1 DEF Good, Tabled, ChainSeqs
  <2>6. Len(s) = cache.size /\ On(s) = cache.live
    BY <2>1 DEF Good
  <2> QED BY <2>2, <2>3, <2>4, <2>5, <2>6
<1> QED BY <1>1, <1>2 DEF StructuresAgree, CacheInv

LEMMA InitCacheInv == Init => CacheInv
<1> SUFFICES ASSUME Init PROVE CacheInv
  OBVIOUS
<1>1. cache \in Caches /\ cache.size = 0 /\ cache.live = {} /\ freed = FALSE /\ result = Null
  BY NullIsNoNode DEF Init, Caches, PointerFields, Chains
<1>2. <<>> \in NodeSeqs /\ Len(<<>>) = 0 /\ On(<<>>) = {} /\ \A i : At(<<>>, i) = Null
  BY EmptySeq DEF NodeSeqs, On, At
<1> DEFINE chains == [h \in Chains |-> <<>>]
<1>3. chains \in ChainSeqs
  BY <1>2 DEF ChainSeqs
<1>4. Linked(cache, <<>>)
  BY <1>2 DEF Init, Linked
<1>5. Keyed(cache)
  BY <1>1 DEF Keyed
<1>6. Tabled(cache, chains)
  BY <1>1, <1>2 DEF Init, Tabled, Chained, IsWalk, Chains
<1> HIDE DEF chains
<1>7. Good(cache, <<>>, chains)
  BY <1>1, <1>2, <1>4, <1>5, <1>6 DEF Good
<1>8. GoodCache
  BY <1>2, <1>3, <1>7 DEF GoodCache
<1>9. cache.size \in 0 .. capacity
  BY <1>1, LRUCacheAssumption
<1> QED BY <1>1, <1>8, <1>9 DEF CacheInv

-----------------------------------------------------------------------------
\* The entries of LruStore: those of the nodes of the list.
EntryType == [key : Keys \cup {Null}, value : Values \cup {Null}]
EntryOf(c, n) == [key |-> c.key[n], value |-> c.value[n]]
EntriesOf(c, s) == [m \in 1 .. Len(s) |-> EntryOf(c, s[m])]
Cut(e, i) == SubSeq(e, 1, i - 1) \o SubSeq(e, i + 1, Len(e))

LEMMA EntriesFacts ==
    ASSUME NEW c \in Caches, NEW s \in NodeSeqs
    PROVE  /\ EntriesOf(c, s) \in Seq(EntryType) /\ Len(EntriesOf(c, s)) = Len(s)
           /\ DOMAIN EntriesOf(c, s) = 1 .. Len(s)
           /\ \A n \in Nodes : EntryOf(c, n) \in EntryType
<1>1. \A n \in Nodes : EntryOf(c, n) \in EntryType
  BY DEF Caches, EntryOf, EntryType
<1>2. EntriesOf(c, s) \in [1 .. Len(s) -> EntryType] /\ Len(s) \in Nat
  BY <1>1, NodeSeqFacts DEF EntriesOf
<1>3. EntriesOf(c, s) \in Seq(EntryType) /\ Len(EntriesOf(c, s)) = Len(s)
  BY <1>2, FunctionIsSeq
<1> QED BY <1>1, <1>2, <1>3

\* e without its i-th entry, and x in front of a sequence.
LEMMA CutFacts ==
    ASSUME NEW X, NEW e \in Seq(X), NEW i \in 1 .. Len(e)
    PROVE  /\ Cut(e, i) \in Seq(X) /\ Len(Cut(e, i)) = Len(e) - 1
           /\ \A j \in 1 .. Len(e) - 1 : Cut(e, i)[j] = IF j < i THEN e[j] ELSE e[j + 1]
<1> DEFINE L == Len(e)
           front == SubSeq(e, 1, i - 1)
           back == SubSeq(e, i + 1, L)
           r == front \o back
<1>1. L \in Nat /\ i \in 1 .. L /\ \A m \in 1 .. L : e[m] \in X
  BY LenProperties, ElementOfSeq
<1>2. /\ front \in Seq(X) /\ Len(front) = i - 1
      /\ \A m \in 1 .. i - 1 : front[m] = e[m]
  <2>1. \A m \in 1 .. i - 1 : e[m] \in X /\ 1 + m - 1 = m
    BY <1>1
  <2>2. /\ SubSeq(e, 1, i - 1) \in Seq(X)
        /\ Len(SubSeq(e, 1, i - 1)) = IF 1 <= i - 1 THEN (i - 1) - 1 + 1 ELSE 0
        /\ \A m \in 1 .. (i - 1) - 1 + 1 : SubSeq(e, 1, i - 1)[m] = e[1 + m - 1]
    BY <1>1, <2>1, SubSeqProperties
  <2> QED BY <1>1, <2>1, <2>2
<1>3. /\ back \in Seq(X) /\ Len(back) = L - i
      /\ \A m \in 1 .. L - i : back[m] = e[i + m]
  <2>1. \A m \in i + 1 .. L : e[m] \in X
    BY <1>1
  <2>2. /\ SubSeq(e, i + 1, L) \in Seq(X)
        /\ Len(SubSeq(e, i + 1, L)) = IF i + 1 <= L THEN L - (i + 1) + 1 ELSE 0
        /\ \A m \in 1 .. L - (i + 1) + 1 : SubSeq(e, i + 1, L)[m] = e[(i + 1) + m - 1]
    BY <1>1, <2>1, SubSeqProperties
  <2>3. \A m \in 1 .. L - i : (i + 1) + m - 1 = i + m
    BY <1>1
  <2> QED BY <1>1, <2>2, <2>3
<1> HIDE DEF front, back
<1>4. /\ r \in Seq(X) /\ Len(r) = L - 1
      /\ \A m \in 1 .. L - 1 : r[m] = IF m <= i - 1 THEN front[m] ELSE back[m - (i - 1)]
  <2>1. /\ front \o back \in Seq(X) /\ Len(front \o back) = Len(front) + Len(back)
        /\ \A m \in 1 .. Len(front) + Len(back) :
               (front \o back)[m] = IF m <= Len(front) THEN front[m] ELSE back[m - Len(front)]
    BY <1>2, <1>3, ConcatProperties
  <2>2. Len(front) + Len(back) = L - 1
    BY <1>1, <1>2, <1>3
  <2> QED BY <1>2, <2>1, <2>2
<1> HIDE DEF r
<1>5. ASSUME NEW j \in 1 .. L - 1 PROVE r[j] = IF j < i THEN e[j] ELSE e[j + 1]
  <2>1. CASE j < i
    BY SMTT(60), <1>1, <1>2, <1>4, <2>1
  <2>2. CASE ~(j < i)
    <3>1. j - (i - 1) \in 1 .. L - i /\ i + (j - (i - 1)) = j + 1 /\ ~(j <= i - 1)
      BY <1>1, <2>2
    <3> QED BY <1>3, <1>4, <2>2, <3>1
  <2> QED BY <2>1, <2>2
<1> QED BY <1>4, <1>5 DEF r, front, back, Cut

LEMMA FrontFacts ==
    ASSUME NEW X, NEW e \in Seq(X), NEW x \in X
    PROVE  /\ <<x>> \o e \in Seq(X) /\ Len(<<x>> \o e) = Len(e) + 1
           /\ \A j \in 1 .. Len(e) + 1 : (<<x>> \o e)[j] = IF j = 1 THEN x ELSE e[j - 1]
<1>1. <<x>> \in Seq(X) /\ Len(<<x>>) = 1 /\ <<x>>[1] = x
  OBVIOUS
<1>2. /\ <<x>> \o e \in Seq(X) /\ Len(<<x>> \o e) = Len(<<x>>) + Len(e)
      /\ \A j \in 1 .. Len(<<x>>) + Len(e) :
             (<<x>> \o e)[j] = IF j <= Len(<<x>>) THEN <<x>>[j] ELSE e[j - Len(<<x>>)]
  BY <1>1, ConcatProperties
<1>3. Len(e) \in Nat
  BY LenProperties
<1> QED BY <1>1, <1>2, <1>3

\* A node in front of the list is an entry in front of the entries.
LEMMA EntriesPushed ==
    ASSUME NEW c \in Caches, NEW d \in Caches, NEW s \in NodeSeqs, NEW n \in Nodes, n \notin On(s),
           \A m \in On(s) : d.key[m] = c.key[m] /\ d.value[m] = c.value[m]
    PROVE  EntriesOf(d, Push(n, s)) = <<EntryOf(d, n)>> \o EntriesOf(c, s)
<1> DEFINE p == Push(n, s)
           e == EntriesOf(c, s)
           x == EntryOf(d, n)
           a == EntriesOf(d, p)
           b == <<x>> \o e
<1>1. /\ p \in NodeSeqs /\ Len(p) = Len(s) + 1 /\ Len(s) \in Nat
      /\ \A j \in 1 .. Len(s) + 1 : p[j] = IF j = 1 THEN n ELSE s[j - 1]
      /\ \A j \in 1 .. Len(s) : s[j] \in On(s)
  BY PushFacts, NodeSeqFacts DEF On
<1> HIDE DEF p
<1>2. e \in Seq(EntryType) /\ Len(e) = Len(s) /\ x \in EntryType
  BY EntriesFacts
<1>3. a \in Seq(EntryType) /\ Len(a) = Len(s) + 1
  BY <1>1, EntriesFacts
<1>4. /\ b \in Seq(EntryType) /\ Len(b) = Len(s) + 1
      /\ \A j \in 1 .. Len(s) + 1 : b[j] = IF j = 1 THEN x ELSE e[j - 1]
  <2> HIDE DEF e, x
  <2> QED BY <1>2, FrontFacts
<1>5. ASSUME NEW j \in 1 .. Len(s) + 1 PROVE a[j] = b[j]
  <2>1. a[j] = EntryOf(d, p[j])
    BY <1>1 DEF EntriesOf
  <2>2. CASE j = 1
    BY <1>1, <1>4, <2>1, <2>2
  <2>3. CASE j # 1
    <3>1. j - 1 \in 1 .. Len(s) /\ p[j] = s[j - 1] /\ s[j - 1] \in On(s)
      BY <1>1, <2>3
    <3>2. e[j - 1] = EntryOf(c, s[j - 1])
      BY <3>1 DEF EntriesOf
    <3>3. EntryOf(d, s[j - 1]) = EntryOf(c, s[j - 1])
      BY <3>1 DEF EntryOf
    <3> QED BY <1>4, <2>1, <2>3, <3>1, <3>2, <3>3
  <2> QED BY <2>2, <2>3
<1> HIDE DEF a, b
<1>6. a = b
  BY <1>3, <1>4, <1>5, SeqEqual
<1> QED BY <1>6 DEF a, b, e, x, p

\* A node off the list is an entry less.
LEMMA EntriesDropped ==
    ASSUME NEW c \in Caches, NEW s \in NodeSeqs, NEW i \in 1 .. Len(s)
    PROVE  EntriesOf(c, Drop(s, i)) = Cut(EntriesOf(c, s), i)
<1> DEFINE t == Drop(s, i)
           e == EntriesOf(c, s)
           a == EntriesOf(c, t)
           b == Cut(e, i)
<1>1. /\ t \in NodeSeqs /\ Len(t) = Len(s) - 1 /\ Len(s) \in Nat
      /\ \A j \in 1 .. Len(s) - 1 : t[j] = IF j < i THEN s[j] ELSE s[j + 1]
  BY DropFacts, NodeSeqFacts
<1> HIDE DEF t
<1>2. e \in Seq(EntryType) /\ Len(e) = Len(s)
  BY EntriesFacts
<1>3. a \in Seq(EntryType) /\ Len(a) = Len(s) - 1
  BY <1>1, EntriesFacts
<1>4. /\ b \in Seq(EntryType) /\ Len(b) = Len(s) - 1
      /\ \A j \in 1 .. Len(s) - 1 : b[j] = IF j < i THEN e[j] ELSE e[j + 1]
  <2> HIDE DEF e
  <2> QED BY <1>2, CutFacts
<1>5. ASSUME NEW j \in 1 .. Len(s) - 1 PROVE a[j] = b[j]
  <2>1. a[j] = EntryOf(c, t[j])
    BY <1>1 DEF EntriesOf
  <2>2. j \in 1 .. Len(s) /\ j + 1 \in 1 .. Len(s)
    BY <1>1
  <2>3. e[j] = EntryOf(c, s[j]) /\ e[j + 1] = EntryOf(c, s[j + 1])
    BY <2>2 DEF EntriesOf
  <2> QED BY <1>1, <1>4, <2>1, <2>3
<1> HIDE DEF a, b
<1>6. a = b
  BY <1>3, <1>4, <1>5, SeqEqual
<1> QED BY <1>6 DEF a, b, e, t

LEMMA EntriesIs ==
    ASSUME IsFiniteSet(Nodes), NEW s \in NodeSeqs, NEW chains \in ChainSeqs
    PROVE  /\ Good(cache, s, chains) /\ ~freed => Entries = EntriesOf(cache, s)
           /\ Good(cache', s, chains) /\ ~freed' => Entries' = EntriesOf(cache', s)
<1>1. DOMAIN s = 1 .. Len(s)
  BY NodeSeqFacts
<1>2. ASSUME Good(cache, s, chains), ~freed PROVE Entries = EntriesOf(cache, s)
  <2>1. List = s
    BY <1>2, WalksOfGood DEF List
  <2> QED BY <1>1, <1>2, <2>1 DEF Entries, EntriesOf, EntryOf
<1>3. ASSUME Good(cache', s, chains), ~freed' PROVE Entries' = EntriesOf(cache', s)
  <2>1. Walk(cache'.next, cache'.head) = s
    BY <1>3, WalksOfGood
  <2>2. List' = s
    BY <2>1 DEF List
  <2> QED BY <1>1, <1>3, <2>2 DEF Entries, EntriesOf, EntryOf
<1> QED BY <1>2, <1>3

\* Whether LruStore has a key, and where.
LEMMA EntryAt ==
    ASSUME NEW c, NEW s \in NodeSeqs, NEW chains \in ChainSeqs, Good(c, s, chains)
    PROVE  /\ \A n \in c.live : \E i \in 1 .. Len(s) : n = s[i]
           /\ \A i \in 1 .. Len(s) : /\ s[i] \in c.live /\ s[i] \in Nodes
                                     /\ EntriesOf(c, s)[i] = EntryOf(c, s[i])
           /\ DOMAIN EntriesOf(c, s) = 1 .. Len(s)
<1>1. On(s) = c.live
  BY DEF Good
<1> QED BY <1>1, NodeSeqFacts DEF On, EntriesOf

\* The steps of LruStore, by what they do to the entries e.
HitOn(e, f, k, r) == \E m \in DOMAIN e : e[m].key = k /\ r = e[m].value /\ f = <<e[m]>> \o Cut(e, m)
ChangeOn(e, f, k, v) ==
    \E m \in DOMAIN e : e[m].key = k /\ f = <<Store!Entry(k, v)>> \o Cut(e, m)
AddOn(e, f, k, v) ==
    /\ \A m \in DOMAIN e : e[m].key # k
    /\ f = <<Store!Entry(k, v)>> \o IF Len(e) < capacity THEN e ELSE Cut(e, Len(e))

LEMMA UseStep ==
    ASSUME IsFiniteSet(Nodes), CacheInv, ~freed, freed' = freed,
           NEW s \in NodeSeqs, NEW chains \in ChainSeqs, NEW c, Good(c, s, chains),
           NEW i \in 1 .. Len(s), c.size = cache.size,
           cache' = addToHead(removeNode(c, s[i]), s[i]), result' \in Values \cup {Null}
    PROVE  CacheInv' /\ Entries' = <<EntryOf(c, s[i])>> \o Cut(EntriesOf(c, s), i)
<1> DEFINE n == s[i]
           t == Drop(s, i)
           r == Push(n, t)
<1>1. Good(cache', r, chains) /\ r \in NodeSeqs /\ SameTable(c, cache')
  BY UseIsGood
<1>2. n \in Nodes /\ c \in Caches /\ cache' \in Caches
  BY <1>1, NodeSeqFacts DEF Good
<1>3. t \in NodeSeqs /\ n \notin On(t)
  BY DropFacts
<1>4. EntriesOf(c, t) = Cut(EntriesOf(c, s), i)
  BY <1>2, EntriesDropped
<1>5. cache'.key = c.key /\ cache'.value = c.value /\ cache'.size = c.size
  BY <1>1 DEF SameTable
<1> HIDE DEF t, n
<1>6. EntriesOf(cache', r) = <<EntryOf(cache', n)>> \o EntriesOf(c, t)
  BY <1>2, <1>3, <1>5, EntriesPushed
<1>7. EntryOf(cache', n) = EntryOf(c, n)
  BY <1>5 DEF EntryOf
<1> HIDE DEF r
<1>8. Entries' = EntriesOf(cache', r)
  BY <1>1, EntriesIs
<1>9. GoodCache'
  BY <1>1 DEF GoodCache
<1>10. CacheInv'
  <2>1. cache'.size \in 0 .. capacity /\ freed' \in BOOLEAN /\ ~freed'
    BY <1>5 DEF CacheInv
  <2> QED BY <1>2, <1>9, <2>1 DEF CacheInv
<1> QED BY <1>4, <1>6, <1>7, <1>8, <1>10 DEF n

LEMMA GetStep ==
    ASSUME IsFiniteSet(Nodes), CacheInv, NEW k \in Keys, lRUCacheGet(k)
    PROVE  /\ CacheInv'
           /\ \/ HitOn(Entries, Entries', k, result')
              \/ /\ \A m \in DOMAIN Entries : Entries[m].key # k
                 /\ result' = Null /\ Entries' = Entries
<1> DEFINE n == getNode(cache, k)
<1>1. /\ ~freed /\ ~freed' /\ freed' = freed
      /\ n = Null => result' = Null /\ cache' = cache
      /\ n # Null => result' = cache.value[n] /\ cache' = addToHead(removeNode(cache, n), n)
  BY DEF lRUCacheGet
<1>2. PICK s \in NodeSeqs, chains \in ChainSeqs : Good(cache, s, chains)
  BY <1>1 DEF CacheInv, GoodCache
<1>3. Finds(cache, chains, k)
  BY <1>2, getNodeFinds
<1> HIDE DEF n
<1>4. /\ \A o \in cache.live : \E i \in 1 .. Len(s) : o = s[i]
      /\ \A i \in 1 .. Len(s) : /\ s[i] \in cache.live /\ s[i] \in Nodes
                                /\ EntriesOf(cache, s)[i] = EntryOf(cache, s[i])
      /\ DOMAIN EntriesOf(cache, s) = 1 .. Len(s)
  BY <1>2, EntryAt
<1>5. Entries = EntriesOf(cache, s)
  BY <1>1, <1>2, EntriesIs
<1>6. CASE n = Null
  <2>1. \A m \in DOMAIN Entries : Entries[m].key # k
    BY <1>3, <1>4, <1>5, <1>6 DEF Finds, n, EntryOf
  <2>2. Entries' = Entries
    BY <1>1, <1>6 DEF Entries, List
  <2>3. CacheInv'
    BY <1>1, <1>6 DEF CacheInv, GoodCache
  <2> QED BY <1>1, <1>6, <2>1, <2>2, <2>3
<1>7. CASE n # Null
  <2>1. n \in cache.live /\ cache.key[n] = k
    BY <1>3, <1>7 DEF Finds, n
  <2>2. PICK i \in 1 .. Len(s) : n = s[i]
    BY <1>4, <2>1
  <2>3. cache.value[n] \in Values
    BY <1>2, <2>1 DEF Good, Keyed
  <2>4. CacheInv' /\ Entries' = <<EntryOf(cache, n)>> \o Cut(Entries, i)
    BY <1>1, <1>2, <1>5, <1>7, <2>2, <2>3, UseStep
  <2>5. /\ i \in DOMAIN Entries /\ Entries[i] = EntryOf(cache, n)
        /\ EntryOf(cache, n).key = k /\ EntryOf(cache, n).value = cache.value[n]
    BY <1>4, <1>5, <2>1, <2>2 DEF EntryOf
  <2>6. HitOn(Entries, Entries', k, result')
    BY <1>1, <1>7, <2>4, <2>5 DEF HitOn
  <2> QED BY <2>4, <2>6
<1> QED BY <1>6, <1>7

LEMMA UpdateStep ==
    ASSUME IsFiniteSet(Nodes), CacheInv, NEW k \in Keys, NEW v \in Values, Update(k, v)
    PROVE  CacheInv' /\ result' = Null /\ ChangeOn(Entries, Entries', k, v)
<1> DEFINE n == getNode(cache, k)
           c == [cache EXCEPT !.value[n] = v]
<1>1. /\ ~freed /\ ~freed' /\ freed' = freed /\ n # Null /\ result' = Null
      /\ cache' = addToHead(removeNode(c, n), n)
  BY DEF Update
<1>2. PICK s \in NodeSeqs, chains \in ChainSeqs : Good(cache, s, chains)
  BY <1>1 DEF CacheInv, GoodCache
<1>3. Finds(cache, chains, k)
  BY <1>2, getNodeFinds
<1>4. n \in cache.live /\ cache.key[n] = k
  BY <1>1, <1>3 DEF Finds
<1>5. n \in Nodes /\ cache \in Caches
  BY <1>2, <1>4 DEF Good, Caches
<1> HIDE DEF n
<1>6. /\ \A o \in cache.live : \E i \in 1 .. Len(s) : o = s[i]
      /\ \A i \in 1 .. Len(s) : EntriesOf(cache, s)[i] = EntryOf(cache, s[i])
      /\ DOMAIN EntriesOf(cache, s) = 1 .. Len(s)
  BY <1>2, EntryAt
<1>7. PICK i \in 1 .. Len(s) : n = s[i]
  BY <1>4, <1>6
<1>8. /\ Good(c, s, chains)
      /\ c.key = cache.key /\ c.value = [cache.value EXCEPT ![n] = v] /\ c.live = cache.live
  BY <1>2, <1>5, ValueIsGood
<1>9. c.size = cache.size
  BY <1>5 DEF Caches
<1> HIDE DEF c
<1>10. c \in Caches
  BY <1>8 DEF Good
<1>11. CacheInv' /\ Entries' = <<EntryOf(c, n)>> \o Cut(EntriesOf(c, s), i)
  BY <1>1, <1>7, <1>8, <1>9, UseStep
<1>12. Entries = EntriesOf(cache, s)
  BY <1>1, <1>2, EntriesIs
<1>13. EntryOf(c, n) = Store!Entry(k, v)
  BY <1>4, <1>5, <1>8 DEF EntryOf, Store!Entry, Caches
<1>14. Cut(EntriesOf(c, s), i) = Cut(EntriesOf(cache, s), i)
  <2> DEFINE t == Drop(s, i)
  <2>1. t \in NodeSeqs /\ On(t) = On(s) \ {n}
    BY <1>7, DropFacts
  <2>2. EntriesOf(c, t) = Cut(EntriesOf(c, s), i) /\ EntriesOf(cache, t) = Cut(EntriesOf(cache, s), i)
    BY <1>5, <1>10, EntriesDropped
  <2> HIDE DEF t
  <2>3. \A j \in 1 .. Len(t) : t[j] \in Nodes /\ t[j] # n
    BY <2>1, NodeSeqFacts DEF On
  <2>4. \A j \in 1 .. Len(t) : EntryOf(c, t[j]) = EntryOf(cache, t[j])
    BY <1>5, <1>8, <2>3 DEF EntryOf, Caches
  <2>5. EntriesOf(c, t) = EntriesOf(cache, t)
    BY <2>4 DEF EntriesOf
  <2> QED BY <2>2, <2>5
<1>15. i \in DOMAIN Entries /\ Entries[i].key = k
  <2>1. i \in DOMAIN Entries /\ Entries[i] = EntryOf(cache, n)
    BY <1>6, <1>7, <1>12
  <2>2. EntryOf(cache, n).key = k
    BY <1>4 DEF EntryOf
  <2> QED BY <2>1, <2>2
<1> QED BY <1>1, <1>11, <1>12, <1>13, <1>14, <1>15 DEF ChangeOn

\* What an insertion finds when it allocates: no node with the key, room for one
\* more, and the entries that stay.
LEMMA MakeRoomStep ==
    ASSUME IsFiniteSet(Nodes), CacheInv, ~freed, NEW s \in NodeSeqs, NEW chains \in ChainSeqs,
           Good(cache, s, chains)
    PROVE  \E t \in NodeSeqs, after \in ChainSeqs :
              LET c == MakeRoom(cache) IN
              /\ Good(c, t, after) /\ c.size \in 0 .. capacity - 1
              /\ \A m \in c.live : m \in cache.live /\ c.key[m] = cache.key[m]
              /\ EntriesOf(c, t) = IF Len(Entries) < capacity THEN Entries
                                   ELSE Cut(Entries, Len(Entries))
<1> DEFINE c == MakeRoom(cache)
           t == Drop(s, Len(s))
<1>1. Entries = EntriesOf(cache, s) /\ cache \in Caches
  BY EntriesIs DEF Good
<1>2. /\ Len(s) = cache.size /\ cache.size \in 0 .. capacity /\ Len(Entries) = Len(s)
      /\ capacity \in Nat \ {0}
  BY <1>1, EntriesFacts, LRUCacheAssumption DEF Good, CacheInv
<1>3. CASE cache.size = capacity
  <2>1. c = Evict(cache) /\ Len(s) # 0 /\ Len(s) \in 1 .. Len(s)
    BY <1>2, <1>3 DEF MakeRoom
  <2>2. /\ t \in NodeSeqs
        /\ \E after \in ChainSeqs : Good(Evict(cache), t, after)
        /\ \A m \in Evict(cache).live : /\ m \in cache.live
                                        /\ Evict(cache).key[m] = cache.key[m]
                                        /\ Evict(cache).value[m] = cache.value[m]
    BY <2>1, EvictIsGood
  <2>3. PICK after \in ChainSeqs : Good(c, t, after)
    BY <2>1, <2>2
  <2>4. Len(t) = Len(s) - 1 /\ Len(t) = c.size /\ On(t) = c.live
    BY <2>1, <2>3, DropFacts DEF Good
  <2>5. c.size \in 0 .. capacity - 1
    BY <1>2, <1>3, <2>4
  <2>6. EntriesOf(cache, t) = Cut(Entries, Len(Entries))
    BY <1>1, <1>2, <2>1, EntriesDropped
  <2>7. \A j \in 1 .. Len(t) : t[j] \in c.live
    BY <2>4 DEF On
  <2>8. EntriesOf(c, t) = EntriesOf(cache, t)
    <3>1. \A j \in 1 .. Len(t) : EntryOf(c, t[j]) = EntryOf(cache, t[j])
      BY <2>1, <2>2, <2>7 DEF EntryOf
    <3> QED BY <3>1 DEF EntriesOf
  <2>9. ~(Len(Entries) < capacity)
    BY <1>2, <1>3
  <2> HIDE DEF c, t
  <2>10. \A m \in c.live : m \in cache.live /\ c.key[m] = cache.key[m]
    BY <2>1, <2>2
  <2> QED BY <2>2, <2>3, <2>5, <2>6, <2>8, <2>9, <2>10 DEF c
<1>4. CASE cache.size # capacity
  <2>1. c = cache /\ cache.size \in 0 .. capacity - 1 /\ Len(Entries) < capacity
    BY <1>2, <1>4 DEF MakeRoom
  <2> QED BY <1>1, <2>1
<1> QED BY <1>3, <1>4

LEMMA InsertStep ==
    ASSUME IsFiniteSet(Nodes), CacheInv, NEW k \in Keys, NEW v \in Values, Insert(k, v)
    PROVE  CacheInv' /\ result' = Null /\ AddOn(Entries, Entries', k, v)
<1> DEFINE c == MakeRoom(cache)
<1>1. /\ ~freed /\ freed' = freed /\ getNode(cache, k) = Null /\ result' = Null
      /\ \E n \in Nodes \ c.live : cache' = Inserted(c, n, k, v)
  BY DEF Insert, Inserted
<1>2. PICK n \in Nodes \ c.live : cache' = Inserted(c, n, k, v)
  BY <1>1
<1>3. PICK s \in NodeSeqs, chains \in ChainSeqs : Good(cache, s, chains)
  BY <1>1 DEF CacheInv, GoodCache
<1>4. \A m \in cache.live : cache.key[m] # k
  BY <1>1, <1>3, getNodeFinds DEF Finds
<1>5. PICK t \in NodeSeqs, after \in ChainSeqs :
              /\ Good(c, t, after) /\ c.size \in 0 .. capacity - 1
              /\ \A m \in c.live : m \in cache.live /\ c.key[m] = cache.key[m]
              /\ EntriesOf(c, t) = IF Len(Entries) < capacity THEN Entries
                                   ELSE Cut(Entries, Len(Entries))
  BY <1>1, <1>3, MakeRoomStep
<1> HIDE DEF c
<1>6. \A m \in c.live : c.key[m] # k
  BY <1>4, <1>5
<1> DEFINE r == Push(n, t)
<1>7. /\ r \in NodeSeqs
      /\ \E last \in ChainSeqs : Good(cache', r, last)
      /\ cache'.size = c.size + 1
      /\ cache'.key[n] = k /\ cache'.value[n] = v
      /\ \A m \in c.live : cache'.key[m] = c.key[m] /\ cache'.value[m] = c.value[m]
  <2> DEFINE d == Inserted(c, n, k, v)
  <2>1. /\ r \in NodeSeqs
        /\ \E last \in ChainSeqs : Good(d, r, last)
        /\ d.size = c.size + 1
        /\ d.key[n] = k /\ d.value[n] = v
        /\ \A m \in c.live : d.key[m] = c.key[m] /\ d.value[m] = c.value[m]
    BY <1>5, <1>6, InsertIsGood
  <2> HIDE DEF d, r
  <2>2. cache' = d
    BY <1>2 DEF d
  <2> QED BY <2>1, <2>2
<1>8. PICK last \in ChainSeqs : Good(cache', r, last)
  BY <1>7
<1>9. c \in Caches /\ cache' \in Caches /\ On(t) = c.live /\ n \in Nodes /\ n \notin On(t)
  BY <1>2, <1>5, <1>8 DEF Good
<1>10. EntriesOf(cache', r) = <<EntryOf(cache', n)>> \o EntriesOf(c, t)
  BY <1>7, <1>9, EntriesPushed
<1> HIDE DEF r
<1>11. Entries' = EntriesOf(cache', r)
  BY <1>1, <1>7, <1>8, EntriesIs
<1>12. EntryOf(cache', n) = Store!Entry(k, v)
  BY <1>7 DEF EntryOf, Store!Entry
<1>13. CacheInv'
  <2>1. cache'.size \in 0 .. capacity
    BY <1>5, <1>7, LRUCacheAssumption
  <2>2. GoodCache'
    BY <1>7, <1>8 DEF GoodCache
  <2>3. ~freed' /\ freed' \in BOOLEAN
    BY <1>1 DEF CacheInv
  <2> QED BY <1>1, <1>9, <2>1, <2>2, <2>3 DEF CacheInv
<1>14. \A m \in DOMAIN Entries : Entries[m].key # k
  <2>1. Entries = EntriesOf(cache, s)
    BY <1>1, <1>3, EntriesIs
  <2>2. /\ \A i \in 1 .. Len(s) : s[i] \in cache.live /\ EntriesOf(cache, s)[i] = EntryOf(cache, s[i])
        /\ DOMAIN EntriesOf(cache, s) = 1 .. Len(s)
    BY <1>3, EntryAt
  <2> QED BY <1>4, <2>1, <2>2 DEF EntryOf
<1> QED BY <1>1, <1>5, <1>10, <1>11, <1>12, <1>13, <1>14 DEF AddOn

\* lRUCacheFree goes along the list, and there is nothing else.
LEMMA FreeStep ==
    ASSUME IsFiniteSet(Nodes), CacheInv, lRUCacheFree
    PROVE  CacheInv' /\ result' = Null /\ Entries' = <<>>
<1>1. /\ ~freed /\ freed' = TRUE /\ result' = Null
      /\ cache' = [cache EXCEPT !.live = @ \ Freed(cache)]
  BY DEF lRUCacheFree
<1>2. PICK s \in NodeSeqs, chains \in ChainSeqs : Good(cache, s, chains)
  BY <1>1 DEF CacheInv, GoodCache
<1>3. Freed(cache) = cache.live
  <2>1. Walk(cache.next, cache.head) = s
    BY <1>2, WalksOfGood
  <2>2. ToSet(s) = On(s)
    BY NodeSeqFacts DEF ToSet, On
  <2> QED BY <1>2, <2>1, <2>2 DEF Freed, Good
<1>4. cache' \in Caches /\ cache'.live = {} /\ cache'.size = cache.size
  <2>1. cache \in Caches
    BY DEF CacheInv
  <2> QED BY <1>1, <1>3, <2>1 DEF Caches
<1>5. Entries' = <<>>
  BY <1>1 DEF Entries
<1>6. CacheInv'
  BY <1>1, <1>4 DEF CacheInv
<1> QED BY <1>1, <1>5, <1>6

LEMMA NextCacheInv == ASSUME IsFiniteSet(Nodes), CacheInv, [Next]_vars PROVE CacheInv'
<1>1. CASE lRUCacheFree
  BY <1>1, FreeStep
<1>2. ASSUME NEW k \in Keys, lRUCacheGet(k) PROVE CacheInv'
  BY <1>2, GetStep
<1>3. ASSUME NEW k \in Keys, NEW v \in Values, Update(k, v) PROVE CacheInv'
  BY <1>3, UpdateStep
<1>4. ASSUME NEW k \in Keys, NEW v \in Values, Insert(k, v) PROVE CacheInv'
  BY <1>4, InsertStep
<1>5. CASE UNCHANGED vars
  BY <1>5 DEF vars, CacheInv, GoodCache
<1> QED BY <1>1, <1>2, <1>3, <1>4, <1>5 DEF Next

LEMMA CacheInvHolds == ASSUME IsFiniteSet(Nodes) PROVE Spec => []CacheInv
<1>1. Init => CacheInv
  BY InitCacheInv
<1>2. CacheInv /\ [Next]_vars => CacheInv'
  BY NextCacheInv
<1> QED BY <1>1, <1>2, PTL DEF Spec

-----------------------------------------------------------------------------
\* Whatever sequence of gets, puts, evictions and the free is called: the list read
\* from the tail is the list read from the head, it holds size nodes, all that are
\* allocated and each once; a node is on the chain of its key's hash only, although
\* removeNode and removeFromMap take it out of the two by different code; and
\* lRUCacheFree, which follows the list alone, leaves nothing allocated.
THEOREM StructuresStayInStep == ASSUME IsFiniteSet(Nodes) PROVE Spec => []StructuresAgree
<1>1. CacheInv => StructuresAgree
  BY AgreeFromInv
<1> QED BY <1>1, CacheInvHolds, PTL

\* The nodes and pointers of src/146.c implement LruStore: a get and a put on a key
\* that is there are uses, and a new key in a full cache costs the key that was used
\* longest ago and no other.
THEOREM CacheIsLru == ASSUME IsFiniteSet(Nodes) PROVE Spec => ImplementsLru
<1>1. Init => Store!Init
  <2> SUFFICES ASSUME Init PROVE Store!Init
    OBVIOUS
  <2>1. PICK s \in NodeSeqs, chains \in ChainSeqs : Good(cache, s, chains)
    BY InitCacheInv DEF CacheInv, GoodCache, Init
  <2>2. ~freed /\ result = Null /\ cache.size = 0
    BY DEF Init
  <2>3. Len(s) = 0 /\ Entries = EntriesOf(cache, s)
    BY <2>1, <2>2, EntriesIs DEF Good
  <2>4. Entries = <<>>
    BY <2>3 DEF EntriesOf
  <2> QED BY <2>2, <2>4 DEF Store!Init
<1>2. CacheInv /\ [Next]_vars => [Store!Next]_(Store!storeVars)
  <2> SUFFICES ASSUME CacheInv, [Next]_vars PROVE [Store!Next]_(Store!storeVars)
    OBVIOUS
  <2>1. CASE lRUCacheFree
    <3>1. Store!Free
      BY <2>1, FreeStep DEF Store!Free
    <3> QED BY <3>1 DEF Store!Next
  <2>2. ASSUME NEW k \in Keys, lRUCacheGet(k) PROVE Store!Next
    <3>1. CASE HitOn(Entries, Entries', k, result')
      <4>1. Store!Hit(k)
        BY <3>1 DEF HitOn, Cut, Store!Hit, Store!Without
      <4> QED BY <4>1 DEF Store!Next
    <3>2. CASE /\ \A m \in DOMAIN Entries : Entries[m].key # k
               /\ result' = Null /\ Entries' = Entries
      <4>1. Store!Lose(k)
        BY <3>2 DEF Store!Lose, Store!Has
      <4> QED BY <4>1 DEF Store!Next
    <3> QED BY <2>2, <3>1, <3>2, GetStep
  <2>3. ASSUME NEW k \in Keys, NEW v \in Values, Update(k, v) PROVE Store!Next
    <3>1. result' = Null /\ ChangeOn(Entries, Entries', k, v)
      BY <2>3, UpdateStep
    <3>2. Store!Change(k, v)
      BY <3>1 DEF ChangeOn, Cut, Store!Change, Store!Without
    <3> QED BY <3>2 DEF Store!Next
  <2>4. ASSUME NEW k \in Keys, NEW v \in Values, Insert(k, v) PROVE Store!Next
    <3>1. result' = Null /\ AddOn(Entries, Entries', k, v)
      BY <2>4, InsertStep
    <3>2. Store!Add(k, v)
      BY <3>1 DEF AddOn, Cut, Store!Add, Store!Has, Store!Without
    <3> QED BY <3>2 DEF Store!Next
  <2>5. CASE UNCHANGED vars
    BY <2>5 DEF vars, Entries, List, Store!storeVars
  <2> QED BY <2>1, <2>2, <2>3, <2>4, <2>5 DEF Next
<1> QED BY <1>1, <1>2, CacheInvHolds, PTL DEF Spec, ImplementsLru, Store!Spec

-----------------------------------------------------------------------------
\* The sliding window.
WindowTypes ==
    /\ wSize \in Nat /\ wK \in 1 .. wSize
    /\ wNums \in [0 .. wSize - 1 -> Int]
    /\ wI \in 0 .. wSize
    /\ wHead \in 0 .. wTail /\ wTail \in 0 .. wI
    /\ wDq \in [0 .. wSize - 1 -> Int]
    /\ wPc \in {"expire", "pop"}
    /\ wPc = "pop" => wI < wSize

\* The window ends before wI, and past line 16 at wI: the positions up to Old are not
\* in it.
Old == IF wPc = "pop" THEN wI - wK ELSE wI - wK - 1
Queue == wHead .. wTail - 1

\* The queue holds positions of the window in ascending order, and their numbers
\* descend.
Positions ==
    /\ \A p \in Queue : wDq[p] \in 0 .. wI - 1 /\ wDq[p] > Old
    /\ \A p, q \in Queue : p < q => wDq[p] < wDq[q] /\ wNums[wDq[p]] > wNums[wDq[q]]

\* No number of the window is larger than all that come after it in the queue; past
\* line 16, unless it is not larger than number wI, for which positions are dropped.
Bounded(m) == \E p \in Queue : wDq[p] >= m /\ wNums[wDq[p]] >= wNums[m]
Dominant ==
    \A m \in 0 .. wI - 1 : m > Old => Bounded(m) \/ (wPc = "pop" /\ wNums[m] <= wNums[wI])

Written ==
    /\ DOMAIN wResult = 0 .. wI - wK
    /\ \A r \in DOMAIN wResult : Window!IsMaximum(wResult[r], r)

WindowInv == WindowTypes /\ Positions /\ Dominant /\ Written

-----------------------------------------------------------------------------
LEMMA InitWindowInv == ASSUME Window!Init PROVE WindowInv
<1>1. wSize \in Nat /\ wK \in 1 .. wSize
  BY DEF Window!Init
<1>a. wNums \in [0 .. wSize - 1 -> Int]
  <2>1. wNums \in [0 .. wSize - 1 -> Numbers] /\ Numbers \subseteq Int
    BY StructuresAssumption DEF Window!Init
  <2> QED BY <2>1
<1>b. wDq \in [0 .. wSize - 1 -> Int]
  <2>1. wDq = [p \in 0 .. wSize - 1 |-> 0]
    BY DEF Window!Init
  <2> QED BY <2>1
<1>2. WindowTypes
  BY <1>1, <1>a, <1>b DEF Window!Init, WindowTypes
<1>3. Queue = {}
  BY DEF Window!Init, Queue
<1>4. DOMAIN wResult = {} /\ 0 .. wI - wK = {}
  BY <1>1 DEF Window!Init
<1> QED BY <1>2, <1>3, <1>4 DEF WindowInv, Positions, Dominant, Written, Window!Init

\* What IsMaximum says depends on the arguments only.
LEMMA SameArguments ==
    ASSUME UNCHANGED Window!arguments, UNCHANGED <<wResult, wI>>, Written
    PROVE  Written'
  BY DEF Written, Window!IsMaximum, Window!arguments

\* Only the first position can be too old, since they ascend.
LEMMA ExpireWindowInv == ASSUME WindowInv, Window!Expire PROVE WindowInv'
<1> USE DEF Window!arguments
<1>1. wPc = "expire" /\ wPc' = "pop" /\ Old = wI - wK - 1 /\ Old' = wI - wK
  BY DEF Window!Expire, Old
<1>2. WindowTypes'
  BY DEF Window!Expire, WindowTypes, WindowInv
<1>3. \A p \in Queue' : p \in Queue /\ wDq[p] > wI - wK
  <2> SUFFICES ASSUME NEW p \in Queue' PROVE p \in Queue /\ wDq[p] > wI - wK
    OBVIOUS
  <2>1. p \in Queue
    BY DEF Window!Expire, Queue, WindowInv, WindowTypes
  <2>2. p > wHead \/ ~Window!TooOld(wDq[wHead])
    BY DEF Window!Expire, Queue, WindowInv, WindowTypes
  <2>3. wHead \in Queue
    BY <2>1 DEF Queue, WindowInv, WindowTypes
  <2>4. wDq[wHead] \in Int /\ wDq[wHead] > wI - wK - 1 /\ wDq[p] \in Int
    BY <1>1, <2>1, <2>3 DEF WindowInv, Positions
  <2>5. p > wHead => wDq[p] > wDq[wHead]
    BY <2>1, <2>3 DEF WindowInv, Positions
  <2>6. p = wHead \/ p > wHead
    BY <2>1 DEF Queue, WindowInv, WindowTypes
  <2> QED BY <2>1, <2>2, <2>4, <2>5, <2>6 DEF Window!TooOld, WindowInv, WindowTypes
<1>4. Positions'
  BY <1>1, <1>3 DEF Window!Expire, Positions, WindowInv
<1>5. \A m \in 0 .. wI - 1 : m > wI - wK => Bounded(m)'
  <2> SUFFICES ASSUME NEW m \in 0 .. wI - 1, m > wI - wK PROVE Bounded(m)'
    OBVIOUS
  <2>1. PICK p \in Queue : wDq[p] >= m /\ wNums[wDq[p]] >= wNums[m]
    BY SMTT(60), <1>1 DEF WindowInv, Dominant, Bounded, WindowTypes
  <2>2. wDq[p] > wI - wK
    BY <2>1 DEF WindowInv, Positions, WindowTypes
  <2>3. ~Window!TooOld(wDq[p])
    BY <2>1, <2>2 DEF Window!TooOld, WindowInv, Positions, WindowTypes
  <2>4. p \in Queue'
    BY <2>1, <2>3 DEF Window!Expire, Queue, WindowInv, WindowTypes
  <2> QED BY <2>1, <2>4 DEF Bounded, Window!Expire
<1>6. Dominant'
  BY <1>1, <1>5 DEF Dominant, Window!Expire
<1>7. Written'
  BY SameArguments DEF Window!Expire, WindowInv
<1> QED BY <1>2, <1>4, <1>6, <1>7 DEF WindowInv

\* What the dropped position stands for is not larger than number wI.
LEMMA PopWindowInv == ASSUME WindowInv, Window!Pop PROVE WindowInv'
<1> USE DEF Window!arguments
<1>1. wPc = "pop" /\ wPc' = "pop" /\ Old = wI - wK /\ Old' = wI - wK
  BY DEF Window!Pop, Old
<1>2. WindowTypes'
  BY DEF Window!Pop, Window!CanPop, WindowTypes, WindowInv
<1>3. wHead < wTail /\ wHead' = wHead /\ wTail' = wTail - 1
  BY DEF Window!Pop, Window!CanPop
<1>b. Queue' = Queue \ {wTail - 1}
  <2>1. wHead \in Int /\ wTail \in Int
    BY DEF WindowInv, WindowTypes
  <2>2. Queue' = wHead .. wTail - 1 - 1
    BY <1>3 DEF Queue
  <2> QED BY <1>3, <2>1, <2>2 DEF Queue
<1>4. Positions'
  BY <1>1, <1>b DEF Window!Pop, Positions, WindowInv
<1>5. ASSUME NEW m \in 0 .. wI - 1, m > wI - wK
      PROVE  Bounded(m)' \/ wNums[m] <= wNums[wI]
  <2>1. CASE wNums[m] <= wNums[wI]
    BY <2>1
  <2>2. CASE ~(wNums[m] <= wNums[wI])
    <3>1. PICK p \in Queue : wDq[p] >= m /\ wNums[wDq[p]] >= wNums[m]
      BY <1>1, <1>5, <2>2 DEF WindowInv, Dominant, Bounded
    <3>2. wDq[p] \in 0 .. wSize - 1
      BY <3>1 DEF WindowInv, Positions, WindowTypes
    <3>3. wNums[wDq[p]] \in Int /\ wNums[m] \in Int /\ wNums[wI] \in Int
      BY <1>1, <3>2 DEF WindowInv, WindowTypes
    <3>4. p # wTail - 1
      BY <2>2, <3>1, <3>3 DEF Window!Pop, Window!CanPop
    <3> QED BY <1>b, <3>1, <3>4 DEF Bounded, Window!Pop
  <2> QED BY <2>1, <2>2
<1>6. Dominant'
  BY <1>1, <1>5 DEF Dominant, Window!Pop
<1>7. Written'
  BY SameArguments DEF Window!Pop, WindowInv
<1> QED BY <1>2, <1>4, <1>6, <1>7 DEF WindowInv

\* Number wI is the last of the queue, below all that are left there, and the first
\* of the queue is the maximum of the window that ends at wI.
LEMMA PushWindowInv == ASSUME WindowInv, Window!Push PROVE WindowInv'
<1> USE DEF Window!arguments
<1>1. wPc = "pop" /\ wPc' = "expire" /\ Old = wI - wK /\ Old' = wI - wK /\ wI' = wI + 1
  BY DEF Window!Push, Old, WindowInv, WindowTypes
<1>2. wI \in 0 .. wSize - 1 /\ wTail \in 0 .. wSize - 1
  BY <1>1 DEF WindowInv, WindowTypes
<1>3. wDq' = [wDq EXCEPT ![wTail] = wI] /\ wDq'[wTail] = wI /\ wTail \in Queue'
  BY <1>2 DEF Window!Push, Queue, WindowInv, WindowTypes
<1>4. Queue' = Queue \cup {wTail} /\ wTail \notin Queue
  BY DEF Window!Push, Queue, WindowInv, WindowTypes
<1>5. \A p \in Queue : wDq'[p] = wDq[p] /\ p < wTail /\ wDq[p] \in 0 .. wI - 1
  BY <1>3, <1>4 DEF Queue, WindowInv, WindowTypes, Positions
<1>6. \A p \in Queue' : wDq'[p] \in 0 .. wI /\ wDq'[p] > wI - wK
  <2>1. wI > wI - wK /\ wI \in 0 .. wI
    BY DEF WindowInv, WindowTypes
  <2>2. \A p \in Queue : wDq[p] > wI - wK
    BY <1>1 DEF WindowInv, Positions
  <2> QED BY <1>3, <1>4, <1>5, <2>1, <2>2
<1>7. \A m \in 0 .. wI : wNums[m] \in Int
  BY <1>2 DEF WindowInv, WindowTypes
<1>8. \A p \in Queue : wNums[wDq[p]] > wNums[wI]
  <2> SUFFICES ASSUME NEW p \in Queue PROVE wNums[wDq[p]] > wNums[wI]
    OBVIOUS
  <2>1. wTail - 1 \in Queue /\ (p = wTail - 1 \/ p < wTail - 1)
    BY DEF Queue, WindowInv, WindowTypes
  <2>2. ~(wNums[wDq[wTail - 1]] <= wNums[wI])
    BY <2>1 DEF Window!Push, Window!CanPop, Queue, WindowInv, WindowTypes
  <2>3. p < wTail - 1 => wNums[wDq[p]] > wNums[wDq[wTail - 1]]
    BY <2>1 DEF WindowInv, Positions
  <2>4. wNums[wDq[p]] \in Int /\ wNums[wDq[wTail - 1]] \in Int /\ wNums[wI] \in Int
    BY <1>2, <1>5, <1>7, <2>1
  <2> QED BY <2>1, <2>2, <2>3, <2>4
<1>9. WindowTypes'
  BY <1>1, <1>2, <1>3 DEF Window!Push, WindowTypes, WindowInv
<1>10. Positions'
  <2>1. \A p \in Queue' : wDq'[p] \in 0 .. wI' - 1 /\ wDq'[p] > Old'
    BY <1>1, <1>2, <1>6
  <2>2. ASSUME NEW p \in Queue', NEW q \in Queue', p < q
        PROVE  wDq'[p] < wDq'[q] /\ wNums[wDq'[p]] > wNums[wDq'[q]]
    <3>1. p \in Queue
      <4>1. p # wTail
        <5>1. q = wTail \/ q < wTail
          BY <1>4, <1>5, <2>2
        <5>2. wTail \in Int /\ q \in Int /\ p \in Int
          BY <2>2 DEF Queue, Window!Push, WindowInv, WindowTypes
        <5> QED BY <2>2, <5>1, <5>2
      <4> QED BY <1>4, <2>2, <4>1
    <3>2. CASE q \in Queue
      BY <1>5, <2>2, <3>1, <3>2 DEF WindowInv, Positions
    <3>3. CASE q = wTail
      BY <1>2, <1>3, <1>5, <1>8, <3>1, <3>3
    <3> QED BY <1>4, <3>2, <3>3
  <2>3. wNums' = wNums
    BY DEF Window!Push
  <2> QED BY <2>1, <2>2, <2>3 DEF Positions
<1>11. \A m \in 0 .. wI : m > wI - wK => \E p \in Queue' : wDq'[p] >= m /\ wNums[wDq'[p]] >= wNums[m]
  <2> SUFFICES ASSUME NEW m \in 0 .. wI, m > wI - wK
               PROVE  \E p \in Queue' : wDq'[p] >= m /\ wNums[wDq'[p]] >= wNums[m]
    OBVIOUS
  <2>1. CASE wNums[m] <= wNums[wI]
    BY <1>2, <1>3, <1>7, <2>1
  <2>2. CASE ~(wNums[m] <= wNums[wI])
    <3>1. m \in 0 .. wI - 1
      BY <1>2, <1>7, <2>2
    <3>2. PICK p \in Queue : wDq[p] >= m /\ wNums[wDq[p]] >= wNums[m]
      BY <1>1, <2>2, <3>1 DEF WindowInv, Dominant, Bounded
    <3> QED BY <1>4, <1>5, <3>2
  <2> QED BY <2>1, <2>2
<1>12. Dominant'
  BY <1>1, <1>2, <1>11 DEF Dominant, Bounded, Window!Push
<1>13. wI >= wK - 1 => Window!IsMaximum(wNums[wDq'[wHead]], wI - wK + 1)
  <2> SUFFICES ASSUME wI >= wK - 1 PROVE Window!IsMaximum(wNums[wDq'[wHead]], wI - wK + 1)
    OBVIOUS
  <2>1. wHead \in Queue' /\ \A p \in Queue' : p = wHead \/ wHead < p
    BY DEF Window!Push, Queue, WindowInv, WindowTypes
  <2>2. \A p \in Queue' : wNums[wDq'[wHead]] >= wNums[wDq'[p]]
    <3>1. \A p, q \in Queue' : p < q => wNums[wDq'[p]] > wNums[wDq'[q]]
      BY <1>10 DEF Positions, Window!Push
    <3>2. \A p \in Queue' : wNums[wDq'[p]] \in Int
      BY <1>6, <1>7
    <3> QED BY <2>1, <3>1, <3>2
  <2>3. wDq'[wHead] \in wI - wK + 1 .. wI
    BY <1>6, <2>1 DEF WindowInv, WindowTypes
  <2>4. ASSUME NEW m \in wI - wK + 1 .. wI PROVE wNums[m] <= wNums[wDq'[wHead]]
    <3>1. m \in 0 .. wI /\ m > wI - wK
      BY <1>2 DEF WindowInv, WindowTypes
    <3>2. PICK p \in Queue' : wNums[wDq'[p]] >= wNums[m]
      BY <1>11, <3>1
    <3> QED BY <1>6, <1>7, <2>1, <2>2, <3>1, <3>2
  <2>5. wI - wK + 1 + wK - 1 = wI
    BY <1>2 DEF WindowInv, WindowTypes
  <2> QED BY <2>3, <2>4, <2>5 DEF Window!IsMaximum
<1>14. Written'
  <2>1. CASE wI >= wK - 1
    <3>1. wResult' = [r \in 0 .. wI - wK + 1 |-> IF r = wI - wK + 1 THEN wNums[wDq'[wHead]] ELSE wResult[r]]
      BY <2>1 DEF Window!Push
    <3>2. DOMAIN wResult' = 0 .. wI' - wK
      BY <1>1, <1>2, <3>1 DEF WindowInv, WindowTypes
    <3>3. ASSUME NEW r \in 0 .. wI - wK + 1 PROVE Window!IsMaximum(wResult'[r], r)
      <4>1. r # wI - wK + 1 => r \in DOMAIN wResult
        BY <1>2 DEF WindowInv, WindowTypes, Written
      <4> QED BY <1>13, <2>1, <3>1, <4>1 DEF WindowInv, Written
    <3>4. 0 .. wI - wK + 1 = DOMAIN wResult'
      BY <3>1
    <3> QED BY <3>2, <3>3, <3>4 DEF Written, Window!IsMaximum, Window!Push
  <2>2. CASE ~(wI >= wK - 1)
    <3>1. wResult' = wResult
      BY <2>2 DEF Window!Push
    <3>2. 0 .. wI - wK = {} /\ 0 .. wI' - wK = {}
      BY <1>1, <1>2, <2>2 DEF WindowInv, WindowTypes
    <3>3. DOMAIN wResult' = {}
      BY <3>1, <3>2 DEF WindowInv, Written
    <3>4. wK' = wK
      BY DEF Window!Push
    <3> QED BY <3>2, <3>3, <3>4 DEF Written
  <2> QED BY <2>1, <2>2
<1> QED BY <1>9, <1>10, <1>12, <1>14 DEF WindowInv

LEMMA NextWindowInv == WindowInv /\ [Window!Next]_(Window!vars) => WindowInv'
<1> SUFFICES ASSUME WindowInv, [Window!Next]_(Window!vars) PROVE WindowInv'
  OBVIOUS
<1>1. CASE UNCHANGED Window!vars
  <2>1. WindowTypes' /\ Positions' /\ Dominant'
    BY <1>1 DEF Window!vars, WindowInv, WindowTypes, Positions, Dominant, Bounded, Old, Queue
  <2>2. Written'
    BY <1>1, SameArguments DEF Window!vars, Window!arguments, WindowInv
  <2> QED BY <2>1, <2>2 DEF WindowInv
<1> QED BY <1>1, ExpireWindowInv, PopWindowInv, PushWindowInv DEF Window!Next

-----------------------------------------------------------------------------
\* Every entry that src/239.c has written is the maximum of its window, and at the
\* end all have been written.
THEOREM WindowsCorrect == StructuresSpec => []WindowsAreMaxima
<1>1. StructuresInit => WindowInv
  BY InitWindowInv DEF StructuresInit
<1>2. WindowInv /\ [StructuresNext]_structureVars => WindowInv'
  <2> SUFFICES ASSUME WindowInv, [StructuresNext]_structureVars PROVE [Window!Next]_(Window!vars)
    BY NextWindowInv
  <2> QED BY DEF StructuresNext, structureVars, wVars, Window!vars
<1>3. WindowInv => WindowsAreMaxima
  BY DEF WindowInv, Written, WindowsAreMaxima, Window!WindowsAreMaxima
<1> QED BY <1>1, <1>2, <1>3, PTL DEF StructuresSpec


-----------------------------------------------------------------------------
\* The allocator.  The last cell in use up to cell i is p; -1 if there is none.
IsLast(p, i) ==
    /\ p \in -1 .. i
    /\ p # -1 => aMemory[p] # 0
    /\ \A c \in p + 1 .. i : aMemory[c] = 0

LEMMA LastExists == ASSUME NEW i \in -1 .. size - 1 PROVE \E p : IsLast(p, i)
<1> DEFINE S == {n \in Nat : \E p : IsLast(p, n - 1)}
<1>1. size \in Nat
  BY StructuresAssumption
<1>2. 0 \in S
  <2>1. IsLast(-1, 0 - 1)
    BY DEF IsLast
  <2> QED BY <2>1
<1>3. ASSUME NEW n \in 0 .. size - 1, n \in S PROVE n + 1 \in S
  <2>1. PICK p : IsLast(p, n - 1)
    BY <1>3
  <2>2. n \in Nat /\ n + 1 \in Nat /\ (n + 1) - 1 = n
    BY <1>1
  <2>3. CASE aMemory[n] = 0
    <3>1. IsLast(p, n)
      BY <2>1, <2>2, <2>3 DEF IsLast
    <3> QED BY <2>2, <3>1
  <2>4. CASE aMemory[n] # 0
    <3>1. IsLast(n, n)
      BY <2>2, <2>4 DEF IsLast
    <3> QED BY <2>2, <3>1
  <2> QED BY <2>3, <2>4
<1>4. i + 1 \in 0 .. size /\ (i + 1) - 1 = i
  BY <1>1
<1>5. \A n \in 0 .. size : n \in S
  <2> HIDE DEF S
  <2> QED BY <1>1, <1>2, <1>3, UpTo
<1> QED BY <1>4, <1>5

LEMMA LastIsOne ==
    ASSUME NEW i \in Int, NEW p, NEW q, IsLast(p, i), IsLast(q, i)
    PROVE  p = q
  BY DEF IsLast

\* The loop of allocatorAllocate counts the free cells behind the last one in use.
LEMMA CountIs ==
    ASSUME NEW i \in -1 .. size - 1, NEW p, IsLast(p, i)
    PROVE  Alloc!Count[i] = i - p
<1> DEFINE D == -1 .. size - 1
           Fits(f) == f = [j \in D |-> IF j < 0 \/ aMemory[j] # 0 THEN 0 ELSE f[j - 1] + 1]
           LastUsed(j) == CHOOSE q : IsLast(q, j)
           g == [j \in D |-> j - LastUsed(j)]
           at == Alloc!Count
<1>1. size \in Nat /\ D \subseteq Int
  BY StructuresAssumption
<1>2. ASSUME NEW j \in D PROVE IsLast(LastUsed(j), j) /\ LastUsed(j) \in Int
  <2>1. IsLast(LastUsed(j), j)
    BY LastExists
  <2> QED BY <2>1 DEF IsLast
<1>3. ASSUME NEW j \in D PROVE g[j] = IF j < 0 \/ aMemory[j] # 0 THEN 0 ELSE g[j - 1] + 1
  <2> HIDE DEF LastUsed
  <2>1. CASE j < 0
    <3>1. j = -1 /\ LastUsed(j) = -1
      BY <1>2, <2>1 DEF IsLast
    <3> QED BY <2>1, <3>1
  <2>2. CASE ~(j < 0) /\ aMemory[j] # 0
    <3>1. IsLast(j, j)
      BY <1>1, <2>2 DEF IsLast
    <3>2. LastUsed(j) = j
      BY <1>1, <1>2, <3>1, LastIsOne
    <3> QED BY <1>1, <2>2, <3>2
  <2>3. CASE ~(j < 0) /\ aMemory[j] = 0
    <3>1. j - 1 \in D /\ j \in Nat
      BY <1>1, <2>3
    <3>2. IsLast(LastUsed(j - 1), j - 1)
      BY <1>2, <3>1
    <3>3. IsLast(LastUsed(j - 1), j)
      BY <2>3, <3>1, <3>2 DEF IsLast
    <3>4. LastUsed(j) = LastUsed(j - 1) /\ LastUsed(j - 1) \in Int
      BY <1>2, <3>1, <3>3, LastIsOne
    <3> QED BY <2>3, <3>1, <3>4
  <2> QED BY <2>1, <2>2, <2>3
<1>4. Fits(g)
  <2> HIDE DEF LastUsed
  <2> QED BY <1>3
<1>5. Fits(at)
  <2>1. at = CHOOSE f : Fits(f)
    BY DEF Alloc!Count
  <2> HIDE DEF Fits, g, at
  <2> QED BY <1>4, <2>1
<1> HIDE DEF at
<1>6. \A j \in D : at[j] = IF j < 0 \/ aMemory[j] # 0 THEN 0 ELSE at[j - 1] + 1
  BY <1>5
<1> DEFINE S == {n \in Nat : \A q : IsLast(q, n - 1) => at[n - 1] = (n - 1) - q}
<1>7. 0 \in S
  <2>1. at[0 - 1] = 0 /\ \A q : IsLast(q, 0 - 1) => q = -1
    BY <1>1, <1>6 DEF IsLast
  <2> QED BY <2>1
<1>8. ASSUME NEW n \in 0 .. size - 1, n \in S PROVE n + 1 \in S
  <2>1. n \in D /\ n \in Nat /\ n + 1 \in Nat /\ (n + 1) - 1 = n
    BY <1>1
  <2> SUFFICES ASSUME NEW q, IsLast(q, n) PROVE at[n] = n - q
    BY <2>1
  <2>2. q \in Int
    BY DEF IsLast
  <2>3. CASE aMemory[n] # 0
    <3>1. q = n
      BY <2>1, <2>3 DEF IsLast
    <3> QED BY <1>6, <2>1, <2>3, <3>1
  <2>4. CASE aMemory[n] = 0
    <3>1. q # n
      BY <2>1, <2>4 DEF IsLast
    <3>2. IsLast(q, n - 1)
      BY <2>1, <3>1 DEF IsLast
    <3>3. at[n - 1] = (n - 1) - q
      BY <1>8, <3>2
    <3> QED BY <1>6, <2>1, <2>2, <2>4, <3>3
  <2> QED BY <2>3, <2>4
<1>9. \A n \in 0 .. size : n \in S
  <2> HIDE DEF S
  <2> QED BY <1>1, <1>7, <1>8, UpTo
<1>10. i + 1 \in 0 .. size /\ (i + 1) - 1 = i
  BY <1>1
<1> QED BY <1>9, <1>10 DEF at

\* So it returns at the end of a free place, and not behind the end of the first one.
FreePlaces(length) ==
    {s \in 0 .. size - length : \A c \in s .. s + length - 1 : aMemory[c] = 0}

LEMMA ReturnsAtPlaces ==
    ASSUME NEW length \in Numbers
    PROVE  /\ \A i \in Alloc!Returns(length) : i - length + 1 \in FreePlaces(length)
           /\ \A s \in FreePlaces(length) :
                 \E i \in Alloc!Returns(length) : i <= s + length - 1
<1>1. size \in Nat /\ length \in Nat /\ length # 0
  BY StructuresAssumption
<1>2. ASSUME NEW i \in Alloc!Returns(length) PROVE i - length + 1 \in FreePlaces(length)
  <2>1. i \in 0 .. size - 1 /\ Alloc!Count[i] = length
    BY DEF Alloc!Returns
  <2>2. PICK p : IsLast(p, i)
    BY <1>1, <2>1, LastExists
  <2>3. p \in Int /\ length = i - p
    BY <1>1, <2>1, <2>2, CountIs DEF IsLast
  <2> QED BY <1>1, <2>1, <2>2, <2>3 DEF IsLast, FreePlaces
<1>3. ASSUME NEW s \in FreePlaces(length)
      PROVE  \E i \in Alloc!Returns(length) : i <= s + length - 1
  <2>1. /\ s \in Nat /\ s + length - 1 \in 0 .. size - 1
        /\ \A c \in s .. s + length - 1 : aMemory[c] = 0
    BY <1>1 DEF FreePlaces
  <2>2. PICK p : IsLast(p, s + length - 1)
    BY <1>1, <2>1, LastExists
  <2>3. p \in Int /\ p >= -1 /\ p < s
    BY <1>1, <2>1, <2>2 DEF IsLast
  <2>4. p + length \in 0 .. size - 1 /\ p + length <= s + length - 1 /\ (p + length) - p = length
    BY <1>1, <2>1, <2>3
  <2>5. IsLast(p, p + length)
    BY <1>1, <2>1, <2>2, <2>3, <2>4 DEF IsLast
  <2>6. Alloc!Count[p + length] = length
    BY <1>1, <2>4, <2>5, CountIs
  <2> QED BY <2>4, <2>6 DEF Alloc!Returns
<1> QED BY <1>2, <1>3

\* A cell in use has the id of the block it is in, and belongs to one.
BlockCells(b) == b.start .. b.start + b.length - 1
AllocInv ==
    /\ DOMAIN aMemory \in {0 .. size - 1, {}}
    /\ \A b \in aBlocks : /\ b.owner # 0 /\ BlockCells(b) \subseteq DOMAIN aMemory
                          /\ \A c \in BlockCells(b) : aMemory[c] = b.owner
    /\ \A c \in DOMAIN aMemory : aMemory[c] # 0 => \E b \in aBlocks : c \in BlockCells(b)
    /\ aMemory = [c \in DOMAIN aMemory |-> aMemory[c]]

LEMMA FitsIs ==
    ASSUME AllocInv, Alloc!usable, NEW length \in Numbers
    PROVE  DOMAIN aMemory = 0 .. size - 1 /\ Alloc!Store!Fits(length) = FreePlaces(length)
<1>1. DOMAIN aMemory = 0 .. size - 1 /\ size \in Nat /\ length \in Nat \ {0}
  BY StructuresAssumption DEF AllocInv, Alloc!usable
<1>2. \A c \in 0 .. size - 1 : c \in Alloc!Store!Taken <=> aMemory[c] # 0
  <2>1. Alloc!Store!Taken = UNION {BlockCells(b) : b \in aBlocks}
    BY DEF Alloc!Store!Taken, Alloc!Store!CellsOf, Alloc!Store!Cells, BlockCells
  <2> QED BY <1>1, <2>1 DEF AllocInv
<1>3. ASSUME NEW s \in 0 .. size - length
      PROVE  (s .. s + length - 1) \cap Alloc!Store!Taken = {}
                <=> \A c \in s .. s + length - 1 : aMemory[c] = 0
  <2>1. s .. s + length - 1 \subseteq 0 .. size - 1
    BY <1>1
  <2> QED BY <1>2, <2>1
<1> QED BY <1>1, <1>3 DEF Alloc!Store!Fits, FreePlaces

LEMMA AllocateStep ==
    ASSUME AllocInv, NEW length \in Numbers, NEW id \in Values, Alloc!allocatorAllocate(length, id)
    PROVE  AllocInv' /\ Alloc!Store!Allocate(length, id)
<1>1. size \in Nat /\ length \in Nat \ {0} /\ id # 0
  BY StructuresAssumption
<1>2. DOMAIN aMemory = 0 .. size - 1 /\ Alloc!Store!Fits(length) = FreePlaces(length)
  BY FitsIs DEF Alloc!allocatorAllocate
<1>3. PICK i \in Alloc!Returns(length) :
              /\ \A j \in Alloc!Returns(length) : i <= j
              /\ aAnswer' = i - length + 1
              /\ Alloc!Fill(aAnswer', length, id)
              /\ aBlocks' = aBlocks \cup {[start |-> aAnswer', length |-> length, owner |-> id]}
  BY DEF Alloc!allocatorAllocate
<1> DEFINE a == aAnswer'
           new == [start |-> a, length |-> length, owner |-> id]
<1>4. i \in 0 .. size - 1 /\ a = i - length + 1 /\ a \in FreePlaces(length)
  BY <1>3, ReturnsAtPlaces DEF Alloc!Returns
<1>5. ASSUME NEW s \in FreePlaces(length) PROVE a <= s /\ s \in Int
  <2>1. PICK j \in Alloc!Returns(length) : j <= s + length - 1
    BY ReturnsAtPlaces
  <2>2. i <= j /\ j \in Int /\ s \in Int
    BY <1>1, <1>3 DEF Alloc!Returns, FreePlaces
  <2> QED BY <1>1, <1>4, <2>1, <2>2
<1>6. a \in 0 .. size - length /\ \A c \in a .. a + length - 1 : c \in 0 .. size - 1 /\ aMemory[c] = 0
  BY <1>1, <1>4 DEF FreePlaces
<1>7. /\ DOMAIN aMemory' = 0 .. size - 1
      /\ aMemory' = [c \in 0 .. size - 1 |-> IF c \in a .. a + length - 1 THEN id ELSE aMemory[c]]
  BY <1>2, <1>3 DEF Alloc!Fill
<1>8. aBlocks' = aBlocks \cup {new} /\ BlockCells(new) = a .. a + length - 1 /\ new.owner = id
  BY <1>3 DEF BlockCells
<1> HIDE DEF a, new
<1>9. AllocInv'
  <2>1. ASSUME NEW b \in aBlocks'
        PROVE  /\ b.owner # 0 /\ BlockCells(b) \subseteq 0 .. size - 1
               /\ \A c \in BlockCells(b) : aMemory'[c] = b.owner
    <3>1. CASE b \in aBlocks
      <4>1. /\ b.owner # 0 /\ BlockCells(b) \subseteq 0 .. size - 1
            /\ \A c \in BlockCells(b) : aMemory[c] = b.owner
        BY <1>2, <3>1 DEF AllocInv
      <4>2. \A c \in BlockCells(b) : c \notin a .. a + length - 1
        BY <1>6, <4>1
      <4> QED BY <1>7, <4>1, <4>2
    <3>2. CASE b = new
      BY <1>1, <1>6, <1>7, <1>8, <3>2
    <3> QED BY <1>8, <3>1, <3>2
  <2>2. ASSUME NEW c \in 0 .. size - 1, aMemory'[c] # 0 PROVE \E b \in aBlocks' : c \in BlockCells(b)
    <3>1. CASE c \in a .. a + length - 1
      BY <1>8, <3>1
    <3>2. CASE c \notin a .. a + length - 1
      <4>1. aMemory[c] # 0
        BY <1>7, <2>2, <3>2
      <4> QED BY <1>2, <1>8, <4>1 DEF AllocInv
    <3> QED BY <3>1, <3>2
  <2> QED BY <1>7, <2>1, <2>2 DEF AllocInv, BlockCells
<1>10. Alloc!Store!Min(FreePlaces(length)) = a
  <2>1. \A s \in FreePlaces(length) : (\A r \in FreePlaces(length) : s <= r) => s = a
    BY <1>4, <1>5
  <2>2. \E s \in FreePlaces(length) : \A r \in FreePlaces(length) : s <= r
    BY <1>4, <1>5
  <2>3. Alloc!Store!Min(FreePlaces(length))
            = CHOOSE s \in FreePlaces(length) : \A r \in FreePlaces(length) : s <= r
    BY DEF Alloc!Store!Min
  <2> QED BY <2>1, <2>2, <2>3
<1> QED BY <1>2, <1>4, <1>8, <1>9, <1>10
    DEF Alloc!Store!Allocate, Alloc!Store!Block, new, a

LEMMA RefusedStep ==
    ASSUME AllocInv, NEW length \in Numbers, NEW id \in Values, Alloc!Refused(length)
    PROVE  AllocInv' /\ Alloc!Store!Allocate(length, id)
<1>1. Alloc!Store!Fits(length) = FreePlaces(length)
  BY FitsIs DEF Alloc!Refused
<1>2. FreePlaces(length) = {}
  BY ReturnsAtPlaces DEF Alloc!Refused
<1>3. Alloc!Store!Allocate(length, id)
  BY <1>1, <1>2 DEF Alloc!Store!Allocate, Alloc!Refused
<1>4. AllocInv'
  BY DEF Alloc!Refused, AllocInv, BlockCells
<1> QED BY <1>3, <1>4

LEMMA FreeMemoryStep ==
    ASSUME AllocInv, NEW id \in Values, Alloc!allocatorFreeMemory(id)
    PROVE  AllocInv' /\ Alloc!Store!Free(id)
<1> DEFINE his == {b \in aBlocks : b.owner = id}
<1>1. /\ aMemory' = [c \in DOMAIN aMemory |-> IF aMemory[c] = id THEN 0 ELSE aMemory[c]]
      /\ aAnswer' = Alloc!Cardinality({c \in DOMAIN aMemory : aMemory[c] = id})
      /\ aBlocks' = {b \in aBlocks : b.owner # id} /\ id # 0
  <2>1. id # 0
    BY StructuresAssumption
  <2> QED BY <2>1 DEF Alloc!allocatorFreeMemory
<1>2. \A c : c \in UNION {BlockCells(b) : b \in his} <=> c \in DOMAIN aMemory /\ aMemory[c] = id
  BY <1>1 DEF AllocInv
<1>3. Alloc!Store!CellsOf(his) = {c \in DOMAIN aMemory : aMemory[c] = id}
  <2>1. Alloc!Store!CellsOf(his) = UNION {BlockCells(b) : b \in his}
    BY DEF Alloc!Store!CellsOf, Alloc!Store!Cells, BlockCells
  <2> HIDE DEF his
  <2> QED BY <1>2, <2>1
<1>4. Alloc!Store!Free(id)
  <2>1. Alloc!Cardinality(Alloc!Store!CellsOf(his)) = Alloc!Store!Cardinality(Alloc!Store!CellsOf(his))
    BY DEF Alloc!Cardinality, Alloc!Store!Cardinality
  <2>2. aBlocks' = aBlocks \ his /\ aAnswer' = Alloc!Store!Cardinality(Alloc!Store!CellsOf(his))
    BY <1>1, <1>3, <2>1
  <2> QED BY <2>2 DEF Alloc!Store!Free
<1>5. AllocInv'
  <2>1. ASSUME NEW b \in aBlocks'
        PROVE  /\ b.owner # 0 /\ BlockCells(b) \subseteq DOMAIN aMemory'
               /\ \A c \in BlockCells(b) : aMemory'[c] = b.owner
    BY <1>1 DEF AllocInv
  <2>2. ASSUME NEW c \in DOMAIN aMemory', aMemory'[c] # 0 PROVE \E b \in aBlocks' : c \in BlockCells(b)
    <3>1. c \in DOMAIN aMemory /\ aMemory[c] # id /\ aMemory[c] # 0
      BY <1>1, <2>2
    <3>2. PICK b \in aBlocks : c \in BlockCells(b) /\ aMemory[c] = b.owner
      BY <3>1 DEF AllocInv
    <3> QED BY <1>1, <3>1, <3>2
  <2> QED BY <1>1, <2>1, <2>2 DEF AllocInv, BlockCells
<1> QED BY <1>4, <1>5

\* An allocator that has only its cells gives out, and takes back, what one that keeps
\* a list of its blocks would: src/2502.c puts a block at the leftmost place that no
\* block covers, refuses it only when there is no such place, whatever has been
\* allocated and freed before, and a free returns the cells of all blocks of its id.
THEOREM AllocatorKeepsBlocks == StructuresSpec => ImplementsBlocks
<1>1. StructuresInit => AllocInv /\ Alloc!Store!Init
  <2> SUFFICES ASSUME Alloc!Init PROVE AllocInv /\ Alloc!Store!Init
    BY DEF StructuresInit
  <2> QED BY DEF Alloc!Init, AllocInv, Alloc!Store!Init
<1>2. AllocInv /\ [StructuresNext]_structureVars => AllocInv' /\ [Alloc!Store!Next]_(Alloc!Store!storeVars)
  <2> SUFFICES ASSUME AllocInv, [StructuresNext]_structureVars
               PROVE  AllocInv' /\ [Alloc!Store!Next]_(Alloc!Store!storeVars)
    OBVIOUS
  <2>1. Alloc!Next \/ UNCHANGED aVars
    BY DEF StructuresNext, structureVars
  <2>2. CASE UNCHANGED aVars
    BY <2>2 DEF aVars, AllocInv, BlockCells, Alloc!Store!storeVars
  <2>3. CASE Alloc!allocatorFree
    <3>1. aMemory' = [c \in {} |-> 0] /\ aBlocks' = {} /\ aAnswer' = 0
      BY <2>3 DEF Alloc!allocatorFree
    <3>2. AllocInv'
      BY <3>1 DEF AllocInv
    <3>3. Alloc!Store!Close
      BY <3>1 DEF Alloc!Store!Close
    <3> QED BY <3>2, <3>3 DEF Alloc!Store!Next
  <2>4. ASSUME NEW id \in Values, Alloc!allocatorFreeMemory(id)
        PROVE  AllocInv' /\ Alloc!Store!Next
    BY <2>4, FreeMemoryStep DEF Alloc!Store!Next
  <2>5. ASSUME NEW id \in Values, NEW length \in Numbers, Alloc!allocatorAllocate(length, id)
        PROVE  AllocInv' /\ Alloc!Store!Next
    BY <2>5, AllocateStep DEF Alloc!Store!Next
  <2>6. ASSUME NEW id \in Values, NEW length \in Numbers, Alloc!Refused(length)
        PROVE  AllocInv' /\ Alloc!Store!Next
    BY <2>6, RefusedStep DEF Alloc!Store!Next
  <2> QED BY <2>1, <2>2, <2>3, <2>4, <2>5, <2>6 DEF Alloc!Next
<1> QED BY <1>1, <1>2, PTL DEF StructuresSpec, ImplementsBlocks, Alloc!ImplementsBlocks, Alloc!Store!Spec

-----------------------------------------------------------------------------
\* The skip list.  The last number up to n that is in R, where 0 is.
LastIn(R, n, q) == q \in 0 .. n /\ q \in R /\ \A r \in q + 1 .. n : r \notin R

LEMMA LastInExists == ASSUME NEW R, 0 \in R, NEW n \in Nat PROVE \E q : LastIn(R, n, q)
<1> DEFINE S == {m \in Nat : \E q : LastIn(R, m, q)}
<1>1. 0 \in S
  <2>1. LastIn(R, 0, 0)
    BY DEF LastIn
  <2> QED BY <2>1
<1>2. ASSUME NEW m \in 0 .. n - 1, m \in S PROVE m + 1 \in S
  <2>1. PICK q : LastIn(R, m, q)
    BY <1>2
  <2>2. CASE m + 1 \in R
    <3>1. LastIn(R, m + 1, m + 1)
      BY <2>2 DEF LastIn
    <3> QED BY <3>1
  <2>3. CASE m + 1 \notin R
    <3>1. LastIn(R, m + 1, q)
      BY <2>1, <2>3 DEF LastIn
    <3> QED BY <3>1
  <2> QED BY <2>2, <2>3
<1>3. \A m \in 0 .. n : m \in S
  <2> HIDE DEF S
  <2> QED BY <1>1, <1>2, UpTo
<1> QED BY <1>3

\* s with n behind its place p.
PutBehind(s, p, n) ==
    [j \in 1 .. Len(s) + 1 |-> IF j <= p THEN s[j] ELSE IF j = p + 1 THEN n ELSE s[j - 1]]

LEMMA PutBehindFacts ==
    ASSUME NEW s \in NodeSeqs, NEW p \in 0 .. Len(s), NEW n \in Nodes, n \notin On(s)
    PROVE  LET t == PutBehind(s, p, n)
           IN  /\ t \in NodeSeqs /\ Len(t) = Len(s) + 1 /\ On(t) = On(s) \cup {n}
               /\ \A j \in 1 .. Len(s) + 1 :
                     t[j] = IF j <= p THEN s[j] ELSE IF j = p + 1 THEN n ELSE s[j - 1]
<1> DEFINE t == PutBehind(s, p, n)
           L == Len(s)
<1>1. /\ L \in Nat /\ L + 1 \in Nat
      /\ \A j \in 1 .. L : s[j] \in Nodes /\ s[j] # n
      /\ \A j, k \in 1 .. L : s[j] = s[k] => j = k
  BY NodeSeqFacts DEF On
<1>2. \A j \in 1 .. L + 1 : t[j] = IF j <= p THEN s[j] ELSE IF j = p + 1 THEN n ELSE s[j - 1]
  BY DEF PutBehind
<1>3. \A j \in 1 .. L + 1 : /\ j <= p => j \in 1 .. L
                            /\ ~(j <= p) /\ j # p + 1 => j - 1 \in 1 .. L /\ j - 1 > p
  BY <1>1
<1>4. t \in [1 .. L + 1 -> Nodes]
  BY <1>1, <1>3 DEF PutBehind
<1>5. t \in Seq(Nodes) /\ Len(t) = L + 1
  BY <1>1, <1>4, FunctionIsSeq
<1> HIDE DEF t
<1>6. ASSUME NEW j \in 1 .. L + 1, NEW k \in 1 .. L + 1, t[j] = t[k] PROVE j = k
  <2>1. CASE j <= p
    BY <1>1, <1>2, <1>3, <1>6, <2>1
  <2>2. CASE j = p + 1
    BY <1>1, <1>2, <1>3, <1>6, <2>2
  <2>3. CASE ~(j <= p) /\ j # p + 1
    BY <1>1, <1>2, <1>3, <1>6, <2>3
  <2> QED BY <2>1, <2>2, <2>3
<1>7. t \in NodeSeqs
  BY <1>5, <1>6 DEF NodeSeqs
<1>8. ASSUME NEW j \in 1 .. L PROVE \E k \in 1 .. L + 1 : t[k] = s[j]
  <2>1. CASE j <= p
    BY <1>1, <1>2, <2>1
  <2>2. CASE ~(j <= p)
    <3>1. j + 1 \in 1 .. L + 1 /\ ~(j + 1 <= p) /\ j + 1 # p + 1 /\ (j + 1) - 1 = j
      BY <1>1, <2>2
    <3> QED BY <1>2, <3>1
  <2> QED BY <2>1, <2>2
<1>9. p + 1 \in 1 .. L + 1 /\ t[p + 1] = n
  BY <1>1, <1>2
<1>10. On(t) = On(s) \cup {n}
  <2>1. On(t) = {t[j] : j \in 1 .. L + 1} /\ On(s) = {s[j] : j \in 1 .. L}
    BY <1>5 DEF On
  <2>2. \A j \in 1 .. L + 1 : t[j] \in On(s) \cup {n}
    BY <1>2, <1>3, <2>1
  <2>3. \A x \in On(s) \cup {n} : x \in On(t)
    BY <1>8, <1>9, <2>1
  <2> QED BY <2>1, <2>2, <2>3
<1> QED BY <1>2, <1>5, <1>7, <1>10 DEF t

\* s is the lowest list, with the head at place 0; f and w are the pointers and the
\* numbers.  Every pointer of list i leads to the next place that reaches up to it.
HeadLevels == 0 .. MAX_LEVEL - 1
Place(s, m) == IF m = 0 THEN Top ELSE s[m]
Places(f, s, i) == {m \in 0 .. Len(s) : i \in DOMAIN f[Place(s, m)]}
NextIs(f, s, m, i) ==
    \E q \in m + 1 .. Len(s) + 1 :
        /\ f[Place(s, m)][i] = At(s, q)
        /\ q <= Len(s) => q \in Places(f, s, i)
        /\ \A r \in m + 1 .. q - 1 : r \notin Places(f, s, i)
Skipping(f, w, s) ==
    /\ s \in NodeSeqs /\ DOMAIN w = On(s) /\ DOMAIN f = On(s) \cup {Top}
    /\ \A m \in 1 .. Len(s) : w[s[m]] \in Numbers
    /\ \A m, q \in 1 .. Len(s) : m < q => w[s[m]] <= w[s[q]]
    /\ \A n \in DOMAIN f : \E h \in 1 .. MAX_LEVEL : DOMAIN f[n] = 0 .. h - 1
    /\ DOMAIN f[Top] = HeadLevels
    /\ \A m \in 0 .. Len(s) : \A i \in DOMAIN f[Place(s, m)] : NextIs(f, s, m, i)
HighestIs(f, s, l) ==
    /\ l \in 1 .. MAX_LEVEL
    /\ l = 1 \/ \E n \in On(s) : l - 1 \in DOMAIN f[n]
    /\ \A n \in On(s), i \in l .. MAX_LEVEL - 1 : i \notin DOMAIN f[n]

LEMMA SkippingFacts ==
    ASSUME NEW f, NEW w, NEW s, Skipping(f, w, s)
    PROVE  /\ s \in NodeSeqs /\ Len(s) \in Nat /\ MAX_LEVEL \in Nat \ {0}
           /\ Place(s, 0) = Top /\ Top # Null
           /\ \A m \in 1 .. Len(s) : /\ Place(s, m) = s[m] /\ At(s, m) = s[m] /\ s[m] \in On(s)
                                     /\ s[m] \in Nodes /\ s[m] # Top /\ s[m] # Null
                                     /\ w[s[m]] \in Int
           /\ \A n \in On(s) : \E m \in 1 .. Len(s) : n = s[m]
           /\ \A m, q \in 0 .. Len(s) : Place(s, m) = Place(s, q) => m = q
           /\ At(s, Len(s) + 1) = Null
           /\ \A m \in 0 .. Len(s) : 0 \in DOMAIN f[Place(s, m)] /\ DOMAIN f[Place(s, m)] \subseteq HeadLevels
           /\ \A i \in HeadLevels : 0 \in Places(f, s, i)
<1>1. s \in NodeSeqs /\ Len(s) \in Nat /\ MAX_LEVEL \in Nat \ {0} /\ Top \notin Nodes \cup {Null} /\ Numbers \subseteq Int
  BY NodeSeqFacts, StructuresAssumption DEF Skipping
<1>2. /\ \A m \in 1 .. Len(s) : s[m] \in Nodes /\ s[m] # Null /\ At(s, m) = s[m] /\ s[m] \in On(s)
      /\ \A m, q \in 1 .. Len(s) : s[m] = s[q] => m = q
      /\ At(s, Len(s) + 1) = Null
  BY <1>1, NodeSeqFacts DEF On
<1>3. /\ Place(s, 0) = Top /\ Top # Null
      /\ \A m \in 1 .. Len(s) : Place(s, m) = s[m] /\ s[m] # Top /\ w[s[m]] \in Int
  BY <1>1, <1>2 DEF Place, Skipping
<1>4. \A m, q \in 0 .. Len(s) : Place(s, m) = Place(s, q) => m = q
  <2>1. \A m \in 0 .. Len(s) : m = 0 \/ m \in 1 .. Len(s)
    BY <1>1
  <2> QED BY <1>2, <1>3, <2>1
<1>5. ASSUME NEW m \in 0 .. Len(s)
      PROVE  0 \in DOMAIN f[Place(s, m)] /\ DOMAIN f[Place(s, m)] \subseteq HeadLevels
  <2>1. Place(s, m) \in DOMAIN f
    BY <1>1, <1>2, <1>3 DEF Skipping
  <2>2. PICK h \in 1 .. MAX_LEVEL : DOMAIN f[Place(s, m)] = 0 .. h - 1
    BY <2>1 DEF Skipping
  <2> QED BY <1>1, <2>2 DEF HeadLevels
<1>6. \A i \in HeadLevels : 0 \in Places(f, s, i)
  BY <1>1, <1>3 DEF Skipping, Places
<1>7. \A n \in On(s) : \E m \in 1 .. Len(s) : n = s[m]
  BY DEF On
<1> QED BY <1>1, <1>2, <1>3, <1>4, <1>5, <1>6, <1>7

\* The numbers below v come first: they are at the places up to P.
Splits(w, s, v, P) ==
    /\ P \in 0 .. Len(s)
    /\ \A m \in 1 .. P : w[s[m]] < v
    /\ \A m \in P + 1 .. Len(s) : w[s[m]] >= v

LEMMA SplitExists ==
    ASSUME NEW f, NEW w, NEW s, Skipping(f, w, s), NEW v \in Numbers
    PROVE  \E P : Splits(w, s, v, P)
<1> DEFINE L == Len(s)
           S == {n \in 0 .. L : \E P \in 0 .. n : /\ \A m \in 1 .. P : w[s[m]] < v
                                                  /\ \A m \in P + 1 .. n : w[s[m]] >= v}
<1>1. L \in Nat /\ v \in Int /\ \A m \in 1 .. L : w[s[m]] \in Int
  BY SkippingFacts, StructuresAssumption
<1>2. 0 \in S
  BY <1>1
<1>3. ASSUME NEW n \in 0 .. L - 1, n \in S PROVE n + 1 \in S
  <2>1. PICK P \in 0 .. n : /\ \A m \in 1 .. P : w[s[m]] < v
                            /\ \A m \in P + 1 .. n : w[s[m]] >= v
    BY <1>3
  <2>2. n + 1 \in 1 .. L /\ w[s[n + 1]] \in Int
    BY <1>1
  <2>3. CASE w[s[n + 1]] < v
    <3>1. ASSUME NEW m \in 1 .. n + 1 PROVE w[s[m]] < v
      <4>1. m = n + 1 \/ w[s[m]] <= w[s[n + 1]]
        BY <1>1 DEF Skipping
      <4> QED BY <1>1, <2>2, <2>3, <4>1
    <3>2. n + 1 \in 0 .. n + 1 /\ n + 1 \in 0 .. L /\ \A m \in (n + 1) + 1 .. n + 1 : w[s[m]] >= v
      BY <1>1
    <3>3. \E Q \in 0 .. n + 1 : /\ \A m \in 1 .. Q : w[s[m]] < v
                               /\ \A m \in Q + 1 .. n + 1 : w[s[m]] >= v
      BY <3>1, <3>2
    <3> QED BY <3>2, <3>3
  <2>4. CASE ~(w[s[n + 1]] < v)
    <3>1. \A m \in P + 1 .. n + 1 : w[s[m]] >= v
      BY <1>1, <2>1, <2>2, <2>4
    <3>2. P \in 0 .. n + 1 /\ n + 1 \in 0 .. L
      BY <1>1
    <3> QED BY <2>1, <3>1, <3>2
  <2> QED BY <2>3, <2>4
<1>4. L \in S
  <2>1. \A n \in 0 .. L - 1 : n \in S => n + 1 \in S
    BY <1>3
  <2> HIDE DEF S
  <2>2. \A n \in 0 .. L : n \in S
    BY <1>1, <1>2, <2>1, UpTo
  <2> QED BY <1>1, <2>2
<1> QED BY <1>4 DEF Splits

\* The step of a descent for v from place m: to a place that is not beyond P exactly if
\* the number there is below v.
NextAt(f, w, s, v, P, m, i, r) ==
    /\ r \in m + 1 .. Len(s) + 1
    /\ f[Place(s, m)][i] = At(s, r)
    /\ r <= Len(s) => r \in Places(f, s, i) /\ r \in 1 .. Len(s) /\ At(s, r) = Place(s, r)
    /\ \A x \in m + 1 .. r - 1 : x \notin Places(f, s, i)
    /\ f[Place(s, m)][i] # Null <=> r <= Len(s)
    /\ f[Place(s, m)][i] # Null /\ w[f[Place(s, m)][i]] < v <=> r <= P

LEMMA NextCases ==
    ASSUME NEW f, NEW w, NEW s, Skipping(f, w, s), NEW v \in Numbers, NEW P, Splits(w, s, v, P),
           NEW i, NEW m \in Places(f, s, i)
    PROVE  \E r : NextAt(f, w, s, v, P, m, i, r)
<1>1. /\ Len(s) \in Nat /\ v \in Int /\ m \in 0 .. Len(s) /\ P \in 0 .. Len(s)
      /\ \A x \in 1 .. Len(s) : /\ Place(s, x) = s[x] /\ At(s, x) = s[x] /\ s[x] # Null
                                /\ w[s[x]] \in Int
      /\ At(s, Len(s) + 1) = Null
  BY SkippingFacts, StructuresAssumption DEF Places, Splits
<1>2. PICK r \in m + 1 .. Len(s) + 1 :
        /\ f[Place(s, m)][i] = At(s, r)
        /\ r <= Len(s) => r \in Places(f, s, i)
        /\ \A x \in m + 1 .. r - 1 : x \notin Places(f, s, i)
  <2>1. i \in DOMAIN f[Place(s, m)] /\ NextIs(f, s, m, i)
    BY <1>1 DEF Skipping, Places
  <2> QED BY <2>1 DEF NextIs
<1>3. CASE r <= Len(s)
  <2>1. r \in 1 .. Len(s)
    BY <1>1, <1>3
  <2>2. w[s[r]] < v <=> r <= P
    BY <1>1, <2>1 DEF Splits
  <2> QED BY <1>1, <1>2, <1>3, <2>1, <2>2 DEF NextAt
<1>4. CASE ~(r <= Len(s))
  <2>1. r = Len(s) + 1 /\ ~(r <= P)
    BY <1>1, <1>4
  <2> QED BY <1>1, <1>2, <1>4, <2>1 DEF NextAt
<1> QED BY <1>3, <1>4

\* The while loop on list i stops at the last place on the list that is not beyond P.
LEMMA BeforeIs ==
    ASSUME NEW s, Skipping(sForward, sVal, s), NEW v \in Numbers, NEW P, Splits(sVal, s, v, P),
           NEW i \in HeadLevels, NEW q, LastIn(Places(sForward, s, i), P, q),
           NEW m \in Places(sForward, s, i), m <= P
    PROVE  Skip!Before(i, v)[Place(s, m)] = Place(s, q)
<1> DEFINE R == Places(sForward, s, i)
           D == Skip!Reaching(i) \cup {Top}
           Stays(n) == IF n = Top \/ sVal[n] < v THEN Place(s, q) ELSE n
           Step(g, n) == IF sForward[n][i] # Null /\ sVal[sForward[n][i]] < v
                         THEN g[sForward[n][i]] ELSE n
           Fits(g) == g = [n \in D |-> Step(g, n)]
           E == [n \in D |-> Stays(n)]
<1>1. /\ Len(s) \in Nat /\ v \in Int /\ P \in 0 .. Len(s) /\ q \in 0 .. P /\ q \in R
      /\ Place(s, 0) = Top /\ 0 \in R
      /\ \A x \in 1 .. Len(s) : /\ Place(s, x) = s[x] /\ At(s, x) = s[x] /\ s[x] # Top
                                /\ sVal[s[x]] \in Int
      /\ \A x \in R : x \in 0 .. Len(s)
  BY SkippingFacts, StructuresAssumption DEF Splits, LastIn, Places
<1>2. \A n : n \in D <=> \E x \in R : n = Place(s, x)
  <2>1. DOMAIN sVal = On(s) /\ \A n \in On(s) : \E x \in 1 .. Len(s) : n = s[x]
    BY SMTT(60), SkippingFacts DEF Skipping
  <2>2. \A x \in 1 .. Len(s) : s[x] \in On(s)
    BY SkippingFacts
  <2>3. \A x \in R : x # 0 => x \in 1 .. Len(s) /\ i \in DOMAIN sForward[s[x]]
    BY <1>1 DEF Places
  <2>4. ASSUME NEW x \in 1 .. Len(s), i \in DOMAIN sForward[s[x]] PROVE x \in R
    BY <1>1, <2>4 DEF Places
  <2>5. Skip!Reaching(i) = {n \in DOMAIN sVal : i \in DOMAIN sForward[n]}
    BY DEF Skip!Reaching, Skip!live
  <2> HIDE DEF R
  <2>6. ASSUME NEW n \in D PROVE \E x \in R : n = Place(s, x)
    <3>1. CASE n = Top
      BY <1>1, <3>1
    <3>2. CASE n # Top
      <4>1. n \in On(s) /\ i \in DOMAIN sForward[n]
        BY <2>1, <2>5, <3>2
      <4>2. PICK x \in 1 .. Len(s) : n = s[x]
        BY <2>1, <4>1
      <4> QED BY <1>1, <2>4, <4>1, <4>2
    <3> QED BY <3>1, <3>2
  <2>7. ASSUME NEW x \in R PROVE Place(s, x) \in D
    <3>1. CASE x = 0
      BY <1>1, <3>1
    <3>2. CASE x # 0
      BY <1>1, <2>1, <2>2, <2>3, <2>5, <3>2
    <3> QED BY <3>1, <3>2
  <2> QED BY <2>6, <2>7
<1>3. ASSUME NEW x \in R
      PROVE  \E r : NextAt(sForward, sVal, s, v, P, x, i, r)
  BY NextCases
<1>4. \A x \in R : Stays(Place(s, x)) = IF x <= P THEN Place(s, q) ELSE Place(s, x)
  <2>1. ASSUME NEW x \in R PROVE Place(s, x) = Top \/ sVal[Place(s, x)] < v <=> x <= P
    <3>1. CASE x = 0
      BY <1>1, <3>1
    <3>2. CASE x # 0
      <4>1. x \in 1 .. Len(s)
        BY <1>1, <3>2
      <4> QED BY <1>1, <4>1 DEF Splits
    <3> QED BY <3>1, <3>2
  <2> QED BY <2>1
<1>5. \A x \in R : x <= P => x <= q
  BY <1>1 DEF LastIn
<1> HIDE DEF R, D, Stays
<1>6. Fits(E)
  <2>1. ASSUME NEW x \in R PROVE E[Place(s, x)] = Step(E, Place(s, x))
    <3>1. PICK r : NextAt(sForward, sVal, s, v, P, x, i, r)
      BY <1>3
    <3>2. Place(s, x) \in D /\ E[Place(s, x)] = Stays(Place(s, x)) /\ x \in 0 .. Len(s) /\ r \in Int
      BY <1>1, <1>2, <3>1 DEF NextAt
    <3>3. CASE r <= P
      <4>1. r \in R /\ sForward[Place(s, x)][i] = Place(s, r) /\ x <= P
        BY <1>1, <3>1, <3>2, <3>3 DEF NextAt, R
      <4>2. E[Place(s, r)] = Place(s, q)
        BY <1>2, <1>4, <3>3, <4>1
      <4>3. Step(E, Place(s, x)) = E[Place(s, r)]
        BY <3>1, <3>3, <4>1 DEF NextAt
      <4> QED BY <1>4, <3>2, <4>1, <4>2, <4>3
    <3>4. CASE ~(r <= P)
      <4>1. Step(E, Place(s, x)) = Place(s, x)
        BY <3>1, <3>4 DEF NextAt
      <4>2. x <= P => x = q
        BY <1>1, <1>5, <3>1, <3>2, <3>4 DEF NextAt, R
      <4> QED BY <1>4, <3>2, <4>1, <4>2
    <3> QED BY <3>3, <3>4
  <2>2. \A n \in D : E[n] = Step(E, n)
    BY <1>2, <2>1
  <2>3. E = [n \in D |-> E[n]]
    OBVIOUS
  <2> HIDE DEF E
  <2> QED BY <2>2, <2>3
<1>7. Skip!Before(i, v) = CHOOSE g : Fits(g)
  BY DEF Skip!Before, D
<1>8. Fits(Skip!Before(i, v))
  <2> HIDE DEF Fits
  <2> QED BY <1>6, <1>7
<1> DEFINE g == Skip!Before(i, v)
           S == {k \in 0 .. P : \A x \in R : x <= P /\ x >= P - k => g[Place(s, x)] = Place(s, q)}
<1>9. \A x \in R : g[Place(s, x)] = Step(g, Place(s, x))
  <2>1. \A n \in D : g[n] = Step(g, n)
    BY <1>8
  <2> HIDE DEF g
  <2> QED BY <1>2, <2>1
<1> HIDE DEF g, Fits, E
<1>10. ASSUME NEW x \in R, x <= P
       PROVE  \/ g[Place(s, x)] = Place(s, q)
              \/ \E r \in R : r > x /\ r <= P /\ g[Place(s, x)] = g[Place(s, r)]
  <2>1. PICK r : NextAt(sForward, sVal, s, v, P, x, i, r)
    BY <1>3
  <2>2. x \in 0 .. Len(s) /\ r \in Int /\ r > x
    BY <1>1, <2>1 DEF NextAt
  <2>3. CASE r <= P
    <3>1. r \in R /\ sForward[Place(s, x)][i] = Place(s, r)
      BY <1>1, <2>1, <2>2, <2>3 DEF NextAt, R
    <3>2. g[Place(s, x)] = g[Place(s, r)]
      BY <1>9, <2>1, <2>3, <3>1 DEF NextAt
    <3> QED BY <2>2, <2>3, <3>1, <3>2
  <2>4. CASE ~(r <= P)
    <3>1. g[Place(s, x)] = Place(s, x)
      BY <1>9, <2>1, <2>4 DEF NextAt
    <3>2. x = q
      BY <1>1, <1>5, <1>10, <2>1, <2>2, <2>4 DEF NextAt, R
    <3> QED BY <3>1, <3>2
  <2> QED BY <2>3, <2>4
<1>11. 0 \in S
  <2>1. \A x \in R : x <= P /\ x >= P - 0 => g[Place(s, x)] = Place(s, q)
    <3> SUFFICES ASSUME NEW x \in R, x <= P, x >= P - 0 PROVE g[Place(s, x)] = Place(s, q)
      OBVIOUS
    <3>1. x \in Int /\ P \in Int /\ \A r \in R : r \in Int
      BY <1>1
    <3>2. ~\E r \in R : r > x /\ r <= P /\ g[Place(s, x)] = g[Place(s, r)]
      BY <3>1
    <3> HIDE DEF g, R
    <3> QED BY <1>10, <3>2
  <2> QED BY <1>1, <2>1
<1>12. \A k \in 0 .. P - 1 : k \in S => k + 1 \in S
  <2> SUFFICES ASSUME NEW k \in 0 .. P - 1, k \in S PROVE k + 1 \in S
    OBVIOUS
  <2>1. ASSUME NEW x \in R, x <= P, x >= P - (k + 1) PROVE g[Place(s, x)] = Place(s, q)
    <3>1. x \in Int /\ P \in Int /\ k \in Int /\ \A r \in R : r \in Int
      BY <1>1
    <3>2. \A r \in R : r > x /\ r <= P => r >= P - k
      BY <2>1, <3>1
    <3>3. \A r \in R : r <= P /\ r >= P - k => g[Place(s, r)] = Place(s, q)
      OBVIOUS
    <3> QED BY <1>10, <2>1, <3>2, <3>3
  <2>2. k + 1 \in 0 .. P
    BY <1>1
  <2> QED BY <2>1, <2>2
<1>13. P \in S
  <2> HIDE DEF S
  <2>1. P \in Nat
    BY <1>1
  <2>2. \A k \in 0 .. P : k \in S
    BY <1>11, <1>12, <2>1, UpTo
  <2> QED BY <2>1, <2>2
<1>14. m \in R /\ m >= P - P
  <2>1. m \in R
    BY DEF R
  <2> QED BY <1>1, <2>1
<1> QED BY <1>13, <1>14 DEF g

\* Where a descent leaves list i: at the last place on it that is not beyond P.
Turn(f, s, P, i) == CHOOSE q : LastIn(Places(f, s, i), P, q)

LEMMA TurnIs ==
    ASSUME NEW f, NEW w, NEW s, Skipping(f, w, s), NEW v, NEW P, Splits(w, s, v, P), NEW i \in HeadLevels
    PROVE  LastIn(Places(f, s, i), P, Turn(f, s, P, i)) /\ Turn(f, s, P, i) \in 0 .. P
<1>1. 0 \in Places(f, s, i) /\ P \in Nat
  BY SkippingFacts DEF Splits
<1>2. \E q : LastIn(Places(f, s, i), P, q)
  BY <1>1, LastInExists
<1>3. LastIn(Places(f, s, i), P, Turn(f, s, P, i))
  BY <1>2 DEF Turn
<1> QED BY <1>3 DEF LastIn

LEMMA PlacesNested ==
    ASSUME NEW f, NEW w, NEW s, Skipping(f, w, s), NEW i \in HeadLevels, NEW j \in 0 .. i
    PROVE  Places(f, s, i) \subseteq Places(f, s, j)
<1> SUFFICES ASSUME NEW m \in Places(f, s, i) PROVE m \in Places(f, s, j)
  OBVIOUS
<1>1. m \in 0 .. Len(s) /\ i \in DOMAIN f[Place(s, m)]
  BY DEF Places
<1>2. Place(s, m) \in DOMAIN f
  <2>1. CASE m = 0
    BY <2>1 DEF Place, Skipping
  <2>2. CASE m # 0
    <3>1. m \in 1 .. Len(s)
      BY <1>1, <2>2, SkippingFacts
    <3>2. s[m] \in On(s) /\ Place(s, m) = s[m]
      BY <3>1, SkippingFacts
    <3> QED BY <3>2 DEF Skipping
  <2> QED BY <2>1, <2>2
<1>3. PICK h \in 1 .. MAX_LEVEL : DOMAIN f[Place(s, m)] = 0 .. h - 1
  BY <1>2 DEF Skipping
<1>4. MAX_LEVEL \in Nat /\ i \in Int
  BY StructuresAssumption DEF HeadLevels
<1>5. j \in 0 .. h - 1
  BY <1>1, <1>3, <1>4
<1> QED BY <1>1, <1>3, <1>5 DEF Places

LEMMA UpdateIs ==
    ASSUME NEW s, Skipping(sForward, sVal, s), HighestIs(sForward, s, sLevel), NEW v \in Numbers,
           NEW P, Splits(sVal, s, v, P), NEW i \in HeadLevels
    PROVE  Skip!update(v)[i] = Place(s, Turn(sForward, s, P, i))
<1> DEFINE T(j) == Turn(sForward, s, P, j)
           R(j) == Places(sForward, s, j)
           Step(g, j) == IF j >= sLevel THEN Top ELSE Skip!Before(j, v)[g[j + 1]]
           Fits(g) == g = [j \in 0 .. MAX_LEVEL |-> Step(g, j)]
           E == [j \in 0 .. MAX_LEVEL |-> IF j >= sLevel THEN Top ELSE Place(s, T(j))]
<1>1. /\ MAX_LEVEL \in Nat /\ sLevel \in Int /\ sLevel <= MAX_LEVEL /\ Place(s, 0) = Top
      /\ HeadLevels = 0 .. MAX_LEVEL - 1 /\ Len(s) \in Nat /\ P \in 0 .. Len(s)
  BY StructuresAssumption, SkippingFacts DEF HighestIs, HeadLevels, Splits
<1>2. \A j \in HeadLevels : T(j) \in R(j) /\ T(j) \in 0 .. P /\ LastIn(R(j), P, T(j))
  BY TurnIs DEF LastIn
<1>3. \A j \in HeadLevels : 0 \in R(j)
  BY SkippingFacts
<1>4. ASSUME NEW j \in HeadLevels, j >= sLevel PROVE Place(s, T(j)) = Top
  <2>1. CASE T(j) = 0
    BY <1>1, <2>1
  <2>2. CASE T(j) # 0
    <3>1. T(j) \in 1 .. Len(s) /\ j \in sLevel .. MAX_LEVEL - 1
      BY <1>1, <1>2, <1>4, <2>2
    <3>2. j \notin DOMAIN sForward[s[T(j)]]
      BY <3>1 DEF HighestIs, On
    <3>3. Place(s, T(j)) = s[T(j)]
      BY <2>2 DEF Place
    <3> QED BY <1>2, <3>2, <3>3 DEF Places
  <2> QED BY <2>1, <2>2
<1>5. \A j \in HeadLevels : \A m \in R(j) : m <= P => Skip!Before(j, v)[Place(s, m)] = Place(s, T(j))
  BY <1>2, BeforeIs
<1> HIDE DEF T
<1>6. ASSUME NEW g, NEW j \in 0 .. MAX_LEVEL, j < MAX_LEVEL => g[j + 1] = E[j + 1]
      PROVE  Step(g, j) = E[j]
  <2>1. CASE j >= sLevel
    BY <2>1
  <2>2. CASE ~(j >= sLevel)
    <3>1. j \in HeadLevels /\ j + 1 \in 0 .. MAX_LEVEL /\ j < MAX_LEVEL /\ j \in 0 .. j + 1
      BY <1>1, <2>2
    <3>2. \E m \in R(j) : m <= P /\ E[j + 1] = Place(s, m)
      <4>1. CASE j + 1 >= sLevel
        <5>1. E[j + 1] = Top /\ 0 <= P
          BY <1>1, <3>1, <4>1
        <5> QED BY <1>1, <1>3, <3>1, <5>1
      <4>2. CASE ~(j + 1 >= sLevel)
        <5>1. j + 1 \in HeadLevels /\ E[j + 1] = Place(s, T(j + 1))
          BY <1>1, <3>1, <4>2
        <5>2. T(j + 1) \in R(j + 1) /\ T(j + 1) <= P
          BY <1>1, <1>2, <5>1
        <5>3. R(j + 1) \subseteq R(j)
          BY <3>1, <5>1, PlacesNested
        <5> QED BY <5>1, <5>2, <5>3
      <4> QED BY <4>1, <4>2
    <3>3. Skip!Before(j, v)[E[j + 1]] = Place(s, T(j))
      <4> HIDE DEF E, R
      <4> QED BY <1>5, <3>1, <3>2
    <3>4. E[j] = Place(s, T(j))
      BY <2>2
    <3> QED BY <1>6, <2>2, <3>1, <3>3, <3>4
  <2> QED BY <2>1, <2>2
<1>7. Fits(E)
  <2>1. \A j \in 0 .. MAX_LEVEL : Step(E, j) = E[j]
    BY <1>6
  <2>2. E = [j \in 0 .. MAX_LEVEL |-> E[j]]
    OBVIOUS
  <2> HIDE DEF E, Step
  <2> QED BY <2>1, <2>2
<1>8. Skip!update(v) = CHOOSE g : Fits(g)
  BY DEF Skip!update
<1>9. Fits(Skip!update(v))
  <2> HIDE DEF Fits
  <2> QED BY <1>7, <1>8
<1> DEFINE g == Skip!update(v)
           S == {k \in 0 .. MAX_LEVEL : \A j \in 0 .. MAX_LEVEL : j >= MAX_LEVEL - k => g[j] = E[j]}
<1>10. \A j \in 0 .. MAX_LEVEL : g[j] = Step(g, j)
  <2> HIDE DEF Step
  <2> QED BY <1>9
<1> HIDE DEF g, E, Step, Fits
<1>11. 0 \in S
  <2>1. ASSUME NEW j \in 0 .. MAX_LEVEL, j >= MAX_LEVEL - 0 PROVE g[j] = E[j]
    <3>1. ~(j < MAX_LEVEL)
      BY <1>1, <2>1
    <3> QED BY <1>6, <1>10, <3>1
  <2> QED BY <1>1, <2>1
<1>12. \A k \in 0 .. MAX_LEVEL - 1 : k \in S => k + 1 \in S
  <2> SUFFICES ASSUME NEW k \in 0 .. MAX_LEVEL - 1, k \in S PROVE k + 1 \in S
    OBVIOUS
  <2>1. ASSUME NEW j \in 0 .. MAX_LEVEL, j >= MAX_LEVEL - (k + 1) PROVE g[j] = E[j]
    <3>1. j < MAX_LEVEL => j + 1 \in 0 .. MAX_LEVEL /\ j + 1 >= MAX_LEVEL - k
      BY <1>1, <2>1
    <3>2. j < MAX_LEVEL => g[j + 1] = E[j + 1]
      BY <3>1
    <3> QED BY <1>6, <1>10, <3>2
  <2>2. k + 1 \in 0 .. MAX_LEVEL
    BY <1>1
  <2> QED BY <2>1, <2>2
<1>13. \A j \in 0 .. MAX_LEVEL : g[j] = E[j]
  <2> HIDE DEF S
  <2>1. \A k \in 0 .. MAX_LEVEL : k \in S
    BY <1>1, <1>11, <1>12, UpTo
  <2>2. MAX_LEVEL \in S
    BY <1>1, <2>1
  <2>3. \A j \in 0 .. MAX_LEVEL : j >= MAX_LEVEL - MAX_LEVEL => g[j] = E[j]
    BY <2>2 DEF S
  <2> QED BY <1>1, <2>3
<1>14. i \in 0 .. MAX_LEVEL /\ g[i] = E[i]
  BY <1>1, <1>13
<1> QED BY <1>4, <1>14 DEF E, T, g

\* Every node is on the lowest list, so a descent ends at place P, and what is found
\* there is the number looked for exactly if that is in the list.
LEMMA LowestNext ==
    ASSUME NEW f, NEW w, NEW s, Skipping(f, w, s), NEW m \in 0 .. Len(s)
    PROVE  f[Place(s, m)][0] = At(s, m + 1)
<1>1. Len(s) \in Nat /\ \A x \in 0 .. Len(s) : 0 \in DOMAIN f[Place(s, x)]
  BY SkippingFacts
<1>2. PICK q \in m + 1 .. Len(s) + 1 :
          /\ f[Place(s, m)][0] = At(s, q)
          /\ \A r \in m + 1 .. q - 1 : r \notin Places(f, s, 0)
  BY <1>1 DEF Skipping, NextIs
<1>3. \A x \in 0 .. Len(s) : x \in Places(f, s, 0)
  BY <1>1 DEF Places
<1>4. CASE q = m + 1
  BY <1>2, <1>4
<1>5. CASE q # m + 1
  <2>1. m + 1 \in m + 1 .. q - 1 /\ m + 1 \in 0 .. Len(s)
    BY <1>1, <1>5
  <2> QED BY <1>2, <1>3, <2>1
<1> QED BY <1>4, <1>5

LEMMA FoundIs ==
    ASSUME NEW s, Skipping(sForward, sVal, s), HighestIs(sForward, s, sLevel), NEW v \in Numbers,
           NEW P, Splits(sVal, s, v, P)
    PROVE  /\ Skip!Found(v) = At(s, P + 1)
           /\ Skip!Hits(v) <=> P + 1 <= Len(s) /\ sVal[s[P + 1]] = v
           /\ Skip!Hits(v) <=> \E n \in DOMAIN sVal : sVal[n] = v
<1>1. /\ Len(s) \in Nat /\ P \in 0 .. Len(s) /\ 0 \in HeadLevels /\ v \in Int
      /\ \A m \in 1 .. Len(s) : At(s, m) = s[m] /\ s[m] # Null /\ sVal[s[m]] \in Int /\ s[m] \in On(s)
      /\ \A n \in On(s) : \E m \in 1 .. Len(s) : n = s[m]
      /\ At(s, Len(s) + 1) = Null /\ DOMAIN sVal = On(s)
  <2>1. 0 \in HeadLevels /\ v \in Int
    BY StructuresAssumption DEF HeadLevels
  <2>2. P \in 0 .. Len(s) /\ DOMAIN sVal = On(s)
    BY DEF Splits, Skipping
  <2>3. /\ Len(s) \in Nat /\ At(s, Len(s) + 1) = Null
        /\ \A m \in 1 .. Len(s) : At(s, m) = s[m] /\ s[m] # Null /\ sVal[s[m]] \in Int /\ s[m] \in On(s)
        /\ \A n \in On(s) : \E m \in 1 .. Len(s) : n = s[m]
    BY SkippingFacts
  <2> QED BY <2>1, <2>2, <2>3
<1>2. Skip!update(v)[0] = Place(s, P)
  <2>1. Skip!update(v)[0] = Place(s, Turn(sForward, s, P, 0))
    BY <1>1, UpdateIs
  <2>2. /\ Turn(sForward, s, P, 0) \in 0 .. P
        /\ \A r \in Turn(sForward, s, P, 0) + 1 .. P : r \notin Places(sForward, s, 0)
    BY <1>1, TurnIs DEF LastIn
  <2>3. P \in Places(sForward, s, 0)
    BY <1>1, SkippingFacts DEF Places
  <2>4. Turn(sForward, s, P, 0) = P
    BY <1>1, <2>2, <2>3
  <2> QED BY <2>1, <2>4
<1>3. Skip!Found(v) = At(s, P + 1)
  BY <1>1, <1>2, LowestNext DEF Skip!Found
<1>4. Skip!Hits(v) <=> P + 1 <= Len(s) /\ sVal[s[P + 1]] = v
  <2>1. CASE P + 1 <= Len(s)
    <3>1. P + 1 \in 1 .. Len(s)
      BY <1>1, <2>1
    <3> QED BY <1>1, <1>3, <2>1, <3>1 DEF Skip!Hits
  <2>2. CASE ~(P + 1 <= Len(s))
    <3>1. P + 1 = Len(s) + 1
      BY <1>1, <2>2
    <3> QED BY <1>1, <1>3, <2>2, <3>1 DEF Skip!Hits
  <2> QED BY <2>1, <2>2
<1>5. ASSUME NEW n \in DOMAIN sVal, sVal[n] = v PROVE P + 1 <= Len(s) /\ sVal[s[P + 1]] = v
  <2>1. PICK m \in 1 .. Len(s) : n = s[m]
    BY <1>1
  <2>2. ~(m <= P)
    BY <1>1, <1>5, <2>1 DEF Splits
  <2>3. P + 1 \in 1 .. Len(s) /\ P + 1 \in P + 1 .. Len(s)
    BY <1>1, <2>2
  <2>4. sVal[s[P + 1]] <= sVal[s[m]]
    BY <1>1, <2>2, <2>3 DEF Skipping
  <2>5. sVal[s[P + 1]] >= v
    BY <2>3 DEF Splits
  <2> QED BY <1>1, <1>5, <2>1, <2>3, <2>4, <2>5
<1>6. P + 1 <= Len(s) => s[P + 1] \in DOMAIN sVal
  BY <1>1
<1> QED BY <1>3, <1>4, <1>5, <1>6

\* skiplistFree meets the nodes in the order of s.
LEMMA AlongIs == ASSUME NEW s, Skipping(sForward, sVal, s) PROVE Skip!Along = s
<1> DEFINE L == Len(s)
           D == Skip!live \cup {Top}
           Next0(n) == sForward[n][0]
           Step(g, n) == IF Next0(n) = Null THEN <<>> ELSE <<Next0(n)>> \o g[Next0(n)]
           Fits(g) == g = [n \in D |-> Step(g, n)]
           At0(n) == CHOOSE m \in 0 .. L : Place(s, m) = n
           E == [n \in D |-> SubSeq(s, At0(n) + 1, L)]
<1>1. /\ L \in Nat /\ s \in Seq(Nodes) /\ Place(s, 0) = Top
      /\ \A m \in 1 .. L : Place(s, m) = s[m] /\ At(s, m) = s[m] /\ s[m] # Null /\ s[m] \in Nodes
      /\ At(s, L + 1) = Null
  BY SkippingFacts, NodeSeqFacts
<1>2. \A n : n \in D <=> \E m \in 0 .. L : n = Place(s, m)
  <2>1. D = On(s) \cup {Top}
    BY DEF Skip!live, Skipping
  <2>2. \A n \in On(s) : \E m \in 1 .. L : n = s[m]
    BY SkippingFacts
  <2>3. \A m \in 1 .. L : s[m] \in On(s)
    BY SkippingFacts
  <2>4. \A m \in 0 .. L : m = 0 \/ m \in 1 .. L
    BY <1>1
  <2>5. 0 \in 0 .. L /\ \A m \in 1 .. L : m \in 0 .. L
    BY <1>1
  <2> HIDE DEF L, D
  <2> QED BY <1>1, <2>1, <2>2, <2>3, <2>4, <2>5
<1>3. \A m \in 0 .. L : Place(s, m) \in D /\ E[Place(s, m)] = SubSeq(s, m + 1, L)
  <2>1. \A m, q \in 0 .. L : Place(s, m) = Place(s, q) => m = q
    BY SkippingFacts
  <2>2. \A m \in 0 .. L : At0(Place(s, m)) = m
    BY <2>1
  <2> HIDE DEF D, At0, L
  <2> QED BY <1>2, <2>2
<1>4. \A m \in 0 .. L : Next0(Place(s, m)) = At(s, m + 1)
  BY LowestNext
<1> HIDE DEF Next0, D, E
<1>5. ASSUME NEW g, NEW m \in 0 .. L, m < L => g[Place(s, m + 1)] = SubSeq(s, (m + 1) + 1, L)
      PROVE  Step(g, Place(s, m)) = SubSeq(s, m + 1, L)
  <2>1. CASE m < L
    <3>1. m + 1 \in 1 .. L /\ L \in m + 1 .. L
      BY <1>1, <2>1
    <3>2. SubSeq(s, m + 1, L) = <<s[m + 1]>> \o SubSeq(s, (m + 1) + 1, L)
      BY <1>1, <3>1, SubSeqRecursiveFirst
    <3>3. Next0(Place(s, m)) = s[m + 1] /\ s[m + 1] # Null /\ s[m + 1] = Place(s, m + 1)
      BY <1>1, <1>4, <3>1
    <3> QED BY <1>5, <2>1, <3>2, <3>3
  <2>2. CASE ~(m < L)
    <3>1. m = L /\ L + 1 \in Int /\ L < L + 1 /\ L \in Int
      BY <1>1, <2>2
    <3>2. SubSeq(s, L + 1, L) = <<>>
      BY <3>1, SubSeqEmpty
    <3>3. Next0(Place(s, m)) = Null
      BY <1>1, <1>4, <3>1
    <3> QED BY <3>1, <3>2, <3>3
  <2> QED BY <2>1, <2>2
<1>6. Fits(E)
  <2>1. ASSUME NEW m \in 0 .. L PROVE E[Place(s, m)] = Step(E, Place(s, m))
    <3>1. m < L => m + 1 \in 0 .. L
      BY <1>1
    <3> HIDE DEF Step, L
    <3> QED BY <1>3, <1>5, <3>1
  <2>2. \A n \in D : E[n] = Step(E, n)
    <3> HIDE DEF Step, L
    <3> QED BY <1>2, <2>1
  <2>3. E = [n \in D |-> E[n]]
    <3> HIDE DEF At0
    <3> QED BY DEF E
  <2> HIDE DEF Step
  <2> QED BY <2>2, <2>3
<1>7. Skip!Along = (CHOOSE g : Fits(g))[Top]
  BY DEF Skip!Along, D, Next0
<1> DEFINE g == CHOOSE h : Fits(h)
           S == {k \in 0 .. L : \A m \in 0 .. L : m >= L - k => g[Place(s, m)] = SubSeq(s, m + 1, L)}
<1>8. Fits(g)
  <2> HIDE DEF Fits
  <2> QED BY <1>6
<1> HIDE DEF g
<1>9. \A m \in 0 .. L : g[Place(s, m)] = Step(g, Place(s, m))
  <2>1. \A n \in D : g[n] = Step(g, n)
    <3> HIDE DEF Step
    <3> QED BY <1>8
  <2> HIDE DEF Step, L
  <2> QED BY <1>3, <2>1
<1> HIDE DEF Step, Fits
<1>10. 0 \in S
  <2>1. ASSUME NEW m \in 0 .. L, m >= L - 0 PROVE g[Place(s, m)] = SubSeq(s, m + 1, L)
    <3>1. ~(m < L)
      BY <1>1, <2>1
    <3> QED BY <1>5, <1>9, <3>1
  <2> QED BY <1>1, <2>1
<1>11. \A k \in 0 .. L - 1 : k \in S => k + 1 \in S
  <2> SUFFICES ASSUME NEW k \in 0 .. L - 1, k \in S PROVE k + 1 \in S
    OBVIOUS
  <2>1. ASSUME NEW m \in 0 .. L, m >= L - (k + 1) PROVE g[Place(s, m)] = SubSeq(s, m + 1, L)
    <3>1. m < L => m + 1 \in 0 .. L /\ m + 1 >= L - k
      BY <1>1, <2>1
    <3>2. m < L => g[Place(s, m + 1)] = SubSeq(s, (m + 1) + 1, L)
      BY <3>1
    <3> QED BY <1>5, <1>9, <3>2
  <2>2. k + 1 \in 0 .. L
    BY <1>1
  <2> QED BY <2>1, <2>2
<1>12. g[Place(s, 0)] = SubSeq(s, 0 + 1, L)
  <2> HIDE DEF S
  <2>1. \A k \in 0 .. L : k \in S
    BY <1>1, <1>10, <1>11, UpTo
  <2>2. L \in S
    BY <1>1, <2>1
  <2>3. \A m \in 0 .. L : m >= L - L => g[Place(s, m)] = SubSeq(s, m + 1, L)
    BY <2>2 DEF S
  <2>4. 0 \in 0 .. L /\ 0 >= L - L
    BY <1>1
  <2> QED BY <2>3, <2>4
<1>13. SubSeq(s, 1, L) = s
  BY <1>1, SubSeqFull
<1> QED BY <1>1, <1>7, <1>12, <1>13 DEF g

\* A new node behind place P, with the pointers of the nodes where the descent turned:
\* each list is still what is left of the lowest one.
AddedVal(w, s, n, v) == [m \in On(s) \cup {n} |-> IF m = n THEN v ELSE w[m]]
AddedForward(f, s, P, n, lvl) ==
    [m \in On(s) \cup {Top, n} |->
        IF m = n THEN [i \in 0 .. lvl - 1 |-> f[Place(s, Turn(f, s, P, i))][i]]
        ELSE [i \in DOMAIN f[m] |->
                 IF i < lvl /\ Place(s, Turn(f, s, P, i)) = m THEN n ELSE f[m][i]]]

LEMMA AddedIsSkipping ==
    ASSUME NEW f, NEW w, NEW s, Skipping(f, w, s), NEW v \in Numbers, NEW P, Splits(w, s, v, P),
           NEW n \in Nodes, n \notin On(s), NEW lvl \in 1 .. MAX_LEVEL
    PROVE  Skipping(AddedForward(f, s, P, n, lvl), AddedVal(w, s, n, v), PutBehind(s, P, n))
<1> DEFINE L == Len(s)
           t == PutBehind(s, P, n)
           x == AddedVal(w, s, n, v)
           g == AddedForward(f, s, P, n, lvl)
           R(i) == Places(f, s, i)
           T(i) == Turn(f, s, P, i)
<1>1. /\ L \in Nat /\ P \in 0 .. L /\ v \in Int /\ MAX_LEVEL \in Nat /\ n # Top /\ n # Null /\ lvl \in Int
      /\ \A m \in 1 .. L : /\ Place(s, m) = s[m] /\ At(s, m) = s[m] /\ s[m] # n /\ s[m] \in On(s)
                           /\ w[s[m]] \in Int
      /\ At(s, L + 1) = Null /\ Place(s, 0) = Top /\ HeadLevels = 0 .. MAX_LEVEL - 1
  <2>1. n # Top /\ n # Null /\ v \in Int /\ MAX_LEVEL \in Nat /\ HeadLevels = 0 .. MAX_LEVEL - 1
    BY StructuresAssumption, NullIsNoNode DEF HeadLevels
  <2>2. P \in 0 .. L /\ lvl \in Int
    BY <2>1 DEF Splits
  <2>3. /\ L \in Nat /\ At(s, L + 1) = Null /\ Place(s, 0) = Top
        /\ \A m \in 1 .. L : /\ Place(s, m) = s[m] /\ At(s, m) = s[m] /\ s[m] \in On(s)
                             /\ w[s[m]] \in Int
    BY SkippingFacts
  <2> QED BY <2>1, <2>2, <2>3
<1>2. /\ t \in NodeSeqs /\ Len(t) = L + 1 /\ On(t) = On(s) \cup {n}
      /\ \A j \in 1 .. L + 1 : t[j] = IF j <= P THEN s[j] ELSE IF j = P + 1 THEN n ELSE s[j - 1]
  <2>1. s \in NodeSeqs
    BY DEF Skipping
  <2> QED BY <1>1, <2>1, PutBehindFacts
<1> HIDE DEF t, x, g
<1>3. \A j \in 0 .. L + 1 :
          Place(t, j) = IF j <= P THEN Place(s, j) ELSE IF j = P + 1 THEN n ELSE Place(s, j - 1)
  <2> SUFFICES ASSUME NEW j \in 0 .. L + 1
               PROVE  Place(t, j) = IF j <= P THEN Place(s, j)
                                    ELSE IF j = P + 1 THEN n ELSE Place(s, j - 1)
    OBVIOUS
  <2>1. CASE j = 0
    BY <1>1, <2>1 DEF Place
  <2>2. CASE j # 0
    <3>1. j \in 1 .. L + 1 /\ Place(t, j) = t[j]
      BY <1>1, <2>2 DEF Place
    <3>2. j <= P => j \in 1 .. L
      BY <1>1, <3>1
    <3>3. ~(j <= P) /\ j # P + 1 => j - 1 \in 1 .. L
      BY <1>1, <3>1
    <3> QED BY <1>1, <1>2, <3>1, <3>2, <3>3
  <2> QED BY <2>1, <2>2
<1>4. /\ \A r \in 1 .. L + 1 : At(s, r) = IF r <= P THEN At(t, r) ELSE At(t, r + 1)
      /\ At(t, P + 1) = n
  <2>1. ASSUME NEW r \in 1 .. L + 1 PROVE At(s, r) = IF r <= P THEN At(t, r) ELSE At(t, r + 1)
    <3>1. CASE r <= P
      BY <1>1, <1>2, <3>1 DEF At
    <3>2. CASE ~(r <= P) /\ r <= L
      <4>1. r + 1 \in 1 .. L + 1 /\ ~(r + 1 <= P) /\ r + 1 # P + 1 /\ (r + 1) - 1 = r /\ r \in 1 .. L
        BY <1>1, <3>2
      <4> QED BY <1>1, <1>2, <3>2, <4>1 DEF At
    <3>3. CASE ~(r <= P) /\ ~(r <= L)
      <4>1. r + 1 \notin 1 .. L + 1 /\ r = L + 1
        BY <1>1, <3>3
      <4> QED BY <1>1, <1>2, <3>3, <4>1 DEF At
    <3> QED BY <3>1, <3>2, <3>3
  <2>2. At(t, P + 1) = n
    BY <1>1, <1>2 DEF At
  <2> QED BY <2>1, <2>2
<1>5. \A i \in HeadLevels : T(i) \in R(i) /\ T(i) \in 0 .. P /\ \A r \in T(i) + 1 .. P : r \notin R(i)
  BY TurnIs DEF LastIn
<1>6. /\ DOMAIN g[n] = 0 .. lvl - 1
      /\ \A i \in 0 .. lvl - 1 : i \in HeadLevels /\ g[n][i] = f[Place(s, T(i))][i]
  <2>1. \A i \in 0 .. lvl - 1 : i \in HeadLevels
    BY <1>1
  <2> QED BY <2>1 DEF g, AddedForward
<1> HIDE DEF T
<1>7. ASSUME NEW m \in 0 .. L
      PROVE  /\ DOMAIN g[Place(s, m)] = DOMAIN f[Place(s, m)]
             /\ DOMAIN f[Place(s, m)] \subseteq HeadLevels
             /\ \A i \in DOMAIN f[Place(s, m)] :
                   g[Place(s, m)][i] = IF i < lvl /\ T(i) = m THEN n ELSE f[Place(s, m)][i]
  <2>1. Place(s, m) \in On(s) \cup {Top} /\ Place(s, m) # n
    <3>1. CASE m = 0
      BY <1>1, <3>1
    <3>2. CASE m # 0
      BY <1>1, <3>2
    <3> QED BY <3>1, <3>2
  <2>2. /\ \A q \in 0 .. L : Place(s, m) = Place(s, q) => m = q
        /\ DOMAIN f[Place(s, m)] \subseteq HeadLevels
    BY SkippingFacts
  <2>3. g[Place(s, m)] = [i \in DOMAIN f[Place(s, m)] |->
              IF i < lvl /\ Place(s, T(i)) = Place(s, m) THEN n ELSE f[Place(s, m)][i]]
    BY <2>1 DEF T, g, AddedForward
  <2>4. \A i \in HeadLevels : Place(s, T(i)) = Place(s, m) <=> T(i) = m
    BY <1>1, <1>5, <2>2
  <2> QED BY <2>2, <2>3, <2>4
<1>8. \A i, j : j \in Places(g, t, i) <=>
          j \in 0 .. L + 1 /\ IF j <= P THEN j \in R(i)
                              ELSE IF j = P + 1 THEN i \in 0 .. lvl - 1 ELSE j - 1 \in R(i)
  <2> SUFFICES ASSUME NEW i, NEW j \in 0 .. L + 1
               PROVE  i \in DOMAIN g[Place(t, j)] <=>
                         IF j <= P THEN j \in R(i)
                         ELSE IF j = P + 1 THEN i \in 0 .. lvl - 1 ELSE j - 1 \in R(i)
    BY <1>2 DEF Places
  <2>1. CASE j <= P
    <3>1. j \in 0 .. L /\ Place(t, j) = Place(s, j)
      BY <1>1, <1>3, <2>1
    <3> QED BY <1>7, <2>1, <3>1 DEF Places
  <2>2. CASE j = P + 1
    <3>1. ~(j <= P) /\ Place(t, j) = n
      BY <1>1, <1>3, <2>2
    <3> QED BY <1>6, <2>2, <3>1
  <2>3. CASE ~(j <= P) /\ j # P + 1
    <3>1. j - 1 \in 0 .. L
      BY <1>1, <2>3
    <3> QED BY <1>1, <1>3, <1>7, <2>3, <3>1 DEF Places
  <2> QED BY <2>1, <2>2, <2>3
<1>9. ASSUME NEW i, NEW m \in R(i)
      PROVE  /\ m \in 0 .. L /\ i \in HeadLevels /\ i \in DOMAIN f[Place(s, m)]
             /\ \E r \in m + 1 .. L + 1 : /\ f[Place(s, m)][i] = At(s, r)
                                          /\ r <= L => r \in R(i)
                                          /\ \A y \in m + 1 .. r - 1 : y \notin R(i)
  <2>1. m \in 0 .. L /\ i \in DOMAIN f[Place(s, m)]
    BY DEF Places
  <2>2. i \in HeadLevels
    BY <1>7, <2>1
  <2>3. PICK r : NextAt(f, w, s, v, P, m, i, r)
    BY NextCases
  <2>4. /\ r \in m + 1 .. L + 1
        /\ f[Place(s, m)][i] = At(s, r)
        /\ r <= L => r \in R(i)
        /\ \A y \in m + 1 .. r - 1 : y \notin R(i)
    BY <2>3 DEF NextAt
  <2> QED BY <2>1, <2>2, <2>4
<1> HIDE DEF R
<1> DEFINE Leads(j, i, q) == /\ q \in j + 1 .. L + 2 /\ g[Place(t, j)][i] = At(t, q)
                             /\ q <= L + 1 => q \in Places(g, t, i)
                             /\ \A y \in j + 1 .. q - 1 : y \notin Places(g, t, i)
<1>10. ASSUME NEW i \in 0 .. lvl - 1 PROVE \E q : Leads(P + 1, i, q)
  <2>1. /\ i \in HeadLevels /\ T(i) \in R(i) /\ T(i) \in 0 .. P /\ Place(t, P + 1) = n
        /\ g[n][i] = f[Place(s, T(i))][i] /\ \A r \in T(i) + 1 .. P : r \notin R(i)
    BY <1>1, <1>3, <1>5, <1>6
  <2>2. PICK r \in T(i) + 1 .. L + 1 :
            /\ f[Place(s, T(i))][i] = At(s, r)
            /\ r <= L => r \in R(i)
            /\ \A y \in T(i) + 1 .. r - 1 : y \notin R(i)
    BY <1>9, <2>1
  <2>3. ~(r <= P) /\ r \in Int
    BY <1>1, <2>1, <2>2
  <2>4. r + 1 \in (P + 1) + 1 .. L + 2 /\ g[Place(t, P + 1)][i] = At(t, r + 1)
    BY <1>1, <1>4, <2>1, <2>2, <2>3
  <2>5. r + 1 <= L + 1 => r + 1 \in Places(g, t, i)
    BY <1>1, <1>8, <2>2, <2>3
  <2>6. ASSUME NEW y \in (P + 1) + 1 .. (r + 1) - 1 PROVE y \notin Places(g, t, i)
    <3>1. y - 1 \in T(i) + 1 .. r - 1 /\ ~(y <= P) /\ y # P + 1
      BY <1>1, <2>1, <2>3
    <3> QED BY <1>8, <2>2, <3>1
  <2> QED BY <2>4, <2>5, <2>6
<1>11. ASSUME NEW i, NEW m \in R(i), m <= P PROVE \E q : Leads(m, i, q)
  <2>1. /\ m \in 0 .. L /\ i \in HeadLevels /\ Place(t, m) = Place(s, m) /\ i \in DOMAIN f[Place(s, m)]
        /\ g[Place(s, m)][i] = IF i < lvl /\ T(i) = m THEN n ELSE f[Place(s, m)][i]
    BY <1>1, <1>3, <1>7, <1>9, <1>11
  <2>2. CASE i < lvl /\ T(i) = m
    <3>1. P + 1 \in m + 1 .. L + 2 /\ g[Place(t, m)][i] = At(t, P + 1)
      BY <1>1, <1>4, <1>11, <2>1, <2>2
    <3>2. P + 1 \in Places(g, t, i)
      BY <1>1, <1>8, <2>1, <2>2
    <3>3. ASSUME NEW y \in m + 1 .. (P + 1) - 1 PROVE y \notin Places(g, t, i)
      <4>1. y \in T(i) + 1 .. P /\ y <= P
        BY <1>1, <2>1, <2>2
      <4> QED BY <1>5, <1>8, <2>1, <4>1
    <3> QED BY <3>1, <3>2, <3>3
  <2>3. CASE ~(i < lvl /\ T(i) = m)
    <3>1. PICK r \in m + 1 .. L + 1 :
              /\ f[Place(s, m)][i] = At(s, r)
              /\ r <= L => r \in R(i)
              /\ \A y \in m + 1 .. r - 1 : y \notin R(i)
      BY <1>9
    <3>2. CASE r <= P
      <4>1. r \in m + 1 .. L + 2 /\ g[Place(t, m)][i] = At(t, r)
        BY <1>1, <1>4, <2>1, <2>3, <3>1, <3>2
      <4>2. r \in Places(g, t, i) /\ \A y \in m + 1 .. r - 1 : y \notin Places(g, t, i)
        BY SMTT(60), <1>1, <1>8, <2>1, <3>1, <3>2
      <4> QED BY <4>1, <4>2
    <3>3. CASE ~(r <= P)
      <4>1. T(i) = m
        <5>1. T(i) \in R(i) /\ T(i) \in 0 .. P /\ \A z \in T(i) + 1 .. P : z \notin R(i)
          BY <1>5, <2>1
        <5>2. ~(T(i) < m)
          BY <1>1, <1>11, <2>1, <5>1
        <5>3. ~(T(i) > m)
          BY <1>1, <2>1, <3>1, <3>3, <5>1
        <5> QED BY <1>1, <2>1, <5>1, <5>2, <5>3
      <4>2. i \notin 0 .. lvl - 1
        BY <1>1, <2>3, <4>1
      <4>3. r + 1 \in m + 1 .. L + 2 /\ g[Place(t, m)][i] = At(t, r + 1)
        BY <1>1, <1>4, <2>1, <2>3, <3>1, <3>3
      <4>4. r + 1 <= L + 1 => r + 1 \in Places(g, t, i)
        <5>1. ~(r + 1 <= P) /\ r + 1 # P + 1 /\ (r + 1) - 1 = r
          BY <1>1, <2>1, <3>3
        <5>2. r + 1 <= L + 1 => r + 1 \in 0 .. L + 1 /\ r <= L
          BY <1>1, <2>1
        <5> QED BY <1>8, <3>1, <5>1, <5>2
      <4>5. ASSUME NEW y \in m + 1 .. (r + 1) - 1 PROVE y \notin Places(g, t, i)
        <5>1. CASE y <= P
          BY <1>1, <1>8, <2>1, <3>1, <3>3, <5>1
        <5>2. CASE y = P + 1
          BY <1>1, <1>8, <4>2, <5>2
        <5>3. CASE ~(y <= P) /\ y # P + 1
          <6>1. y - 1 \in m + 1 .. r - 1
            BY <1>1, <1>11, <2>1, <5>3
          <6> QED BY <1>8, <3>1, <5>3, <6>1
        <5> QED BY <5>1, <5>2, <5>3
      <4> QED BY <4>3, <4>4, <4>5
    <3> QED BY <3>2, <3>3
  <2> QED BY <2>2, <2>3
<1>12. ASSUME NEW i, NEW m \in R(i), ~(m <= P) PROVE \E q : Leads(m + 1, i, q)
  <2>1. m \in 0 .. L /\ i \in HeadLevels /\ i \in DOMAIN f[Place(s, m)]
    BY <1>9
  <2>2. T(i) # m
    BY <1>1, <1>5, <1>12, <2>1
  <2>3. Place(t, m + 1) = Place(s, m) /\ g[Place(s, m)][i] = f[Place(s, m)][i]
    <3>1. m + 1 \in 0 .. L + 1 /\ ~(m + 1 <= P) /\ m + 1 # P + 1 /\ (m + 1) - 1 = m
      BY <1>1, <1>12, <2>1
    <3> QED BY <1>3, <1>7, <2>1, <2>2, <3>1
  <2>4. PICK r \in m + 1 .. L + 1 :
            /\ f[Place(s, m)][i] = At(s, r)
            /\ r <= L => r \in R(i)
            /\ \A y \in m + 1 .. r - 1 : y \notin R(i)
    BY <1>9
  <2>5. r + 1 \in (m + 1) + 1 .. L + 2 /\ ~(r <= P) /\ r \in 1 .. L + 1
    BY <1>1, <1>12, <2>1
  <2>6. g[Place(t, m + 1)][i] = At(t, r + 1)
    BY <1>4, <2>3, <2>4, <2>5
  <2>7. r + 1 <= L + 1 => r + 1 \in Places(g, t, i)
    BY <1>1, <1>8, <2>4, <2>5
  <2>8. ASSUME NEW y \in (m + 1) + 1 .. (r + 1) - 1 PROVE y \notin Places(g, t, i)
    <3>1. y - 1 \in m + 1 .. r - 1 /\ ~(y <= P) /\ y # P + 1
      BY <1>1, <1>12, <2>1
    <3> QED BY <1>8, <2>4, <3>1
  <2> QED BY <2>5, <2>6, <2>7, <2>8
<1>13. \A j \in 0 .. Len(t) : \A i \in DOMAIN g[Place(t, j)] : NextIs(g, t, j, i)
  <2> SUFFICES ASSUME NEW j \in 0 .. L + 1, NEW i \in DOMAIN g[Place(t, j)] PROVE NextIs(g, t, j, i)
    BY <1>2
  <2>1. j \in Places(g, t, i)
    BY <1>2 DEF Places
  <2>2. \E q : Leads(j, i, q)
    <3>1. CASE j <= P
      BY <1>8, <1>11, <2>1, <3>1
    <3>2. CASE j = P + 1
      <4>1. i \in 0 .. lvl - 1
        BY <1>1, <1>8, <2>1, <3>2
      <4> QED BY <1>10, <3>2, <4>1
    <3>3. CASE ~(j <= P) /\ j # P + 1
      <4>1. j - 1 \in R(i) /\ ~(j - 1 <= P) /\ (j - 1) + 1 = j
        BY <1>1, <1>8, <2>1, <3>3
      <4> HIDE DEF Leads
      <4>2. \E q : Leads((j - 1) + 1, i, q)
        BY <1>12, <4>1
      <4> QED BY <4>1, <4>2
    <3> QED BY <3>1, <3>2, <3>3
  <2>3. PICK q : Leads(j, i, q)
    BY <2>2
  <2>4. Len(t) + 1 = L + 2 /\ Len(t) = L + 1
    BY <1>1, <1>2
  <2> QED BY <2>3, <2>4 DEF NextIs
<1>14. /\ \A m \in 1 .. Len(t) : x[t[m]] \in Numbers
       /\ \A m, q \in 1 .. Len(t) : m < q => x[t[m]] <= x[t[q]]
  <2>1. ASSUME NEW j \in 1 .. L + 1
        PROVE  x[t[j]] = IF j <= P THEN w[s[j]] ELSE IF j = P + 1 THEN v ELSE w[s[j - 1]]
    <3>1. CASE j <= P
      <4>1. j \in 1 .. L
        BY <1>1, <3>1
      <4> QED BY <1>1, <1>2, <3>1, <4>1 DEF x, AddedVal
    <3>2. CASE j = P + 1
      <4>1. t[j] = n /\ ~(j <= P)
        BY <1>1, <1>2, <3>2
      <4> QED BY <3>2, <4>1 DEF x, AddedVal
    <3>3. CASE ~(j <= P) /\ j # P + 1
      <4>1. j - 1 \in 1 .. L
        BY <1>1, <3>3
      <4> QED BY <1>1, <1>2, <3>3, <4>1 DEF x, AddedVal
    <3> QED BY <3>1, <3>2, <3>3
  <2>2. \A j \in 1 .. L + 1 : /\ j <= P => j \in 1 .. L
                              /\ ~(j <= P) /\ j # P + 1 => j - 1 \in 1 .. L /\ j - 1 \in P + 1 .. L
    BY <1>1
  <2>3. /\ \A m \in 1 .. L : w[s[m]] \in Numbers /\ w[s[m]] \in Int
        /\ \A m, q \in 1 .. L : m < q => w[s[m]] <= w[s[q]]
    BY <1>1 DEF Skipping
  <2>4. \A j \in 1 .. L + 1 : x[t[j]] \in Numbers
    BY <2>1, <2>2, <2>3
  <2>5. ASSUME NEW m \in 1 .. L + 1, NEW q \in 1 .. L + 1, m < q PROVE x[t[m]] <= x[t[q]]
    <3>1. /\ \A z \in 1 .. P : w[s[z]] < v
          /\ \A z \in P + 1 .. L : w[s[z]] >= v
      BY DEF Splits
    <3>2. CASE q <= P
      BY <1>1, <2>1, <2>2, <2>3, <2>5, <3>2
    <3>3. CASE q = P + 1
      <4>1. m <= P /\ m \in 1 .. P /\ m \in 1 .. L
        BY <1>1, <2>5, <3>3
      <4>2. x[t[m]] = w[s[m]]
        BY <2>1, <4>1
      <4>3. ~(q <= P)
        BY <1>1, <3>3
      <4>4. x[t[q]] = v
        BY <2>1, <3>3, <4>3
      <4>5. w[s[m]] < v /\ w[s[m]] \in Int /\ v \in Int
        BY <1>1, <2>3, <3>1, <4>1
      <4> QED BY <4>2, <4>4, <4>5
    <3>4. CASE ~(q <= P) /\ q # P + 1
      <4>1. q - 1 \in P + 1 .. L /\ q - 1 \in 1 .. L /\ x[t[q]] = w[s[q - 1]]
        BY <2>1, <2>2, <3>4
      <4>2. CASE m <= P
        BY <1>1, <2>1, <2>2, <2>3, <3>1, <4>1, <4>2
      <4>3. CASE m = P + 1
        BY <1>1, <2>1, <3>1, <4>1, <4>3
      <4>4. CASE ~(m <= P) /\ m # P + 1
        <5>1. m - 1 \in 1 .. L /\ x[t[m]] = w[s[m - 1]] /\ m - 1 < q - 1
          BY <1>1, <2>1, <2>2, <2>5, <4>4
        <5> QED BY <2>3, <4>1, <5>1
      <4> QED BY <4>2, <4>3, <4>4
    <3> QED BY <3>2, <3>3, <3>4
  <2> QED BY <1>2, <2>4, <2>5
<1>15. \A m \in DOMAIN g : \E h \in 1 .. MAX_LEVEL : DOMAIN g[m] = 0 .. h - 1
  <2> SUFFICES ASSUME NEW m \in On(s) \cup {Top, n} PROVE \E h \in 1 .. MAX_LEVEL : DOMAIN g[m] = 0 .. h - 1
    BY DEF g, AddedForward
  <2>1. CASE m = n
    BY <1>6, <2>1
  <2>2. CASE m # n
    <3>1. m \in DOMAIN f /\ DOMAIN g[m] = DOMAIN f[m]
      BY <2>2 DEF Skipping, g, AddedForward
    <3> QED BY <3>1 DEF Skipping
  <2> QED BY <2>1, <2>2
<1>16. DOMAIN g[Top] = HeadLevels
  <2>1. DOMAIN g[Top] = DOMAIN f[Top]
    BY <1>1 DEF g, AddedForward
  <2> QED BY <2>1 DEF Skipping
<1>17. DOMAIN x = On(t) /\ DOMAIN g = On(t) \cup {Top}
  BY <1>2 DEF x, g, AddedVal, AddedForward
<1> QED BY <1>2, <1>13, <1>14, <1>15, <1>16, <1>17 DEF Skipping, t, x, g

\* Without the node at place P + 1, to which the lists it is on led from their turns.
ErasedVal(w, s, P) == [m \in On(s) \ {s[P + 1]} |-> w[m]]
ErasedForward(f, s, P) ==
    [m \in (On(s) \cup {Top}) \ {s[P + 1]} |->
        [i \in DOMAIN f[m] |->
            IF i \in DOMAIN f[s[P + 1]] /\ Place(s, Turn(f, s, P, i)) = m
            THEN f[s[P + 1]][i] ELSE f[m][i]]]

LEMMA ErasedIsSkipping ==
    ASSUME NEW f, NEW w, NEW s, Skipping(f, w, s), NEW v \in Numbers, NEW P, Splits(w, s, v, P),
           P + 1 <= Len(s)
    PROVE  Skipping(ErasedForward(f, s, P), ErasedVal(w, s, P), Drop(s, P + 1))
<1> DEFINE L == Len(s)
           n == s[P + 1]
           t == Drop(s, P + 1)
           x == ErasedVal(w, s, P)
           g == ErasedForward(f, s, P)
           R(i) == Places(f, s, i)
           T(i) == Turn(f, s, P, i)
<1>1. /\ L \in Nat /\ P \in 0 .. L /\ P + 1 \in 1 .. L /\ n # Top
      /\ \A m \in 1 .. L : /\ Place(s, m) = s[m] /\ At(s, m) = s[m] /\ s[m] \in On(s)
                           /\ s[m] = n => m = P + 1
      /\ At(s, L + 1) = Null /\ Place(s, 0) = Top
  <2>1. L \in Nat /\ P \in 0 .. L /\ P + 1 \in 1 .. L
    BY SkippingFacts DEF Splits
  <2>2. /\ At(s, L + 1) = Null /\ Place(s, 0) = Top
        /\ \A m \in 1 .. L : /\ Place(s, m) = s[m] /\ At(s, m) = s[m] /\ s[m] \in On(s)
                             /\ s[m] # Top
    BY SkippingFacts
  <2>3. \A m \in 1 .. L : s[m] = n => m = P + 1
    BY <2>1, NodeSeqFacts DEF Skipping
  <2> QED BY <2>1, <2>2, <2>3
<1>2. /\ t \in NodeSeqs /\ Len(t) = L - 1 /\ On(t) = On(s) \ {n}
      /\ \A j \in 1 .. L - 1 : t[j] = IF j <= P THEN s[j] ELSE s[j + 1]
  <2>1. s \in NodeSeqs
    BY DEF Skipping
  <2>2. /\ t \in NodeSeqs /\ Len(t) = L - 1 /\ On(t) = On(s) \ {n}
        /\ \A j \in 1 .. L - 1 : t[j] = IF j < P + 1 THEN s[j] ELSE s[j + 1]
    BY <1>1, <2>1, DropFacts
  <2>3. \A j \in 1 .. L - 1 : j < P + 1 <=> j <= P
    BY <1>1
  <2> HIDE DEF t
  <2> QED BY <2>2, <2>3
<1> HIDE DEF t, x, g
<1>3. \A j \in 0 .. L - 1 : Place(t, j) = IF j <= P THEN Place(s, j) ELSE Place(s, j + 1)
  <2> SUFFICES ASSUME NEW j \in 0 .. L - 1
               PROVE  Place(t, j) = IF j <= P THEN Place(s, j) ELSE Place(s, j + 1)
    OBVIOUS
  <2>1. CASE j = 0
    BY <1>1, <2>1 DEF Place
  <2>2. CASE j # 0
    <3>1. j \in 1 .. L - 1 /\ Place(t, j) = t[j] /\ j \in 1 .. L /\ j + 1 \in 1 .. L
      BY <1>1, <2>2 DEF Place
    <3> QED BY <1>1, <1>2, <3>1
  <2> QED BY <2>1, <2>2
<1>4. \A r \in 1 .. L + 1 : r # P + 1 => At(s, r) = IF r <= P THEN At(t, r) ELSE At(t, r - 1)
  <2> SUFFICES ASSUME NEW r \in 1 .. L + 1, r # P + 1
               PROVE  At(s, r) = IF r <= P THEN At(t, r) ELSE At(t, r - 1)
    OBVIOUS
  <2>1. CASE r <= P
    BY <1>1, <1>2, <2>1 DEF At
  <2>2. CASE ~(r <= P) /\ r <= L
    <3>1. r - 1 \in 1 .. L - 1 /\ ~(r - 1 <= P) /\ (r - 1) + 1 = r /\ r \in 1 .. L
      BY <1>1, <2>2
    <3> QED BY <1>1, <1>2, <2>2, <3>1 DEF At
  <2>3. CASE ~(r <= P) /\ ~(r <= L)
    <3>1. r - 1 \notin 1 .. L - 1 /\ r = L + 1
      BY <1>1, <2>3
    <3> QED BY <1>1, <1>2, <2>3, <3>1 DEF At
  <2> QED BY <2>1, <2>2, <2>3
<1>5. \A i \in HeadLevels : T(i) \in R(i) /\ T(i) \in 0 .. P /\ \A r \in T(i) + 1 .. P : r \notin R(i)
  BY TurnIs DEF LastIn
<1> HIDE DEF T
<1>6. \A i : i \in DOMAIN f[n] <=> P + 1 \in R(i)
  BY <1>1 DEF Places
<1> HIDE DEF n
<1>7. ASSUME NEW m \in 0 .. L, m # P + 1
      PROVE  /\ DOMAIN g[Place(s, m)] = DOMAIN f[Place(s, m)]
             /\ DOMAIN f[Place(s, m)] \subseteq HeadLevels
             /\ \A i \in DOMAIN f[Place(s, m)] :
                   g[Place(s, m)][i] = IF i \in DOMAIN f[n] /\ T(i) = m THEN f[n][i] ELSE f[Place(s, m)][i]
  <2>1. Place(s, m) \in (On(s) \cup {Top}) \ {n}
    <3>1. CASE m = 0
      BY <1>1, <3>1
    <3>2. CASE m # 0
      BY <1>1, <1>7, <3>2
    <3> QED BY <3>1, <3>2
  <2>2. /\ \A q \in 0 .. L : Place(s, m) = Place(s, q) => m = q
        /\ DOMAIN f[Place(s, m)] \subseteq HeadLevels
    BY SkippingFacts
  <2>3. g[Place(s, m)] = [i \in DOMAIN f[Place(s, m)] |->
              IF i \in DOMAIN f[n] /\ Place(s, T(i)) = Place(s, m) THEN f[n][i] ELSE f[Place(s, m)][i]]
    BY <2>1 DEF T, n, g, ErasedForward
  <2>4. \A i \in HeadLevels : Place(s, T(i)) = Place(s, m) <=> T(i) = m
    BY <1>1, <1>5, <2>2
  <2> QED BY <2>2, <2>3, <2>4
<1>8. \A i, j : j \in Places(g, t, i) <=> j \in 0 .. L - 1 /\ IF j <= P THEN j \in R(i) ELSE j + 1 \in R(i)
  <2> SUFFICES ASSUME NEW i, NEW j \in 0 .. L - 1
               PROVE  i \in DOMAIN g[Place(t, j)] <=> IF j <= P THEN j \in R(i) ELSE j + 1 \in R(i)
    BY <1>2 DEF Places
  <2>1. CASE j <= P
    <3>1. j \in 0 .. L /\ j # P + 1 /\ Place(t, j) = Place(s, j)
      BY <1>1, <1>3, <2>1
    <3> QED BY <1>7, <2>1, <3>1 DEF Places
  <2>2. CASE ~(j <= P)
    <3>1. j + 1 \in 0 .. L /\ j + 1 # P + 1 /\ Place(t, j) = Place(s, j + 1)
      BY <1>1, <1>3, <2>2
    <3> QED BY <1>7, <2>2, <3>1 DEF Places
  <2> QED BY <2>1, <2>2
<1>9. ASSUME NEW i, NEW m \in R(i)
      PROVE  /\ m \in 0 .. L /\ i \in HeadLevels /\ i \in DOMAIN f[Place(s, m)]
             /\ \E r \in m + 1 .. L + 1 : /\ f[Place(s, m)][i] = At(s, r)
                                          /\ r <= L => r \in R(i)
                                          /\ \A y \in m + 1 .. r - 1 : y \notin R(i)
  <2>1. m \in 0 .. L /\ i \in DOMAIN f[Place(s, m)]
    BY DEF Places
  <2>2. i \in HeadLevels
    BY <2>1, SkippingFacts
  <2>3. PICK r : NextAt(f, w, s, v, P, m, i, r)
    BY NextCases
  <2>4. /\ r \in m + 1 .. L + 1
        /\ f[Place(s, m)][i] = At(s, r)
        /\ r <= L => r \in R(i)
        /\ \A y \in m + 1 .. r - 1 : y \notin R(i)
    BY <2>3 DEF NextAt
  <2> QED BY <2>1, <2>2, <2>4
<1> HIDE DEF R
<1> DEFINE Leads(j, i, q) == /\ q \in j + 1 .. L /\ g[Place(t, j)][i] = At(t, q)
                             /\ q <= L - 1 => q \in Places(g, t, i)
                             /\ \A y \in j + 1 .. q - 1 : y \notin Places(g, t, i)
<1>10. ASSUME NEW i, NEW m \in R(i), m <= P PROVE \E q : Leads(m, i, q)
  <2>1. /\ m \in 0 .. L /\ m \in 0 .. L - 1 /\ i \in HeadLevels /\ Place(t, m) = Place(s, m)
        /\ g[Place(s, m)][i] = IF i \in DOMAIN f[n] /\ T(i) = m THEN f[n][i] ELSE f[Place(s, m)][i]
    <3>1. m \in 0 .. L /\ i \in HeadLevels /\ i \in DOMAIN f[Place(s, m)]
      BY <1>9
    <3>2. m \in 0 .. L - 1 /\ m # P + 1
      BY <1>1, <1>10, <3>1
    <3> QED BY <1>3, <1>7, <1>10, <3>1, <3>2
  <2>2. T(i) \in R(i) /\ T(i) \in 0 .. P /\ \A z \in T(i) + 1 .. P : z \notin R(i)
    BY <1>5, <2>1
  <2>3. CASE i \in DOMAIN f[n] /\ T(i) = m
    <3>1. P + 1 \in R(i) /\ Place(s, P + 1) = n
      BY <1>1, <1>6, <2>3 DEF n
    <3>2. PICK r \in (P + 1) + 1 .. L + 1 :
              /\ f[Place(s, P + 1)][i] = At(s, r)
              /\ r <= L => r \in R(i)
              /\ \A y \in (P + 1) + 1 .. r - 1 : y \notin R(i)
      BY <1>9, <3>1
    <3>3. r - 1 \in m + 1 .. L /\ r \in 1 .. L + 1 /\ r # P + 1 /\ ~(r <= P) /\ (r - 1) + 1 = r
          /\ ~(r - 1 <= P)
      BY <1>1, <2>1, <1>10
    <3>4. g[Place(t, m)][i] = At(t, r - 1)
      BY <1>4, <2>1, <2>3, <3>1, <3>2, <3>3
    <3>5. r - 1 <= L - 1 => r - 1 \in Places(g, t, i)
      <4>1. r - 1 <= L - 1 => r - 1 \in 0 .. L - 1 /\ r <= L
        BY <1>1
      <4> QED BY <1>8, <3>2, <3>3, <4>1
    <3>6. ASSUME NEW y \in m + 1 .. (r - 1) - 1 PROVE y \notin Places(g, t, i)
      <4>1. CASE y <= P
        <5>1. y \in T(i) + 1 .. P
          BY <1>1, <2>1, <2>3, <4>1
        <5> QED BY <1>8, <2>2, <4>1, <5>1
      <4>2. CASE ~(y <= P)
        <5>1. y + 1 \in (P + 1) + 1 .. r - 1
          BY <1>1, <2>1, <4>2
        <5> QED BY <1>8, <3>2, <4>2, <5>1
      <4> QED BY <4>1, <4>2
    <3> QED BY <3>3, <3>4, <3>5, <3>6
  <2>4. CASE ~(i \in DOMAIN f[n] /\ T(i) = m)
    <3>1. PICK r \in m + 1 .. L + 1 :
              /\ f[Place(s, m)][i] = At(s, r)
              /\ r <= L => r \in R(i)
              /\ \A y \in m + 1 .. r - 1 : y \notin R(i)
      BY <1>9
    <3>2. r # P + 1
      <4> SUFFICES ASSUME r = P + 1 PROVE FALSE
        OBVIOUS
      <4>1. P + 1 \in R(i)
        BY <1>1, <3>1
      <4>2. ~(T(i) < m) /\ ~(T(i) > m)
        BY <1>1, <1>10, <2>1, <2>2, <3>1
      <4>3. T(i) = m
        BY <1>1, <2>1, <2>2, <4>2
      <4> QED BY <1>6, <2>4, <4>1, <4>3
    <3>3. CASE r <= P
      <4>1. r \in m + 1 .. L /\ r \in 1 .. L + 1 /\ r \in 0 .. L - 1 /\ r <= L
        BY <1>1, <2>1, <3>3
      <4>2. g[Place(t, m)][i] = At(t, r)
        BY <1>4, <2>1, <2>4, <3>1, <3>2, <3>3, <4>1
      <4>3. r \in Places(g, t, i)
        BY <1>8, <3>1, <3>3, <4>1
      <4>4. ASSUME NEW y \in m + 1 .. r - 1 PROVE y \notin Places(g, t, i)
        <5>1. y <= P
          BY <1>1, <2>1, <3>3, <4>1
        <5> QED BY <1>8, <3>1, <5>1
      <4> QED BY <4>1, <4>2, <4>3, <4>4
    <3>4. CASE ~(r <= P)
      <4>1. r - 1 \in m + 1 .. L /\ r \in 1 .. L + 1 /\ (r - 1) + 1 = r /\ ~(r - 1 <= P)
        BY <1>1, <1>10, <2>1, <3>2, <3>4
      <4>2. g[Place(t, m)][i] = At(t, r - 1)
        BY <1>4, <2>1, <2>4, <3>1, <3>2, <3>4, <4>1
      <4>3. r - 1 <= L - 1 => r - 1 \in Places(g, t, i)
        <5>1. r - 1 <= L - 1 => r - 1 \in 0 .. L - 1 /\ r <= L
          BY <1>1, <2>1, <4>1
        <5> QED BY <1>8, <3>1, <4>1, <5>1
      <4>4. ASSUME NEW y \in m + 1 .. (r - 1) - 1 PROVE y \notin Places(g, t, i)
        <5>1. y \in m + 1 .. r - 1 /\ y + 1 \in m + 1 .. r - 1
          BY <1>1, <2>1, <4>1
        <5> QED BY <1>8, <3>1, <5>1
      <4> QED BY <4>1, <4>2, <4>3, <4>4
    <3> QED BY <3>3, <3>4
  <2> QED BY <2>3, <2>4
<1>11. ASSUME NEW i, NEW m \in R(i), ~(m <= P + 1) PROVE \E q : Leads(m - 1, i, q)
  <2>1. m \in 0 .. L /\ i \in HeadLevels /\ i \in DOMAIN f[Place(s, m)]
    BY <1>9
  <2>2. T(i) # m
    BY <1>1, <1>5, <1>11, <2>1
  <2>3. Place(t, m - 1) = Place(s, m) /\ g[Place(s, m)][i] = f[Place(s, m)][i]
    <3>1. m - 1 \in 0 .. L - 1 /\ ~(m - 1 <= P) /\ (m - 1) + 1 = m /\ m # P + 1
      BY <1>1, <1>11, <2>1
    <3> QED BY <1>3, <1>7, <2>1, <2>2, <3>1
  <2>4. PICK r \in m + 1 .. L + 1 :
            /\ f[Place(s, m)][i] = At(s, r)
            /\ r <= L => r \in R(i)
            /\ \A y \in m + 1 .. r - 1 : y \notin R(i)
    BY <1>9
  <2>5. /\ r - 1 \in (m - 1) + 1 .. L /\ ~(r <= P) /\ r # P + 1 /\ r \in 1 .. L + 1
        /\ ~(r - 1 <= P) /\ (r - 1) + 1 = r
    BY <1>1, <1>11, <2>1
  <2>6. g[Place(t, m - 1)][i] = At(t, r - 1)
    BY <1>4, <2>3, <2>4, <2>5
  <2>7. r - 1 <= L - 1 => r - 1 \in Places(g, t, i)
    <3>1. r - 1 <= L - 1 => r - 1 \in 0 .. L - 1 /\ r <= L
      BY <1>1, <2>5
    <3> QED BY <1>8, <2>4, <2>5, <3>1
  <2>8. ASSUME NEW y \in (m - 1) + 1 .. (r - 1) - 1 PROVE y \notin Places(g, t, i)
    <3>1. y + 1 \in m + 1 .. r - 1 /\ ~(y <= P)
      BY <1>1, <1>11, <2>1, <2>5
    <3> QED BY <1>8, <2>4, <3>1
  <2> QED BY <2>5, <2>6, <2>7, <2>8
<1>12. \A j \in 0 .. Len(t) : \A i \in DOMAIN g[Place(t, j)] : NextIs(g, t, j, i)
  <2> SUFFICES ASSUME NEW j \in 0 .. L - 1, NEW i \in DOMAIN g[Place(t, j)] PROVE NextIs(g, t, j, i)
    BY <1>2
  <2>1. j \in Places(g, t, i)
    BY <1>2 DEF Places
  <2>2. \E q : Leads(j, i, q)
    <3>1. CASE j <= P
      BY <1>8, <1>10, <2>1, <3>1
    <3>2. CASE ~(j <= P)
      <4>1. j + 1 \in R(i) /\ ~(j + 1 <= P + 1) /\ (j + 1) - 1 = j
        BY <1>1, <1>8, <2>1, <3>2
      <4> HIDE DEF Leads
      <4>2. \E q : Leads((j + 1) - 1, i, q)
        BY <1>11, <4>1
      <4> QED BY <4>1, <4>2
    <3> QED BY <3>1, <3>2
  <2>3. PICK q : Leads(j, i, q)
    BY <2>2
  <2>4. Len(t) + 1 = L /\ Len(t) = L - 1
    BY <1>1, <1>2
  <2> QED BY <2>3, <2>4 DEF NextIs
<1>13. /\ \A m \in 1 .. Len(t) : x[t[m]] \in Numbers
       /\ \A m, q \in 1 .. Len(t) : m < q => x[t[m]] <= x[t[q]]
  <2>1. ASSUME NEW j \in 1 .. L - 1
        PROVE  \E k \in 1 .. L : /\ x[t[j]] = w[s[k]]
                                 /\ k = IF j <= P THEN j ELSE j + 1
    <3>1. CASE j <= P
      <4>1. j \in 1 .. L /\ j # P + 1
        BY <1>1, <3>1
      <4> QED BY <1>1, <1>2, <3>1, <4>1 DEF x, n, ErasedVal
    <3>2. CASE ~(j <= P)
      <4>1. j + 1 \in 1 .. L /\ j + 1 # P + 1
        BY <1>1, <3>2
      <4> QED BY <1>1, <1>2, <3>2, <4>1 DEF x, n, ErasedVal
    <3> QED BY <3>1, <3>2
  <2>2. /\ \A m \in 1 .. L : w[s[m]] \in Numbers
        /\ \A m, q \in 1 .. L : m < q => w[s[m]] <= w[s[q]]
    BY DEF Skipping
  <2>3. \A j \in 1 .. L - 1 : x[t[j]] \in Numbers
    BY <2>1, <2>2
  <2>4. ASSUME NEW m \in 1 .. L - 1, NEW q \in 1 .. L - 1, m < q PROVE x[t[m]] <= x[t[q]]
    <3>1. PICK a \in 1 .. L : x[t[m]] = w[s[a]] /\ a = IF m <= P THEN m ELSE m + 1
      BY <2>1
    <3>2. PICK b \in 1 .. L : x[t[q]] = w[s[b]] /\ b = IF q <= P THEN q ELSE q + 1
      BY <2>1
    <3>3. a < b
      BY <1>1, <2>4, <3>1, <3>2
    <3> QED BY <2>2, <3>1, <3>2, <3>3
  <2> QED BY <1>2, <2>3, <2>4
<1>14. \A m \in DOMAIN g : \E h \in 1 .. MAX_LEVEL : DOMAIN g[m] = 0 .. h - 1
  <2> SUFFICES ASSUME NEW m \in (On(s) \cup {Top}) \ {n}
               PROVE  \E h \in 1 .. MAX_LEVEL : DOMAIN g[m] = 0 .. h - 1
    BY DEF g, n, ErasedForward
  <2>1. m \in DOMAIN f /\ DOMAIN g[m] = DOMAIN f[m]
    BY DEF Skipping, g, n, ErasedForward
  <2> QED BY <2>1 DEF Skipping
<1>15. DOMAIN g[Top] = HeadLevels
  <2>1. DOMAIN g[Top] = DOMAIN f[Top]
    BY <1>1 DEF g, n, ErasedForward
  <2> QED BY <2>1 DEF Skipping
<1>16. DOMAIN x = On(t) /\ DOMAIN g = On(t) \cup {Top}
  BY <1>1, <1>2 DEF x, g, n, ErasedVal, ErasedForward
<1> QED BY <1>2, <1>12, <1>13, <1>14, <1>15, <1>16 DEF Skipping, t, x, g

-----------------------------------------------------------------------------
\* The level: a list is empty exactly if no node is that high, so that the loop at the
\* end of an erase stops at the level of the highest node that is left.
LEMMA EmptyList ==
    ASSUME NEW f, NEW w, NEW s, Skipping(f, w, s), NEW i \in HeadLevels
    PROVE  f[Top][i] = Null <=> \A n \in On(s) : i \notin DOMAIN f[n]
<1>1. /\ Len(s) \in Nat /\ Place(s, 0) = Top /\ i \in DOMAIN f[Place(s, 0)]
      /\ \A m \in 1 .. Len(s) : At(s, m) = s[m] /\ s[m] # Null /\ Place(s, m) = s[m] /\ s[m] \in On(s)
      /\ At(s, Len(s) + 1) = Null
      /\ \A n \in On(s) : \E m \in 1 .. Len(s) : n = s[m]
  <2>1. Place(s, 0) = Top /\ i \in DOMAIN f[Place(s, 0)]
    BY SkippingFacts DEF Skipping
  <2> QED BY <2>1, SkippingFacts
<1>2. PICK q \in 1 .. Len(s) + 1 :
          /\ f[Top][i] = At(s, q)
          /\ q <= Len(s) => q \in Places(f, s, i)
          /\ \A r \in 1 .. q - 1 : r \notin Places(f, s, i)
  <2>1. 0 \in 0 .. Len(s) /\ 0 + 1 = 1
    BY <1>1
  <2>2. NextIs(f, s, 0, i)
    BY <1>1, <2>1 DEF Skipping
  <2> QED BY <1>1, <2>2 DEF NextIs
<1>3. \A m \in 1 .. Len(s) : m \in Places(f, s, i) <=> i \in DOMAIN f[s[m]]
  BY <1>1 DEF Places
<1>4. CASE q <= Len(s)
  <2>1. q \in 1 .. Len(s)
    BY <1>1, <1>4
  <2> QED BY <1>1, <1>2, <1>3, <1>4, <2>1
<1>5. CASE ~(q <= Len(s))
  <2>1. f[Top][i] = Null /\ \A m \in 1 .. Len(s) : m \in 1 .. q - 1
    BY <1>1, <1>2, <1>5
  <2> QED BY <1>1, <1>2, <1>3, <2>1
<1> QED BY <1>4, <1>5

LEMMA LoweredIs ==
    ASSUME NEW f, NEW w, NEW s, Skipping(f, w, s), sLevel \in 1 .. MAX_LEVEL,
           \A n \in On(s), i \in sLevel .. MAX_LEVEL - 1 : i \notin DOMAIN f[n]
    PROVE  HighestIs(f, s, Skip!Lowered(f[Top]))
<1> DEFINE Stops(l) == /\ l = 1 \/ f[Top][l - 1] # Null
                       /\ \A i \in l .. sLevel - 1 : f[Top][i] = Null
           R == {i \in 0 .. sLevel - 1 : i = 0 \/ f[Top][i] # Null}
           l0 == Skip!Lowered(f[Top])
<1>1. MAX_LEVEL \in Nat /\ sLevel \in Int /\ HeadLevels = 0 .. MAX_LEVEL - 1
  BY StructuresAssumption DEF HeadLevels
<1>2. \E l \in 1 .. sLevel : Stops(l)
  <2>1. 0 \in R /\ sLevel - 1 \in Nat
    BY <1>1
  <2> HIDE DEF R
  <2>2. PICK q : LastIn(R, sLevel - 1, q)
    BY <2>1, LastInExists
  <2>3. q \in 0 .. sLevel - 1 /\ q \in R /\ \A r \in q + 1 .. sLevel - 1 : r \notin R
    BY <2>2 DEF LastIn
  <2>4. q + 1 \in 1 .. sLevel /\ (q + 1) - 1 = q
    BY <1>1, <2>3
  <2>5. q + 1 = 1 \/ f[Top][(q + 1) - 1] # Null
    BY <1>1, <2>3, <2>4 DEF R
  <2>6. \A i \in q + 1 .. sLevel - 1 : f[Top][i] = Null
    BY <1>1, <2>3 DEF R
  <2> QED BY <2>4, <2>5, <2>6
<1>3. l0 = CHOOSE l \in 1 .. sLevel : Stops(l)
  BY DEF Skip!Lowered
<1>4. l0 \in 1 .. sLevel /\ Stops(l0)
  <2> HIDE DEF l0, Stops
  <2> QED BY <1>2, <1>3
<1> HIDE DEF l0
<1>5. l0 = 1 \/ \E n \in On(s) : l0 - 1 \in DOMAIN f[n]
  <2>1. l0 - 1 \in HeadLevels
    BY <1>1, <1>4
  <2> QED BY <1>4, <2>1, EmptyList
<1>6. ASSUME NEW n \in On(s), NEW i \in l0 .. MAX_LEVEL - 1 PROVE i \notin DOMAIN f[n]
  <2>1. CASE i < sLevel
    <3>1. i \in HeadLevels /\ f[Top][i] = Null
      BY <1>1, <1>4, <2>1
    <3> QED BY <3>1, EmptyList
  <2>2. CASE ~(i < sLevel)
    BY <1>1, <1>4, <2>2
  <2> QED BY <2>1, <2>2
<1>7. l0 \in 1 .. MAX_LEVEL
  BY <1>1, <1>4
<1> QED BY <1>5, <1>6, <1>7 DEF HighestIs, l0

-----------------------------------------------------------------------------
\* The steps.
SkipGood(s) == Skipping(sForward, sVal, s) /\ HighestIs(sForward, s, sLevel)
SkipInv == /\ sFreed => DOMAIN sVal = {}
           /\ ~sFreed => \E s : SkipGood(s)

LEMMA AddIsGood ==
    ASSUME NEW s, SkipGood(s), NEW v \in Numbers, Skip!skiplistAdd(v)
    PROVE  \E t, n : /\ SkipGood(t)'
                     /\ n \notin DOMAIN sVal
                     /\ DOMAIN sVal' = DOMAIN sVal \cup {n}
                     /\ \A m \in DOMAIN sVal' : sVal'[m] = IF m = n THEN v ELSE sVal[m]
<1>1. Skipping(sForward, sVal, s) /\ HighestIs(sForward, s, sLevel)
  BY DEF SkipGood
<1>2. PICK n \in Nodes \ DOMAIN sVal, lvl \in 1 .. MAX_LEVEL :
          /\ sLevel' = IF lvl > sLevel THEN lvl ELSE sLevel
          /\ sVal' = [m \in DOMAIN sVal \cup {n} |-> IF m = n THEN v ELSE sVal[m]]
          /\ sForward' =
                 [m \in DOMAIN sVal \cup {Top, n} |->
                     IF m = n THEN [i \in 0 .. lvl - 1 |-> sForward[Skip!update(v)[i]][i]]
                     ELSE [i \in DOMAIN sForward[m] |->
                              IF i < lvl /\ Skip!update(v)[i] = m THEN n ELSE sForward[m][i]]]
  BY DEF Skip!skiplistAdd, Skip!live
<1>3. PICK P : Splits(sVal, s, v, P)
  BY <1>1, SplitExists
<1>4. \A i \in HeadLevels : Skip!update(v)[i] = Place(s, Turn(sForward, s, P, i))
  BY <1>1, <1>3, UpdateIs
<1>5. DOMAIN sVal = On(s) /\ DOMAIN sForward = On(s) \cup {Top} /\ n \notin On(s) /\ s \in NodeSeqs
  BY <1>1 DEF Skipping
<1>6. MAX_LEVEL \in Nat /\ HeadLevels = 0 .. MAX_LEVEL - 1 /\ sLevel \in 1 .. MAX_LEVEL
  BY <1>1, StructuresAssumption DEF HeadLevels, HighestIs
<1>7. ASSUME NEW m \in On(s) \cup {Top} PROVE DOMAIN sForward[m] \subseteq HeadLevels
  <2>1. PICK h \in 1 .. MAX_LEVEL : DOMAIN sForward[m] = 0 .. h - 1
    BY <1>1, <1>5 DEF Skipping
  <2> QED BY <1>6, <2>1
<1>8. sVal' = AddedVal(sVal, s, n, v)
  BY <1>2, <1>5 DEF AddedVal
<1>9. sForward' = AddedForward(sForward, s, P, n, lvl)
  <2> DEFINE A(m) == IF m = n THEN [i \in 0 .. lvl - 1 |-> sForward[Skip!update(v)[i]][i]]
                     ELSE [i \in DOMAIN sForward[m] |->
                              IF i < lvl /\ Skip!update(v)[i] = m THEN n ELSE sForward[m][i]]
             B(m) == IF m = n THEN [i \in 0 .. lvl - 1 |-> sForward[Place(s, Turn(sForward, s, P, i))][i]]
                     ELSE [i \in DOMAIN sForward[m] |->
                              IF i < lvl /\ Place(s, Turn(sForward, s, P, i)) = m
                              THEN n ELSE sForward[m][i]]
  <2>1. \A i \in 0 .. lvl - 1 : i \in HeadLevels
    BY <1>6
  <2>2. ASSUME NEW m \in On(s) \cup {Top, n} PROVE A(m) = B(m)
    <3>1. CASE m = n
      BY <1>4, <2>1, <3>1
    <3>2. CASE m # n
      <4>1. \A i \in DOMAIN sForward[m] : Skip!update(v)[i] = Place(s, Turn(sForward, s, P, i))
        BY <1>4, <1>7, <3>2
      <4> QED BY <3>2, <4>1
    <3> QED BY <3>1, <3>2
  <2>3. sForward' = [m \in On(s) \cup {Top, n} |-> A(m)]
    BY <1>2, <1>5
  <2>4. AddedForward(sForward, s, P, n, lvl) = [m \in On(s) \cup {Top, n} |-> B(m)]
    BY DEF AddedForward
  <2> HIDE DEF A, B
  <2> QED BY <2>2, <2>3, <2>4
<1> DEFINE t == PutBehind(s, P, n)
<1>10. Skipping(sForward', sVal', t)
  BY <1>1, <1>3, <1>5, <1>8, <1>9, AddedIsSkipping
<1>11. On(t) = On(s) \cup {n}
  <2>1. P \in 0 .. Len(s)
    BY <1>3 DEF Splits
  <2> QED BY <1>5, <2>1, PutBehindFacts
<1>12. /\ DOMAIN sForward'[n] = 0 .. lvl - 1
       /\ \A m \in On(s) : DOMAIN sForward'[m] = DOMAIN sForward[m]
  BY <1>5, <1>9 DEF AddedForward
<1> HIDE DEF t
<1>13. HighestIs(sForward', t, sLevel')
  <2>1. sLevel' \in 1 .. MAX_LEVEL /\ sLevel' >= lvl /\ sLevel' >= sLevel
    BY <1>2, <1>6
  <2>2. sLevel' = 1 \/ \E m \in On(t) : sLevel' - 1 \in DOMAIN sForward'[m]
    <3>1. CASE lvl > sLevel
      <4>1. sLevel' - 1 \in 0 .. lvl - 1 /\ n \in On(t)
        BY <1>2, <1>6, <1>11, <3>1
      <4> QED BY <1>12, <4>1
    <3>2. CASE ~(lvl > sLevel)
      <4>1. sLevel' = sLevel
        BY <1>2, <3>2
      <4>2. sLevel = 1 \/ \E m \in On(s) : sLevel - 1 \in DOMAIN sForward[m]
        BY <1>1 DEF HighestIs
      <4> QED BY <1>11, <1>12, <4>1, <4>2
    <3> QED BY <3>1, <3>2
  <2>3. ASSUME NEW m \in On(t), NEW i \in sLevel' .. MAX_LEVEL - 1 PROVE i \notin DOMAIN sForward'[m]
    <3>1. i \notin 0 .. lvl - 1 /\ i \in sLevel .. MAX_LEVEL - 1
      BY <1>6, <2>1
    <3>2. \A q \in On(s) : i \notin DOMAIN sForward[q]
      BY <1>1, <3>1 DEF HighestIs
    <3> QED BY <1>11, <1>12, <3>1, <3>2
  <2> QED BY <2>1, <2>2, <2>3 DEF HighestIs
<1>14. SkipGood(t)'
  <2>1. SkipGood(t)' = (Skipping(sForward', sVal', t) /\ HighestIs(sForward', t, sLevel'))
    BY DEF SkipGood
  <2> QED BY <1>10, <1>13, <2>1
<1> QED BY <1>2, <1>14

\* An erase unlinks the node from every list it is on: the break comes where they end.
LEMMA LinkedIs ==
    ASSUME NEW s, SkipGood(s), NEW v \in Numbers, NEW P, Splits(sVal, s, v, P), P + 1 <= Len(s)
    PROVE  Skip!Linked(s[P + 1], v) = DOMAIN sForward[s[P + 1]]
<1> DEFINE n == s[P + 1]
           T(i) == Turn(sForward, s, P, i)
           R(i) == Places(sForward, s, i)
<1>1. Skipping(sForward, sVal, s) /\ HighestIs(sForward, s, sLevel)
  BY DEF SkipGood
<1>2. /\ Len(s) \in Nat /\ P \in 0 .. Len(s) /\ P + 1 \in 1 .. Len(s) /\ n \in On(s)
      /\ \A m \in 1 .. Len(s) : At(s, m) = s[m] /\ (s[m] = n => m = P + 1) /\ Place(s, m) = s[m]
      /\ At(s, Len(s) + 1) # n
  <2>1. Len(s) \in Nat /\ P \in 0 .. Len(s) /\ P + 1 \in 1 .. Len(s)
    BY <1>1, SkippingFacts DEF Splits
  <2>2. /\ \A m \in 1 .. Len(s) : At(s, m) = s[m] /\ Place(s, m) = s[m] /\ s[m] \in On(s) /\ s[m] # Null
        /\ At(s, Len(s) + 1) = Null
    BY <1>1, SkippingFacts
  <2>3. \A m \in 1 .. Len(s) : s[m] = n => m = P + 1
    BY <1>1, <2>1, NodeSeqFacts DEF Skipping
  <2> QED BY <2>1, <2>2, <2>3
<1>3. MAX_LEVEL \in Nat /\ HeadLevels = 0 .. MAX_LEVEL - 1 /\ sLevel \in 1 .. MAX_LEVEL
  BY <1>1, StructuresAssumption DEF HeadLevels, HighestIs
<1>4. PICK h \in 1 .. MAX_LEVEL : DOMAIN sForward[n] = 0 .. h - 1
  BY <1>1, <1>2 DEF Skipping
<1> HIDE DEF n
<1>5. h <= sLevel
  <2> SUFFICES ASSUME ~(h <= sLevel) PROVE FALSE
    OBVIOUS
  <2>1. sLevel \in 0 .. h - 1 /\ sLevel \in sLevel .. MAX_LEVEL - 1
    BY <1>3
  <2> QED BY <1>1, <1>2, <1>4, <2>1 DEF HighestIs
<1>6. \A i : P + 1 \in R(i) <=> i \in 0 .. h - 1
  BY <1>2, <1>4 DEF Places, n
<1>7. ASSUME NEW j \in HeadLevels PROVE sForward[Skip!update(v)[j]][j] = n <=> j \in 0 .. h - 1
  <2>1. T(j) \in R(j) /\ T(j) \in 0 .. P /\ \A z \in T(j) + 1 .. P : z \notin R(j)
    BY <1>1, TurnIs DEF LastIn
  <2>2. Skip!update(v)[j] = Place(s, T(j))
    BY <1>1, UpdateIs
  <2>3. PICK r : NextAt(sForward, sVal, s, v, P, T(j), j, r)
    BY <1>1, <2>1, NextCases
  <2> HIDE DEF T, R
  <2>4. /\ r \in T(j) + 1 .. Len(s) + 1
        /\ sForward[Place(s, T(j))][j] = At(s, r)
        /\ r <= Len(s) => r \in R(j) /\ r \in 1 .. Len(s)
        /\ \A x \in T(j) + 1 .. r - 1 : x \notin R(j)
    BY <2>3 DEF NextAt, R
  <2>5. ~(r <= P)
    BY <1>2, <2>1, <2>4
  <2>6. CASE r = P + 1
    BY <1>2, <1>6, <2>2, <2>4, <2>6 DEF n
  <2>7. CASE r # P + 1
    <3>1. P + 1 \notin R(j)
      BY <1>2, <2>1, <2>4, <2>5, <2>7
    <3>2. At(s, r) # n
      <4>1. r \in 1 .. Len(s) \/ r = Len(s) + 1
        BY <1>2, <2>1, <2>4
      <4> QED BY <1>2, <2>7, <4>1
    <3> QED BY <1>6, <2>2, <2>4, <3>1, <3>2
  <2> QED BY <2>6, <2>7
<1>8. Skip!Linked(n, v) = {i \in 0 .. sLevel - 1 : \A j \in 0 .. i : sForward[Skip!update(v)[j]][j] = n}
  BY DEF Skip!Linked
<1>9. ASSUME NEW i \in 0 .. sLevel - 1
      PROVE  (\A j \in 0 .. i : sForward[Skip!update(v)[j]][j] = n) <=> i \in 0 .. h - 1
  <2>1. \A j \in 0 .. i : j \in HeadLevels
    BY <1>3
  <2>2. i \in 0 .. i
    BY <1>3
  <2>3. i \in 0 .. h - 1 => \A j \in 0 .. i : j \in 0 .. h - 1
    BY <1>3
  <2> QED BY <1>7, <2>1, <2>2, <2>3
<1>10. \A i \in 0 .. h - 1 : i \in 0 .. sLevel - 1
  BY <1>3, <1>5
<1> QED BY <1>4, <1>8, <1>9, <1>10 DEF n

LEMMA UnlinkIsGood ==
    ASSUME NEW s, SkipGood(s), NEW v \in Numbers, Skip!Unlink(v)
    PROVE  \E t, n : /\ SkipGood(t)'
                     /\ n \in DOMAIN sVal /\ sVal[n] = v
                     /\ sVal' = [m \in DOMAIN sVal \ {n} |-> sVal[m]]
<1>1. Skipping(sForward, sVal, s) /\ HighestIs(sForward, s, sLevel)
  BY DEF SkipGood
<1>2. PICK P : Splits(sVal, s, v, P)
  BY <1>1, SplitExists
<1> DEFINE n == s[P + 1]
           t == Drop(s, P + 1)
<1>3. P + 1 <= Len(s) /\ sVal[n] = v /\ Skip!Found(v) = n /\ P + 1 \in 1 .. Len(s) /\ n \in On(s)
  <2>1. Skip!Hits(v)
    BY DEF Skip!Unlink
  <2>2. P + 1 <= Len(s) /\ sVal[n] = v /\ Skip!Found(v) = At(s, P + 1)
    BY <1>1, <1>2, <2>1, FoundIs
  <2>3. P \in 0 .. Len(s) /\ Len(s) \in Nat
    BY <1>1, <1>2, SkippingFacts DEF Splits
  <2>4. P + 1 \in 1 .. Len(s)
    BY <2>2, <2>3
  <2> QED BY <1>1, <2>2, <2>4, SkippingFacts
<1>4. /\ DOMAIN sVal = On(s) /\ DOMAIN sForward = On(s) \cup {Top} /\ s \in NodeSeqs
      /\ \A i \in HeadLevels : Skip!update(v)[i] = Place(s, Turn(sForward, s, P, i))
      /\ Skip!Linked(n, v) = DOMAIN sForward[n]
  BY <1>1, <1>2, <1>3, UpdateIs, LinkedIs DEF Skipping
<1>5. MAX_LEVEL \in Nat /\ HeadLevels = 0 .. MAX_LEVEL - 1 /\ sLevel \in 1 .. MAX_LEVEL
  BY <1>1, StructuresAssumption DEF HeadLevels, HighestIs
<1>6. /\ sVal' = [m \in On(s) \ {n} |-> sVal[m]]
      /\ sForward' = [m \in (On(s) \cup {Top}) \ {n} |->
                         [i \in DOMAIN sForward[m] |->
                             IF i \in DOMAIN sForward[n] /\ Skip!update(v)[i] = m
                             THEN sForward[n][i] ELSE sForward[m][i]]]
      /\ sLevel' = Skip!Lowered(sForward'[Top])
  <2>1. /\ sVal' = [m \in DOMAIN sVal \ {Skip!Found(v)} |-> sVal[m]]
        /\ sForward' = [m \in (DOMAIN sVal \cup {Top}) \ {Skip!Found(v)} |->
                           [i \in DOMAIN sForward[m] |->
                               IF i \in Skip!Linked(Skip!Found(v), v) /\ Skip!update(v)[i] = m
                               THEN sForward[Skip!Found(v)][i] ELSE sForward[m][i]]]
        /\ sLevel' = Skip!Lowered(sForward'[Top])
    BY DEF Skip!Unlink, Skip!live
  <2> HIDE DEF n
  <2> QED BY <1>3, <1>4, <2>1
<1>7. sVal' = ErasedVal(sVal, s, P)
  BY <1>6 DEF ErasedVal
<1> HIDE DEF n
<1>8. sForward' = ErasedForward(sForward, s, P)
  <2> DEFINE A(m) == [i \in DOMAIN sForward[m] |->
                         IF i \in DOMAIN sForward[n] /\ Skip!update(v)[i] = m
                         THEN sForward[n][i] ELSE sForward[m][i]]
             B(m) == [i \in DOMAIN sForward[m] |->
                         IF i \in DOMAIN sForward[n] /\ Place(s, Turn(sForward, s, P, i)) = m
                         THEN sForward[n][i] ELSE sForward[m][i]]
  <2>1. ASSUME NEW m \in On(s) \cup {Top} PROVE A(m) = B(m)
    <3>1. PICK h \in 1 .. MAX_LEVEL : DOMAIN sForward[m] = 0 .. h - 1
      BY <1>1, <1>4 DEF Skipping
    <3>2. \A i \in DOMAIN sForward[m] : i \in HeadLevels
      BY <1>5, <3>1
    <3> QED BY <1>4, <3>2
  <2>2. sForward' = [m \in (On(s) \cup {Top}) \ {n} |-> A(m)]
    BY <1>6
  <2>3. ErasedForward(sForward, s, P) = [m \in (On(s) \cup {Top}) \ {n} |-> B(m)]
    BY DEF ErasedForward, n
  <2> HIDE DEF A, B
  <2> QED BY <2>1, <2>2, <2>3
<1>9. Skipping(sForward', sVal', t)
  BY <1>1, <1>2, <1>3, <1>7, <1>8, ErasedIsSkipping
<1>10. On(t) = On(s) \ {n}
  BY <1>3, <1>4, DropFacts DEF n
<1> HIDE DEF t
<1>11. ASSUME NEW m \in On(t), NEW i \in sLevel .. MAX_LEVEL - 1 PROVE i \notin DOMAIN sForward'[m]
  <2>1. DOMAIN sForward'[m] = DOMAIN sForward[m] /\ m \in On(s)
    BY <1>6, <1>10
  <2> QED BY <1>1, <2>1 DEF HighestIs
<1>12. HighestIs(sForward', t, sLevel')
  <2>1. HighestIs(sForward', t, Skip!Lowered(sForward'[Top]))
    BY <1>5, <1>9, <1>11, LoweredIs
  <2> QED BY <1>6, <2>1
<1>13. SkipGood(t)'
  <2>1. SkipGood(t)' = (Skipping(sForward', sVal', t) /\ HighestIs(sForward', t, sLevel'))
    BY DEF SkipGood
  <2> QED BY <1>9, <1>12, <2>1
<1> QED BY <1>3, <1>4, <1>6, <1>13

LEMMA FreeIsGood ==
    ASSUME NEW s, SkipGood(s), Skip!skiplistFree
    PROVE  DOMAIN sVal' = {}
<1>1. Skip!Along = s /\ DOMAIN s = 1 .. Len(s) /\ DOMAIN sVal = On(s)
  BY AlongIs, NodeSeqFacts DEF SkipGood, Skipping
<1>2. {Skip!Along[m] : m \in DOMAIN Skip!Along} = DOMAIN sVal
  BY <1>1 DEF On
<1>3. DOMAIN sVal' = DOMAIN sVal \ {Skip!Along[m] : m \in DOMAIN Skip!Along}
  BY DEF Skip!skiplistFree, Skip!live
<1> QED BY <1>2, <1>3

LEMMA InitSkipInv == ASSUME Skip!Init PROVE SkipInv
<1>1. /\ sVal = [n \in {} |-> 0] /\ sForward = [n \in {Top} |-> [i \in HeadLevels |-> Null]]
      /\ sLevel = 1 /\ sFreed = FALSE
  BY DEF Skip!Init, HeadLevels
<1>2. MAX_LEVEL \in Nat \ {0} /\ HeadLevels = 0 .. MAX_LEVEL - 1
  BY StructuresAssumption DEF HeadLevels
<1> DEFINE s == <<>>
<1>3. s \in NodeSeqs /\ Len(s) = 0 /\ On(s) = {} /\ At(s, 1) = Null
  BY DEF NodeSeqs, On, At
<1> HIDE DEF s
<1>4. Place(s, 0) = Top /\ 0 .. Len(s) = {0} /\ 1 .. Len(s) = {}
  BY <1>3 DEF Place
<1>5. ASSUME NEW i \in HeadLevels PROVE NextIs(sForward, s, 0, i)
  <2>1. /\ 1 \in 0 + 1 .. Len(s) + 1 /\ sForward[Place(s, 0)][i] = At(s, 1) /\ ~(1 <= Len(s))
        /\ \A r \in 0 + 1 .. 1 - 1 : FALSE
    BY <1>1, <1>3, <1>4
  <2> QED BY <2>1 DEF NextIs
<1>6. DOMAIN sVal = {} /\ DOMAIN sForward = {Top} /\ DOMAIN sForward[Top] = HeadLevels
  BY <1>1
<1>7. Skipping(sForward, sVal, s)
  BY <1>2, <1>3, <1>4, <1>5, <1>6 DEF Skipping
<1>8. HighestIs(sForward, s, sLevel)
  BY <1>1, <1>2, <1>3 DEF HighestIs
<1> QED BY <1>1, <1>7, <1>8 DEF SkipInv, SkipGood

LEMMA NextSkipInv == SkipInv /\ [Skip!Next]_(Skip!vars) => SkipInv'
<1> SUFFICES ASSUME SkipInv, [Skip!Next]_(Skip!vars) PROVE SkipInv'
  OBVIOUS
<1>1. ASSUME UNCHANGED <<sVal, sForward, sLevel, sFreed>> PROVE SkipInv'
  <2>1. ASSUME NEW s, SkipGood(s) PROVE SkipGood(s)'
    BY <1>1, <2>1 DEF SkipGood
  <2> QED BY <1>1, <2>1 DEF SkipInv
<1>2. CASE UNCHANGED Skip!vars
  BY <1>1, <1>2 DEF Skip!vars
<1>3. CASE Skip!skiplistFree
  <2>1. PICK s : SkipGood(s)
    BY <1>3 DEF SkipInv, Skip!skiplistFree
  <2>2. DOMAIN sVal' = {} /\ sFreed' = TRUE
    BY <1>3, <2>1, FreeIsGood DEF Skip!skiplistFree
  <2> QED BY <2>2 DEF SkipInv
<1>4. ASSUME NEW v \in Numbers, Skip!skiplistSearch(v) \/ Skip!Missed(v) PROVE SkipInv'
  BY <1>1, <1>4 DEF Skip!skiplistSearch, Skip!Missed
<1>5. ASSUME NEW v \in Numbers, Skip!skiplistAdd(v) PROVE SkipInv'
  <2>1. ~sFreed /\ sFreed' = sFreed
    BY <1>5 DEF Skip!skiplistAdd
  <2>2. PICK s : SkipGood(s)
    BY <2>1 DEF SkipInv
  <2>3. \E t : SkipGood(t)'
    BY <1>5, <2>2, AddIsGood
  <2> QED BY <2>1, <2>3 DEF SkipInv
<1>6. ASSUME NEW v \in Numbers, Skip!Unlink(v) PROVE SkipInv'
  <2>1. ~sFreed /\ sFreed' = sFreed
    BY <1>6 DEF Skip!Unlink
  <2>2. PICK s : SkipGood(s)
    BY <2>1 DEF SkipInv
  <2>3. \E t : SkipGood(t)'
    BY <1>6, <2>2, UnlinkIsGood
  <2> QED BY <2>1, <2>3 DEF SkipInv
<1> QED BY <1>2, <1>3, <1>4, <1>5, <1>6 DEF Skip!Next

LEMMA NestedFromInv == SkipInv => LevelsNested
<1> SUFFICES ASSUME SkipInv, ~sFreed PROVE Skip!LevelsNested
  BY DEF LevelsNested, Skip!LevelsNested, SkipInv, Skip!live
<1>1. PICK s : SkipGood(s)
  BY DEF SkipInv
<1>2. Skipping(sForward, sVal, s) /\ HighestIs(sForward, s, sLevel)
  BY <1>1 DEF SkipGood
<1> DEFINE list == <<Top>> \o Skip!Along
<1>3. Skip!Along = s
  BY <1>2, AlongIs
<1>4. /\ s \in Seq(Nodes) /\ Len(s) \in Nat /\ DOMAIN s = 1 .. Len(s)
      /\ \A m \in 1 .. Len(s) : At(s, m) = s[m] /\ Place(s, m) = s[m] /\ s[m] \in On(s)
      /\ At(s, Len(s) + 1) = Null /\ DOMAIN sVal = On(s) /\ Place(s, 0) = Top
  <2>1. s \in NodeSeqs /\ DOMAIN sVal = On(s)
    BY <1>2 DEF Skipping
  <2>2. s \in Seq(Nodes) /\ Len(s) \in Nat /\ DOMAIN s = 1 .. Len(s)
    BY <2>1, NodeSeqFacts
  <2> QED BY <1>2, <2>1, <2>2, SkippingFacts
<1>5. /\ Len(list) = Len(s) + 1 /\ DOMAIN list = 1 .. Len(s) + 1
      /\ \A m \in 1 .. Len(s) + 1 : list[m] = Place(s, m - 1)
  <2> DEFINE S == Nodes \cup {Top}
             one == <<Top>>
  <2>1. one \in Seq(S) /\ s \in Seq(S) /\ Len(one) = 1 /\ one[1] = Top
    BY <1>4
  <2> HIDE DEF S, one
  <2>2. /\ one \o s \in Seq(S)
        /\ Len(one \o s) = Len(one) + Len(s)
        /\ \A m \in 1 .. Len(one) + Len(s) : (one \o s)[m] = IF m <= Len(one) THEN one[m] ELSE s[m - Len(one)]
    BY <2>1, ConcatProperties
  <2>3. list = one \o s
    BY <1>3 DEF one
  <2> HIDE DEF list
  <2>4. Len(list) = Len(s) + 1 /\ DOMAIN list = 1 .. Len(list)
    BY <1>4, <2>1, <2>2, <2>3, LenProperties
  <2>5. ASSUME NEW m \in 1 .. Len(s) + 1 PROVE list[m] = Place(s, m - 1)
    <3>1. m \in 1 .. Len(one) + Len(s)
      BY <1>4, <2>1
    <3>2. list[m] = IF m <= 1 THEN one[m] ELSE s[m - 1]
      BY <2>1, <2>2, <2>3, <3>1
    <3>3. CASE m = 1
      BY <1>4, <2>1, <3>2, <3>3
    <3>4. CASE m # 1
      <4>1. m - 1 \in 1 .. Len(s) /\ ~(m <= 1)
        BY <1>4, <3>4
      <4> QED BY <1>4, <3>2, <4>1
    <3> QED BY <3>3, <3>4
  <2> QED BY <2>4, <2>5
<1> HIDE DEF list
<1>6. ASSUME NEW m \in DOMAIN list, NEW i \in DOMAIN sForward[list[m]] PROVE Skip!LeadsOn(list, m, i)
  <2>1. m \in 1 .. Len(s) + 1 /\ m - 1 \in 0 .. Len(s) /\ list[m] = Place(s, m - 1) /\ m \in Int
    BY <1>4, <1>5
  <2>2. NextIs(sForward, s, m - 1, i)
    BY <1>2, <1>6, <2>1 DEF Skipping
  <2>3. PICK q \in (m - 1) + 1 .. Len(s) + 1 :
            /\ sForward[Place(s, m - 1)][i] = At(s, q)
            /\ q <= Len(s) => q \in Places(sForward, s, i)
            /\ \A r \in (m - 1) + 1 .. q - 1 : r \notin Places(sForward, s, i)
    BY <2>2 DEF NextIs
  <2>4. \A r \in 1 .. Len(s) : Place(s, r) \in Skip!Reaching(i) <=> r \in Places(sForward, s, i)
    <3>1. Skip!Reaching(i) = {n \in DOMAIN sVal : i \in DOMAIN sForward[n]}
      BY DEF Skip!Reaching, Skip!live
    <3> QED BY <1>4, <3>1 DEF Places
  <2>5. q + 1 \in m + 1 .. Len(list) + 1 /\ q \in 1 .. Len(s) + 1
    BY <1>4, <1>5, <2>1
  <2>6. sForward[list[m]][i] = IF q + 1 > Len(list) THEN Null ELSE list[q + 1]
    <3>1. CASE q <= Len(s)
      <4>1. q \in 1 .. Len(s) /\ q + 1 \in 1 .. Len(s) + 1 /\ (q + 1) - 1 = q /\ ~(q + 1 > Len(list))
        BY <1>4, <1>5, <2>5, <3>1
      <4> QED BY <1>4, <1>5, <2>1, <2>3, <4>1
    <3>2. CASE ~(q <= Len(s))
      <4>1. q = Len(s) + 1 /\ q + 1 > Len(list)
        BY <1>4, <1>5, <2>5, <3>2
      <4> QED BY <1>4, <2>1, <2>3, <4>1
    <3> QED BY <3>1, <3>2
  <2>7. q + 1 <= Len(list) => list[q + 1] \in Skip!Reaching(i)
    <3> SUFFICES ASSUME q + 1 <= Len(list) PROVE list[q + 1] \in Skip!Reaching(i)
      OBVIOUS
    <3>1. q \in 1 .. Len(s) /\ q <= Len(s) /\ q + 1 \in 1 .. Len(s) + 1 /\ (q + 1) - 1 = q
      BY <1>4, <1>5, <2>5
    <3> QED BY <1>5, <2>3, <2>4, <3>1
  <2>8. ASSUME NEW r \in m + 1 .. (q + 1) - 1 PROVE list[r] \notin Skip!Reaching(i)
    <3>1. r - 1 \in (m - 1) + 1 .. q - 1 /\ r - 1 \in 1 .. Len(s) /\ r \in 1 .. Len(s) + 1
      BY <1>4, <2>1, <2>5
    <3> QED BY <1>5, <2>3, <2>4, <3>1
  <2> QED BY <2>5, <2>6, <2>7, <2>8 DEF Skip!LeadsOn
<1>7. {Skip!Along[m] : m \in DOMAIN Skip!Along} = Skip!live
  BY <1>3, <1>4 DEF On, Skip!live
<1>8. \A m \in 2 .. Len(Skip!Along) : sVal[Skip!Along[m - 1]] <= sVal[Skip!Along[m]]
  <2> SUFFICES ASSUME NEW m \in 2 .. Len(s) PROVE sVal[s[m - 1]] <= sVal[s[m]]
    BY <1>3
  <2>1. m - 1 \in 1 .. Len(s) /\ m \in 1 .. Len(s) /\ m - 1 < m
    BY <1>4
  <2> QED BY <1>2, <2>1 DEF Skipping
<1>9. sLevel = 1 \/ Skip!Reaching(sLevel - 1) # {}
  BY <1>2, <1>4 DEF HighestIs, Skip!Reaching, Skip!live
<1>10. \A i \in sLevel .. MAX_LEVEL - 1 : Skip!Reaching(i) = {}
  BY <1>2, <1>4 DEF HighestIs, Skip!Reaching, Skip!live
<1> QED BY <1>6, <1>7, <1>8, <1>9, <1>10 DEF Skip!LevelsNested, list

\* The lists of src/1206.c stay lists of one another whatever is added, at whatever
\* heights, and erased: the erase may stop unlinking at the first list that does not lead
\* to the node, equal numbers never change places between lists, and the level follows
\* the highest node.
THEOREM LevelsStayNested == StructuresSpec => []LevelsNested
<1>1. StructuresInit => SkipInv
  BY InitSkipInv DEF StructuresInit
<1>2. SkipInv /\ [StructuresNext]_structureVars => SkipInv'
  <2> SUFFICES ASSUME SkipInv, [StructuresNext]_structureVars PROVE SkipInv'
    OBVIOUS
  <2>1. Skip!Next \/ UNCHANGED sVars
    BY DEF StructuresNext, structureVars
  <2>2. [Skip!Next]_(Skip!vars)
    BY <2>1 DEF sVars, Skip!vars
  <2> QED BY <2>2, NextSkipInv
<1> QED BY <1>1, <1>2, NestedFromInv, PTL DEF StructuresSpec

-----------------------------------------------------------------------------
\* The collection.  Times(w) counts the numbers of the nodes of w.
With(w, v) == {n \in DOMAIN w : w[n] = v}
Times(w) == [v \in Numbers |-> Cardinality(With(w, v))]

LEMMA WithFinite ==
    ASSUME NEW w, IsFiniteSet(DOMAIN w), NEW v
    PROVE  /\ IsFiniteSet(With(w, v)) /\ Cardinality(With(w, v)) \in Nat
           /\ Cardinality(With(w, v)) > 0 <=> \E n \in DOMAIN w : w[n] = v
<1>1. With(w, v) \in SUBSET DOMAIN w
  BY DEF With
<1>2. IsFiniteSet(With(w, v))
  BY <1>1, FS_Subset
<1>3. Cardinality(With(w, v)) \in Nat
  BY <1>2, FS_CardinalityType
<1>4. Cardinality(With(w, v)) = 0 <=> With(w, v) = {}
  BY <1>2, FS_EmptySet
<1>5. With(w, v) # {} <=> \E n \in DOMAIN w : w[n] = v
  BY DEF With
<1> QED BY <1>2, <1>3, <1>4, <1>5

LEMMA TimesAdded ==
    ASSUME NEW w, IsFiniteSet(DOMAIN w), NEW x, NEW n, n \notin DOMAIN w, NEW v \in Numbers,
           DOMAIN x = DOMAIN w \cup {n}, \A m \in DOMAIN x : x[m] = IF m = n THEN v ELSE w[m]
    PROVE  Times(x) = [Times(w) EXCEPT ![v] = @ + 1]
<1>1. ASSUME NEW u \in Numbers
      PROVE  Cardinality(With(x, u)) = IF u = v THEN Cardinality(With(w, u)) + 1
                                       ELSE Cardinality(With(w, u))
  <2>1. CASE u = v
    <3>1. With(x, u) = With(w, u) \cup {n} /\ n \notin With(w, u)
      BY <2>1 DEF With
    <3>2. IsFiniteSet(With(w, u))
      BY WithFinite
    <3> QED BY <2>1, <3>1, <3>2, FS_AddElement
  <2>2. CASE u # v
    <3>1. With(x, u) = With(w, u)
      BY <2>2 DEF With
    <3> QED BY <2>2, <3>1
  <2> QED BY <2>1, <2>2
<1> QED BY <1>1 DEF Times

LEMMA TimesErased ==
    ASSUME NEW w, IsFiniteSet(DOMAIN w), NEW n \in DOMAIN w, NEW v \in Numbers, w[n] = v
    PROVE  Times([m \in DOMAIN w \ {n} |-> w[m]]) = [Times(w) EXCEPT ![v] = @ - 1]
<1> DEFINE x == [m \in DOMAIN w \ {n} |-> w[m]]
<1>1. ASSUME NEW u \in Numbers
      PROVE  Cardinality(With(x, u)) = IF u = v THEN Cardinality(With(w, u)) - 1
                                       ELSE Cardinality(With(w, u))
  <2>1. CASE u = v
    <3>1. With(x, u) = With(w, u) \ {n} /\ n \in With(w, u)
      BY <2>1 DEF With
    <3>2. IsFiniteSet(With(w, u))
      BY WithFinite
    <3> HIDE DEF x
    <3> QED BY <2>1, <3>1, <3>2, FS_RemoveElement
  <2>2. CASE u # v
    <3>1. With(x, u) = With(w, u)
      BY <2>2 DEF With
    <3> QED BY <2>2, <3>1
  <2> QED BY <2>1, <2>2
<1> HIDE DEF x
<1>2. Times(x) = [Times(w) EXCEPT ![v] = @ - 1]
  BY <1>1 DEF Times
<1> QED BY <1>2 DEF x

LEMMA LiveFinite == ASSUME SkipInv PROVE IsFiniteSet(DOMAIN sVal)
<1>1. CASE sFreed
  BY <1>1, FS_EmptySet DEF SkipInv
<1>2. CASE ~sFreed
  <2>1. PICK s : SkipGood(s)
    BY <1>2 DEF SkipInv
  <2>2. DOMAIN sVal = On(s) /\ s \in NodeSeqs
    BY <2>1 DEF SkipGood, Skipping
  <2>3. DOMAIN s = 1 .. Len(s) /\ Len(s) \in Nat /\ s = [i \in 1 .. Len(s) |-> s[i]]
    BY <2>2, NodeSeqFacts, LenProperties
  <2>4. s \in Surjection(1 .. Len(s), On(s))
    <3>1. s \in [1 .. Len(s) -> On(s)]
      BY <2>3 DEF On
    <3>2. \A n \in On(s) : \E i \in 1 .. Len(s) : s[i] = n
      BY DEF On
    <3> QED BY <3>1, <3>2 DEF Surjection
  <2>5. 1 \in Int /\ Len(s) \in Int
    BY <2>3
  <2>6. IsFiniteSet(1 .. Len(s))
    BY <2>5, FS_Interval
  <2> QED BY <2>2, <2>4, <2>6, FS_Surjection
<1> QED BY <1>1, <1>2

\* The mapping of SkipList!Bag.
LEMMA TimesIs ==
    ASSUME NEW w
    PROVE  [v \in Numbers |-> Skip!Cardinality({n \in DOMAIN w : w[n] = v})] = Times(w)
<1>1. \A S : Skip!Cardinality(S) = Cardinality(S)
  BY DEF Skip!Cardinality, Cardinality
<1> QED BY <1>1 DEF Times, With

LEMMA BagStep ==
    ASSUME SkipInv, [Skip!Next]_(Skip!vars)
    PROVE  [Skip!Bag!Next]_(Skip!Bag!bagVars)
<1> DEFINE T == [v \in Numbers |-> Skip!Cardinality({n \in DOMAIN sVal : sVal[n] = v})]
<1>1. T = Times(sVal) /\ T' = Times(sVal')
  BY TimesIs
<1>2. IsFiniteSet(DOMAIN sVal)
  BY LiveFinite
<1>3. ASSUME NEW v \in Numbers PROVE T[v] > 0 <=> \E n \in DOMAIN sVal : sVal[n] = v
  BY <1>1, <1>2, WithFinite DEF Times
<1>4. ASSUME NEW v \in Numbers, ~sFreed PROVE Skip!Hits(v) <=> T[v] > 0
  <2>1. PICK s : Skipping(sForward, sVal, s) /\ HighestIs(sForward, s, sLevel)
    BY <1>4 DEF SkipInv, SkipGood
  <2>2. PICK P : Splits(sVal, s, v, P)
    BY <2>1, SplitExists
  <2>3. Skip!Hits(v) <=> \E n \in DOMAIN sVal : sVal[n] = v
    BY <2>1, <2>2, FoundIs
  <2> QED BY <1>3, <2>3
<1> HIDE DEF T
<1>5. /\ \A v : Skip!Bag!Search(v) = (sAnswer' = (T[v] > 0) /\ T' = T)
      /\ \A v : Skip!Bag!Add(v) = (T' = [T EXCEPT ![v] = @ + 1] /\ sAnswer' = Null)
      /\ \A v : Skip!Bag!Erase(v) =
             (sAnswer' = (T[v] > 0) /\ T' = IF T[v] > 0 THEN [T EXCEPT ![v] = @ - 1] ELSE T)
      /\ Skip!Bag!Free = (T' = [v \in Numbers |-> 0] /\ sAnswer' = Null)
  BY DEF Skip!Bag!Search, Skip!Bag!Add, Skip!Bag!Erase, Skip!Bag!Free, Skip!live, T
<1>6. CASE UNCHANGED Skip!vars
  BY <1>6 DEF Skip!vars, Skip!Bag!bagVars, Skip!live
<1>7. CASE Skip!skiplistFree
  <2>1. ~sFreed /\ sAnswer' = Null
    BY <1>7 DEF Skip!skiplistFree
  <2>2. PICK s : SkipGood(s)
    BY <2>1 DEF SkipInv
  <2>3. DOMAIN sVal' = {}
    BY <1>7, <2>2, FreeIsGood
  <2>4. \A v : Cardinality(With(sVal', v)) = 0
    <3>1. \A v : With(sVal', v) = {}
      BY <2>3 DEF With
    <3> QED BY <3>1, FS_EmptySet
  <2>5. T' = [v \in Numbers |-> 0]
    BY <1>1, <2>4 DEF Times
  <2> QED BY <1>5, <2>1, <2>5 DEF Skip!Bag!Next
<1>8. ASSUME NEW v \in Numbers, Skip!skiplistSearch(v) PROVE Skip!Bag!Search(v)
  <2>1. ~sFreed /\ sAnswer' = Skip!Hits(v) /\ sVal' = sVal
    BY <1>8 DEF Skip!skiplistSearch
  <2>2. T' = T
    BY <1>1, <2>1
  <2>3. Skip!Hits(v) = (T[v] > 0)
    BY <1>4, <2>1 DEF Skip!Hits
  <2> QED BY <1>5, <2>1, <2>2, <2>3
<1>9. ASSUME NEW v \in Numbers, Skip!Missed(v) PROVE Skip!Bag!Erase(v)
  <2>1. ~sFreed /\ ~Skip!Hits(v) /\ sAnswer' = FALSE /\ sVal' = sVal
    BY <1>9 DEF Skip!Missed
  <2>2. T' = T
    BY <1>1, <2>1
  <2>3. (T[v] > 0) = FALSE
    BY <1>4, <2>1
  <2> QED BY <1>5, <2>1, <2>2, <2>3
<1>10. ASSUME NEW v \in Numbers, Skip!skiplistAdd(v) PROVE Skip!Bag!Add(v)
  <2>1. ~sFreed /\ sAnswer' = Null
    BY <1>10 DEF Skip!skiplistAdd
  <2>2. PICK s : SkipGood(s)
    BY <2>1 DEF SkipInv
  <2>3. PICK n : /\ n \notin DOMAIN sVal
                 /\ DOMAIN sVal' = DOMAIN sVal \cup {n}
                 /\ \A m \in DOMAIN sVal' : sVal'[m] = IF m = n THEN v ELSE sVal[m]
    BY <1>10, <2>2, AddIsGood
  <2>4. Times(sVal') = [Times(sVal) EXCEPT ![v] = @ + 1]
    BY <1>2, <2>3, TimesAdded
  <2> QED BY <1>1, <1>5, <2>1, <2>4
<1>11. ASSUME NEW v \in Numbers, Skip!Unlink(v) PROVE Skip!Bag!Erase(v)
  <2>1. ~sFreed /\ sAnswer' = TRUE /\ Skip!Hits(v)
    BY <1>11 DEF Skip!Unlink
  <2>2. PICK s : SkipGood(s)
    BY <2>1 DEF SkipInv
  <2>3. PICK n : n \in DOMAIN sVal /\ sVal[n] = v /\ sVal' = [m \in DOMAIN sVal \ {n} |-> sVal[m]]
    BY <1>11, <2>2, UnlinkIsGood
  <2>4. Times(sVal') = [Times(sVal) EXCEPT ![v] = @ - 1]
    BY <1>2, <2>3, TimesErased
  <2>5. (T[v] > 0) = TRUE
    BY <1>4, <2>1
  <2> QED BY <1>1, <1>5, <2>1, <2>4, <2>5
<1> QED BY <1>6, <1>7, <1>8, <1>9, <1>10, <1>11 DEF Skip!Next, Skip!Bag!Next

\* The lists of src/1206.c are a collection of numbers: a search answers TRUE exactly if
\* the number was added more often than erased, an erase takes away one occurrence of it,
\* and says whether there was one, and the free at the end loses no node.
THEOREM SkipListIsBag == StructuresSpec => ImplementsBag
<1>1. StructuresInit => SkipInv /\ Skip!Bag!Init
  <2> SUFFICES ASSUME Skip!Init PROVE SkipInv /\ Skip!Bag!Init
    BY DEF StructuresInit
  <2>1. sVal = [n \in {} |-> 0] /\ sAnswer = Null
    BY DEF Skip!Init
  <2>2. [v \in Numbers |-> Skip!Cardinality({n \in DOMAIN sVal : sVal[n] = v})] = Times(sVal)
    BY TimesIs
  <2>3. \A v : With(sVal, v) = {}
    BY <2>1 DEF With
  <2>4. Times(sVal) = [v \in Numbers |-> 0]
    BY <2>3, FS_EmptySet DEF Times
  <2> QED BY <2>1, <2>2, <2>4, InitSkipInv DEF Skip!Bag!Init, Skip!live
<1>2. SkipInv /\ [StructuresNext]_structureVars => SkipInv' /\ [Skip!Bag!Next]_(Skip!Bag!bagVars)
  <2> SUFFICES ASSUME SkipInv, [StructuresNext]_structureVars
               PROVE  SkipInv' /\ [Skip!Bag!Next]_(Skip!Bag!bagVars)
    OBVIOUS
  <2>1. Skip!Next \/ UNCHANGED sVars
    BY DEF StructuresNext, structureVars
  <2>2. [Skip!Next]_(Skip!vars)
    BY <2>1 DEF sVars, Skip!vars
  <2> QED BY <2>2, NextSkipInv, BagStep
<1> QED BY <1>1, <1>2, PTL DEF StructuresSpec, ImplementsBag, Skip!ImplementsBag, Skip!Bag!Spec

-----------------------------------------------------------------------------
\* A loop of n turns has a state before the first and after each of them.
IsTurns(h, n, X, step, base) ==
    /\ h \in [0 .. n -> X]
    /\ h[0] = base
    /\ \A k \in 1 .. n : h[k] = step[k - 1][h[k - 1]]

LEMMA TurnsExist ==
    ASSUME NEW n \in Nat, NEW X, NEW step \in [0 .. n - 1 -> [X -> X]], NEW base \in X
    PROVE  \E h : IsTurns(h, n, X, step, base)
<1> DEFINE Reaches(m, h) == /\ h \in [0 .. m -> X] /\ h[0] = base
                            /\ \A k \in 1 .. m : h[k] = step[k - 1][h[k - 1]]
           S == {m \in 0 .. n : \E h : Reaches(m, h)}
<1>1. 0 \in S
  <2> DEFINE h == [k \in 0 .. 0 |-> base]
  <2>1. Reaches(0, h)
    OBVIOUS
  <2> HIDE DEF Reaches
  <2> QED BY <2>1
<1>2. ASSUME NEW m \in 0 .. n - 1, m \in S PROVE m + 1 \in S
  <2>1. PICK h : Reaches(m, h)
    BY <1>2
  <2> DEFINE f == [k \in 0 .. m + 1 |-> IF k <= m THEN h[k] ELSE step[m][h[m]]]
  <2>2. m \in Nat /\ m + 1 \in 0 .. n /\ h[m] \in X /\ step[m][h[m]] \in X
    BY <2>1
  <2>3. f \in [0 .. m + 1 -> X] /\ f[0] = base
    BY <2>1, <2>2
  <2>4. ASSUME NEW k \in 1 .. m + 1 PROVE f[k] = step[k - 1][f[k - 1]]
    <3>1. CASE k = m + 1
      <4>1. k - 1 = m /\ k \in 0 .. m + 1 /\ m \in 0 .. m + 1 /\ ~(k <= m) /\ m <= m
        BY <3>1
      <4>2. f[k] = step[m][h[m]] /\ f[m] = h[m]
        BY <4>1
      <4> QED BY <4>1, <4>2
    <3>2. CASE k # m + 1
      <4>1. k \in 1 .. m /\ k \in 0 .. m + 1 /\ k - 1 \in 0 .. m + 1 /\ k <= m /\ k - 1 <= m
        BY <3>2
      <4>2. f[k] = h[k] /\ f[k - 1] = h[k - 1]
        BY <4>1
      <4> QED BY <2>1, <4>1, <4>2
    <3> QED BY <3>1, <3>2
  <2>5. Reaches(m + 1, f)
    BY <2>3, <2>4
  <2> HIDE DEF Reaches, f
  <2> QED BY <2>2, <2>5
<1> HIDE DEF S
<1>3. n \in S
  <2>1. \A k \in 0 .. n : k \in S
    BY <1>1, <1>2, UpTo
  <2> QED BY <2>1
<1>4. PICK h : Reaches(n, h)
  BY <1>3 DEF S
<1> QED BY <1>4 DEF IsTurns


-----------------------------------------------------------------------------
LEMMA LenDomain == ASSUME NEW n \in Nat, NEW s, DOMAIN s = 1 .. n, s \in Seq(Int) PROVE Len(s) = n
OBVIOUS

\* Among finitely many numbers there is a smallest and a largest one.
LEMMA MinIs ==
    ASSUME NEW S \in SUBSET Nat, S # {}
    PROVE  Arrays!Min(S) \in S /\ \A y \in S : Arrays!Min(S) <= y
<1>1. PICK x \in S : \A y \in S : ~(<<y, x>> \in OpToRel(<, Nat))
  BY NatLessThanWellFounded, WFMin
<1>2. ASSUME NEW y \in S PROVE x <= y
  <2>1. x \in Nat /\ y \in Nat
    OBVIOUS
  <2>2. ~(y < x)
    BY <1>1, <2>1 DEF OpToRel
  <2> QED BY <2>1, <2>2
<1>3. \E z \in S : \A y \in S : z <= y
  BY <1>2
<1> QED BY <1>3 DEF Arrays!Min

LEMMA MaxIs ==
    ASSUME NEW n \in Nat, NEW S \in SUBSET (0 .. n), S # {}
    PROVE  Arrays!Max(S) \in S /\ \A y \in S : Arrays!Max(S) >= y
<1> DEFINE T == {n - x : x \in S}
<1>1. T \in SUBSET Nat /\ T # {}
  <2>1. ASSUME NEW x \in S PROVE n - x \in Nat
    <3>1. x \in 0 .. n
      OBVIOUS
    <3> QED BY <3>1
  <2>2. PICK x : x \in S
    OBVIOUS
  <2>3. n - x \in T
    BY <2>2
  <2>4. T \in SUBSET Nat
    BY <2>1
  <2> QED BY <2>3, <2>4
<1>2. PICK k \in T : \A y \in T : k <= y
  <2> HIDE DEF T
  <2> QED BY <1>1, MinIs
<1>3. PICK x \in S : k = n - x
  BY <1>2
<1>4. \A y \in S : x >= y
  <2> SUFFICES ASSUME NEW y \in S PROVE x >= y
    OBVIOUS
  <2>1. n - y \in T
    OBVIOUS
  <2>2. k <= n - y
    BY <1>2, <2>1
  <2> QED BY <1>3, <2>2
<1> QED BY <1>4 DEF Arrays!Max

\* src/1.c: if there is a pair with the sum, a pair with the sum is what comes back.
LEMMA PairCorrect ==
    ASSUME NEW nums \in Seq(Int), NEW target \in Int
    PROVE  Arrays!PairIsRight(nums, target)
<1> DEFINE n == Len(nums)
           Second(i) == {j \in i + 1 .. Len(nums) : nums[i] + nums[j] = target}
           First == {i \in DOMAIN nums : Second(i) # {}}
<1>1. n \in Nat /\ DOMAIN nums = 1 .. n
  OBVIOUS
<1> SUFFICES ASSUME \E i, j \in DOMAIN nums : i < j /\ nums[i] + nums[j] = target
             PROVE  LET pair == Arrays!twoSum(nums, target)
                    IN  pair[1] < pair[2] /\ nums[pair[1]] + nums[pair[2]] = target
  BY DEF Arrays!PairIsRight
<1>2. First # {}
  <2>1. PICK i \in DOMAIN nums, j \in DOMAIN nums : i < j /\ nums[i] + nums[j] = target
    OBVIOUS
  <2>2. j \in Second(i)
    BY <1>1, <2>1
  <2> QED BY <2>2
<1>3. First \in SUBSET (0 .. n)
  BY <1>1
<1> DEFINE i == Arrays!Max(First)
           j == Arrays!Min(Second(i))
<1>4. i \in First
  <2> HIDE DEF First
  <2> QED BY <1>1, <1>2, <1>3, MaxIs
<1>5. i \in 1 .. n /\ Second(i) # {}
  <2> HIDE DEF i
  <2> QED BY <1>1, <1>4
<1>6. Second(i) \in SUBSET Nat
  <2> HIDE DEF i
  <2> QED BY <1>1, <1>5
<1>7. j \in Second(i)
  <2> HIDE DEF Second
  <2> QED BY <1>5, <1>6, MinIs
<1>8. i < j /\ nums[i] + nums[j] = target
  <2> HIDE DEF i, j
  <2> QED BY <1>1, <1>5, <1>7
<1>9. Arrays!twoSum(nums, target) = <<i, j>>
  BY <1>2 DEF Arrays!twoSum
<1> HIDE DEF i, j
<1> QED BY <1>8, <1>9

LEMMA SameCardinality == \A S : Arrays!Cardinality(S) = Cardinality(S)
BY DEF Arrays!Cardinality, Cardinality

\* src/387.c: the position is that of the first character which is nowhere else.
LEMMA UniqueCorrect ==
    ASSUME NEW A, NEW s \in Seq(A)
    PROVE  Arrays!UniqueIsRight(s)
<1> DEFINE Once(i) == \A j \in DOMAIN s \ {i} : s[j] # s[i]
           freq == [c \in Arrays!ToSet(s) |-> Cardinality({i \in DOMAIN s : s[i] = c})]
           unique == {i \in DOMAIN s : freq[s[i]] = 1}
<1>1. Len(s) \in Nat /\ DOMAIN s = 1 .. Len(s) /\ IsFiniteSet(DOMAIN s)
  BY FS_Interval
<1>2. \A i \in DOMAIN s : i \in unique <=> Once(i)
  <2> SUFFICES ASSUME NEW i \in DOMAIN s PROVE freq[s[i]] = 1 <=> Once(i)
    OBVIOUS
  <2> DEFINE same == {j \in DOMAIN s : s[j] = s[i]}
  <2>1. freq[s[i]] = Cardinality(same)
    BY DEF Arrays!ToSet
  <2>2. IsFiniteSet(same) /\ i \in same
    BY <1>1, FS_Subset
  <2>3. Cardinality(same) = 1 <=> \E x : same = {x}
    <3> HIDE DEF same
    <3> QED BY <2>2, FS_Singleton
  <2>4. (\E x : same = {x}) <=> Once(i)
    <3>1. ASSUME NEW x, same = {x}, NEW j \in DOMAIN s \ {i}, s[j] = s[i] PROVE FALSE
      <4>1. j \in same /\ i \in same
        BY <3>1
      <4> QED BY <3>1, <4>1
    <3>2. ASSUME Once(i) PROVE same = {i}
      BY <3>2
    <3> QED BY <3>1, <3>2
  <2> HIDE DEF freq, same
  <2> QED BY <2>1, <2>3, <2>4
<1> HIDE DEF freq
<1>3. Arrays!firstUniqChar(s) = IF unique = {} THEN -1 ELSE Arrays!Min(unique)
  <2>1. Arrays!firstUniqChar(s) = LET u == {i \in DOMAIN s : freq[s[i]] = 1}
                                  IN  IF u = {} THEN -1 ELSE Arrays!Min(u)
    BY SameCardinality DEF Arrays!firstUniqChar, freq
  <2> QED BY <2>1
<1> DEFINE p == Arrays!firstUniqChar(s)
<1>4. CASE unique = {}
  <2>1. ~\E i \in DOMAIN s : Once(i)
    BY <1>2, <1>4
  <2>2. p = -1
    BY <1>3, <1>4
  <2> QED BY <2>1, <2>2 DEF Arrays!UniqueIsRight
<1>5. CASE unique # {}
  <2>1. unique \in SUBSET Nat /\ unique \subseteq DOMAIN s
    BY <1>1
  <2>2. p \in unique /\ \A y \in unique : p <= y
    <3>1. p = Arrays!Min(unique)
      BY <1>3, <1>5
    <3> HIDE DEF unique, p
    <3>2. Arrays!Min(unique) \in unique /\ \A y \in unique : Arrays!Min(unique) <= y
      BY <1>5, <2>1, MinIs
    <3> QED BY <3>1, <3>2
  <2> HIDE DEF p
  <2>3. p \in DOMAIN s /\ Once(p)
    BY <1>2, <2>1, <2>2
  <2>4. \A i \in 1 .. p - 1 : ~Once(i)
    <3> SUFFICES ASSUME NEW i \in 1 .. p - 1, Once(i) PROVE FALSE
      OBVIOUS
    <3>1. i \in DOMAIN s /\ i < p
      BY <1>1, <2>3
    <3>2. i \in unique
      BY <1>2, <3>1
    <3> QED BY <1>1, <2>2, <2>3, <3>1, <3>2
  <2>5. \E i \in DOMAIN s : Once(i)
    BY <2>3
  <2> HIDE DEF Once
  <2>6. /\ \E i \in DOMAIN s : Once(i)
        /\ Once(p) /\ \A i \in 1 .. p - 1 : ~Once(i)
    BY <2>3, <2>4, <2>5
  <2> QED BY <2>6 DEF Once, p, Arrays!UniqueIsRight
<1> QED BY <1>4, <1>5


-----------------------------------------------------------------------------
LEMMA WholeMod ==
    ASSUME NEW w \in Nat \ {0}, NEW x \in 0 .. w - 1
    PROVE  x % w = x
OBVIOUS

\* An injection of a finite set into itself reaches every element.
LEMMA InjectionIsOnto ==
    ASSUME NEW S, IsFiniteSet(S), NEW p \in [S -> S], \A i, j \in S : p[i] = p[j] => i = j,
           NEW b \in S
    PROVE  \E i \in S : p[i] = b
<1> SUFFICES ASSUME \A i \in S : p[i] # b PROVE FALSE
  OBVIOUS
<1>1. IsFiniteSet(S \ {b}) /\ Cardinality(S \ {b}) = Cardinality(S) - 1 /\ Cardinality(S) \in Nat
  BY FS_RemoveElement, FS_CardinalityType
<1>2. Cardinality(S \ {b}) < Cardinality(S)
  BY <1>1
<1>3. p \in [S -> S \ {b}]
  OBVIOUS
<1>4. \E x, y \in S : x # y /\ p[x] = p[y]
  BY <1>1, <1>2, <1>3, FS_PigeonHole
<1> QED BY <1>4

\* Where no number is less than its neighbour on the left, none is less than any on the left.
LEMMA Ascends ==
    ASSUME NEW n \in Nat, NEW s \in [1 .. n -> Int], \A i \in 2 .. n : s[i - 1] <= s[i],
           NEW i \in 1 .. n, NEW j \in i .. n
    PROVE  s[i] <= s[j]
<1> DEFINE R == {d \in 0 .. n - i : s[i] <= s[i + d]}
<1>1. n - i \in Nat /\ j - i \in 0 .. n - i /\ i + (j - i) = j
  OBVIOUS
<1>2. 0 \in R
  <2>1. i + 0 = i /\ s[i] \in Int /\ 0 \in 0 .. n - i
    OBVIOUS
  <2> QED BY <2>1
<1>3. ASSUME NEW d \in 0 .. n - i - 1, d \in R PROVE d + 1 \in R
  <2>1. i + d \in 1 .. n /\ i + (d + 1) \in 2 .. n /\ (i + (d + 1)) - 1 = i + d /\ d + 1 \in 0 .. n - i
    OBVIOUS
  <2>2. s[i + d] <= s[i + (d + 1)]
    BY <2>1
  <2>3. s[i] \in Int /\ s[i + d] \in Int /\ s[i + (d + 1)] \in Int
    BY <2>1
  <2> QED BY <1>3, <2>1, <2>2, <2>3
<1> HIDE DEF R
<1>4. \A d \in 0 .. n - i : d \in R
  BY <1>1, <1>2, <1>3, UpTo
<1>5. j - i \in R
  BY <1>1, <1>4
<1> QED BY <1>1, <1>5 DEF R

\* src/217.c: a duplicate is never made up, and never missed where no difference overflows.
LEMMA DuplicateCorrect ==
    ASSUME NEW nums \in Seq(Int)
    PROVE  Arrays!DuplicateIsRight(nums)
<1> DEFINE n == Len(nums)
           has == ~Arrays!IsInjective(nums)
           NoOverflow == \A a, b \in Arrays!ToSet(nums) : a - b \in -IntMax - 1 .. IntMax
<1>1. n \in Nat /\ DOMAIN nums = 1 .. n /\ \A i \in 1 .. n : nums[i] \in Int
  OBVIOUS
<1> SUFFICES ASSUME NEW answer \in Arrays!containsDuplicate(nums)
             PROVE  (answer => has) /\ (NoOverflow => (answer <=> has))
  BY DEF Arrays!DuplicateIsRight
<1>2. CASE n <= 1
  <2>1. answer = FALSE
    BY <1>2 DEF Arrays!containsDuplicate
  <2>2. ~has
    BY <1>1, <1>2 DEF Arrays!IsInjective
  <2> QED BY <2>1, <2>2
<1>3. CASE ~(n <= 1)
  <2>1. PICK s \in Arrays!Sorted(nums) : answer = (\E i \in 2 .. Len(s) : s[i] = s[i - 1])
    BY <1>3 DEF Arrays!containsDuplicate
  <2>2. PICK p \in [DOMAIN nums -> DOMAIN nums] :
               /\ Arrays!IsInjective(p)
               /\ s = [i \in DOMAIN nums |-> nums[p[i]]]
               /\ Arrays!Orders(nums) => \A i \in 2 .. Len(s) : Arrays!cmp(s[i - 1], s[i]) <= 0
    BY <2>1 DEF Arrays!Sorted
  <2>3. p \in [1 .. n -> 1 .. n] /\ \A i, j \in 1 .. n : p[i] = p[j] => i = j
    BY <1>1, <2>2 DEF Arrays!IsInjective
  <2>4. s \in [1 .. n -> Int] /\ (\A i \in 1 .. n : s[i] = nums[p[i]]) /\ Len(s) = n
    <3>1. s = [i \in 1 .. n |-> nums[p[i]]]
      BY <1>1, <2>2
    <3>2. s \in [1 .. n -> Int]
      BY <1>1, <2>3, <3>1
    <3>3. Len(s) = n
      BY <1>1, <3>1, LenDomain
    <3> QED BY <3>1, <3>2, <3>3
  <2>5. ASSUME answer PROVE has
    <3>1. PICK i \in 2 .. n : s[i] = s[i - 1]
      BY <2>1, <2>4, <2>5
    <3>2. i \in 1 .. n /\ i - 1 \in 1 .. n /\ i # i - 1
      BY <1>1
    <3>3. p[i] # p[i - 1] /\ nums[p[i]] = nums[p[i - 1]] /\ p[i] \in 1 .. n /\ p[i - 1] \in 1 .. n
      BY <2>3, <2>4, <3>1, <3>2
    <3> QED BY <1>1, <3>3 DEF Arrays!IsInjective
  <2>6. ASSUME NoOverflow, has PROVE answer
    <3>1. \A i, j \in 1 .. n : Arrays!cmp(nums[i], nums[j]) = nums[i] - nums[j]
      <4> SUFFICES ASSUME NEW i \in 1 .. n, NEW j \in 1 .. n
                   PROVE  Arrays!cmp(nums[i], nums[j]) = nums[i] - nums[j]
        OBVIOUS
      <4> DEFINE d == nums[i] - nums[j]
                 w == 2 * IntMax + 2
      <4>1. nums[i] \in Arrays!ToSet(nums) /\ nums[j] \in Arrays!ToSet(nums)
        BY <1>1 DEF Arrays!ToSet
      <4>2. d \in -IntMax - 1 .. IntMax
        BY <2>6, <4>1
      <4>3. w \in Nat \ {0} /\ d + IntMax + 1 \in 0 .. w - 1
        BY <4>2, InputAssumption
      <4>4. (d + IntMax + 1) % w = d + IntMax + 1
        <5> HIDE DEF w, d
        <5> QED BY <4>3, WholeMod
      <4>5. Arrays!cmp(nums[i], nums[j]) = ((d + IntMax + 1) % w) - IntMax - 1
        BY DEF Arrays!cmp
      <4> HIDE DEF w
      <4> QED BY <4>2, <4>4, <4>5, InputAssumption
    <3>2. Arrays!Orders(nums)
      BY <1>1, <3>1 DEF Arrays!Orders
    <3>3. ASSUME NEW i \in 2 .. n PROVE s[i - 1] <= s[i]
      <4>1. i \in 1 .. n /\ i - 1 \in 1 .. n
        BY <1>1
      <4>2. Arrays!cmp(s[i - 1], s[i]) <= 0
        BY <2>2, <2>4, <3>2
      <4>3. p[i] \in 1 .. n /\ p[i - 1] \in 1 .. n
        BY <2>3, <4>1
      <4>4. Arrays!cmp(s[i - 1], s[i]) = s[i - 1] - s[i]
        BY <2>4, <3>1, <4>1, <4>3
      <4>5. s[i - 1] \in Int /\ s[i] \in Int
        BY <2>4, <4>1
      <4> QED BY <4>2, <4>4, <4>5
    <3>4. PICK a \in 1 .. n, b \in 1 .. n : nums[a] = nums[b] /\ a # b
      BY <1>1, <2>6 DEF Arrays!IsInjective
    <3>5. ASSUME NEW c \in 1 .. n PROVE \E k \in 1 .. n : p[k] = c
      <4> DEFINE S == 1 .. n
      <4>0. IsFiniteSet(S)
        BY <1>1, FS_Interval
      <4>1. p \in [S -> S] /\ (\A i, j \in S : p[i] = p[j] => i = j) /\ c \in S
        BY <2>3, <3>5
      <4> HIDE DEF S
      <4>2. \E k \in S : p[k] = c
        BY <4>0, <4>1, InjectionIsOnto
      <4> QED BY <4>2 DEF S
    <3>6. PICK k \in 1 .. n : p[k] = a
      BY <3>5
    <3>7. PICK m \in 1 .. n : p[m] = b
      BY <3>5
    <3>8. s[k] = s[m] /\ k # m
      BY <2>4, <3>4, <3>6, <3>7
    <3>9. ASSUME NEW u \in 1 .. n, NEW v \in 1 .. n, u < v, s[u] = s[v] PROVE answer
      <4>1. u + 1 \in 2 .. n /\ u + 1 \in 1 .. n /\ v \in u + 1 .. n /\ (u + 1) - 1 = u
        BY <3>9
      <4>2. s[u] <= s[u + 1]
        BY <3>3, <4>1
      <4>3. s[u + 1] <= s[v]
        BY <1>1, <2>4, <3>3, <4>1, Ascends
      <4>4. s[u] \in Int /\ s[u + 1] \in Int /\ s[v] \in Int
        BY <2>4, <4>1
      <4>5. s[u + 1] = s[(u + 1) - 1]
        BY <3>9, <4>1, <4>2, <4>3, <4>4
      <4> QED BY <2>1, <2>4, <4>1, <4>5
    <3> QED BY <3>8, <3>9
  <2> QED BY <2>5, <2>6
<1> QED BY <1>1, <1>2, <1>3


-----------------------------------------------------------------------------
\* The turn of isValid with bracket c, and the stacks it has for the text t.
Stepped(b, c) ==
    IF b = Arrays!Invalid THEN Arrays!Invalid
    ELSE IF c > 0 THEN Append(b, c)
    ELSE IF b = <<>> \/ Arrays!Last(b) # -c THEN Arrays!Invalid
    ELSE Arrays!Front(b)

Stacks == {b \in Seq(Int) : b = Arrays!Invalid \/ \A i \in 1 .. Len(b) : b[i] > 0}

HasStacks(t, h) ==
    /\ h \in [0 .. Len(t) -> Stacks]
    /\ h[0] = <<>>
    /\ \A k \in 1 .. Len(t) : h[k] = Stepped(h[k - 1], t[k])

\* What is left of a text without its last character.
LEMMA FrontIs ==
    ASSUME NEW b \in Seq(Int), b # <<>>
    PROVE  /\ Arrays!Front(b) \in Seq(Int) /\ Len(Arrays!Front(b)) = Len(b) - 1
           /\ \A i \in 1 .. Len(b) - 1 : Arrays!Front(b)[i] = b[i]
<1>1. Len(b) - 1 \in Nat /\ Len(b) \in Nat
  OBVIOUS
<1>2. Arrays!Front(b) = SubSeq(b, 1, Len(b) - 1)
  BY DEF Arrays!Front
<1>3. \A i \in 1 .. Len(b) - 1 : b[i] \in Int
  BY <1>1
<1>4. /\ SubSeq(b, 1, Len(b) - 1) \in Seq(Int)
      /\ Len(SubSeq(b, 1, Len(b) - 1)) = IF 1 <= Len(b) - 1 THEN (Len(b) - 1) - 1 + 1 ELSE 0
      /\ \A i \in 1 .. (Len(b) - 1) - 1 + 1 : SubSeq(b, 1, Len(b) - 1)[i] = b[1 + i - 1]
  <2> DEFINE m == Len(b) - 1
  <2>1. m \in Int /\ \A i \in 1 .. m : b[i] \in Int
    BY <1>1, <1>3
  <2> HIDE DEF m
  <2>2. /\ SubSeq(b, 1, m) \in Seq(Int)
        /\ Len(SubSeq(b, 1, m)) = IF 1 <= m THEN m - 1 + 1 ELSE 0
        /\ \A i \in 1 .. m - 1 + 1 : SubSeq(b, 1, m)[i] = b[1 + i - 1]
    BY <2>1, SubSeqProperties
  <2> QED BY <2>2 DEF m
<1>5. (Len(b) - 1) - 1 + 1 = Len(b) - 1 /\ \A i \in 1 .. Len(b) - 1 : 1 + i - 1 = i
  BY <1>1
<1> QED BY <1>1, <1>2, <1>4, <1>5

LEMMA SteppedType == ASSUME NEW b \in Stacks, NEW c \in Int PROVE Stepped(b, c) \in Stacks
<1>1. b \in Seq(Int) /\ Len(b) \in Nat /\ Arrays!Invalid \in Stacks
  BY DEF Stacks, Arrays!Invalid
<1>2. CASE b # Arrays!Invalid /\ c > 0
  <2>1. Append(b, c) \in Seq(Int) /\ Len(Append(b, c)) = Len(b) + 1
    BY <1>1
  <2>2. ASSUME NEW i \in 1 .. Len(b) + 1 PROVE Append(b, c)[i] > 0
    <3>1. CASE i = Len(b) + 1
      BY <1>1, <1>2, <3>1
    <3>2. CASE i # Len(b) + 1
      <4>1. i \in 1 .. Len(b)
        BY <1>1, <3>2
      <4>2. Append(b, c)[i] = b[i]
        BY <1>1, <4>1
      <4> QED BY <1>2, <4>1, <4>2 DEF Stacks
    <3> QED BY <3>1, <3>2
  <2>3. Append(b, c) \in Stacks
    BY <2>1, <2>2 DEF Stacks
  <2> QED BY <1>2, <2>3 DEF Stepped
<1>3. CASE b # Arrays!Invalid /\ ~(c > 0) /\ b # <<>> /\ Arrays!Last(b) = -c
  <2>1. Len(b) - 1 \in Nat
    BY <1>1, <1>3
  <2>3. Arrays!Front(b) \in Seq(Int) /\ Len(Arrays!Front(b)) = Len(b) - 1
        /\ \A i \in 1 .. Len(b) - 1 : Arrays!Front(b)[i] = b[i]
    BY <1>1, <1>3, FrontIs
  <2>4. \A i \in 1 .. Len(b) - 1 : i \in 1 .. Len(b)
    BY <1>1
  <2>5. Arrays!Front(b) \in Stacks
    BY <1>3, <2>3, <2>4 DEF Stacks
  <2> QED BY <1>3, <2>5 DEF Stepped
<1> QED BY <1>1, <1>2, <1>3 DEF Stepped

LEMMA StacksExist == ASSUME NEW t \in Seq(Int) PROVE \E h : HasStacks(t, h)
<1> DEFINE n == Len(t)
           step == [k \in 0 .. n - 1 |-> [b \in Stacks |-> Stepped(b, t[k + 1])]]
<1>1. n \in Nat /\ \A k \in 1 .. n : t[k] \in Int
  OBVIOUS
<1>2. <<>> \in Stacks
  BY DEF Stacks
<1>3. step \in [0 .. n - 1 -> [Stacks -> Stacks]]
  <2>1. ASSUME NEW k \in 0 .. n - 1, NEW b \in Stacks PROVE Stepped(b, t[k + 1]) \in Stacks
    <3>1. k + 1 \in 1 .. n
      BY <1>1
    <3> QED BY <1>1, <3>1, SteppedType
  <2> QED BY <2>1
<1>4. PICK h : IsTurns(h, n, Stacks, step, <<>>)
  <2> HIDE DEF n, step
  <2> QED BY <1>1, <1>2, <1>3, TurnsExist
<1>5. h \in [0 .. n -> Stacks] /\ h[0] = <<>> /\ \A k \in 1 .. n : h[k] = step[k - 1][h[k - 1]]
  BY <1>4 DEF IsTurns
<1>6. ASSUME NEW k \in 1 .. n PROVE h[k] = Stepped(h[k - 1], t[k])
  <2>1. k - 1 \in 0 .. n - 1 /\ k - 1 \in 0 .. n /\ (k - 1) + 1 = k
    BY <1>1
  <2>2. h[k - 1] \in Stacks
    BY <1>5, <2>1
  <2>3. step[k - 1][h[k - 1]] = Stepped(h[k - 1], t[(k - 1) + 1])
    BY <2>1, <2>2
  <2> QED BY <1>5, <2>1, <2>3
<1> QED BY <1>5, <1>6 DEF HasStacks

LEMMA StacksAreOne ==
    ASSUME NEW t \in Seq(Int), NEW h, NEW g, DOMAIN g = 0 .. Len(t), HasStacks(t, h), g[0] = <<>>,
           \A k \in 1 .. Len(t) : g[k] = Stepped(g[k - 1], t[k])
    PROVE  \A k \in 0 .. Len(t) : g[k] = h[k]
<1> DEFINE S == {k \in 0 .. Len(t) : g[k] = h[k]}
<1>1. Len(t) \in Nat
  OBVIOUS
<1>2. 0 \in S
  BY <1>1 DEF HasStacks
<1>3. ASSUME NEW k \in 0 .. Len(t) - 1, k \in S PROVE k + 1 \in S
  <2>1. k + 1 \in 1 .. Len(t) /\ (k + 1) - 1 = k /\ k + 1 \in 0 .. Len(t)
    BY <1>1
  <2>2. g[k + 1] = Stepped(g[k], t[k + 1]) /\ h[k + 1] = Stepped(h[k], t[k + 1])
    BY <2>1 DEF HasStacks
  <2> QED BY <1>3, <2>1, <2>2
<1>4. \A k \in 0 .. Len(t) : k \in S
  <2> HIDE DEF S
  <2> QED BY <1>1, <1>2, <1>3, UpTo
<1> QED BY <1>4

Ends(t) == \E h : HasStacks(t, h) /\ h[Len(t)] = <<>>

LEMMA ValidIs == ASSUME NEW t \in Seq(Int) PROVE Arrays!isValid(t) <=> Ends(t)
<1> DEFINE n == Len(t)
           Fits(f) == f = [i \in 0 .. Len(t) |->
                             IF i = 0 THEN <<>>
                             ELSE LET before == f[i - 1]
                                  IN  IF before = Arrays!Invalid THEN Arrays!Invalid
                                      ELSE IF t[i] > 0 THEN Append(before, t[i])
                                      ELSE IF before = <<>> \/ Arrays!Last(before) # -t[i] THEN Arrays!Invalid
                                      ELSE Arrays!Front(before)]
           stack == CHOOSE f : Fits(f)
<1>1. n \in Nat
  OBVIOUS
<1>2. Arrays!isValid(t) <=> stack[n] = <<>>
  BY DEF Arrays!isValid
<1>3. PICK h : HasStacks(t, h)
  BY StacksExist
<1>4. ASSUME NEW f, DOMAIN f = 0 .. n
      PROVE  Fits(f) <=> f = [i \in 0 .. n |-> IF i = 0 THEN <<>> ELSE Stepped(f[i - 1], t[i])]
  BY DEF Stepped
<1>5. Fits(h)
  <2>1. h = [i \in 0 .. n |-> IF i = 0 THEN <<>> ELSE Stepped(h[i - 1], t[i])]
    <3>1. DOMAIN h = 0 .. n /\ h = [i \in 0 .. n |-> h[i]]
      BY <1>3 DEF HasStacks
    <3>2. ASSUME NEW i \in 0 .. n PROVE h[i] = IF i = 0 THEN <<>> ELSE Stepped(h[i - 1], t[i])
      <4>1. i = 0 \/ i \in 1 .. n
        BY <1>1
      <4> QED BY <1>3, <4>1 DEF HasStacks
    <3> QED BY <3>1, <3>2
  <2> QED BY <1>3, <1>4, <2>1 DEF HasStacks
<1>6. Fits(stack)
  <2> HIDE DEF Fits
  <2> QED BY <1>5
<1>7. DOMAIN stack = 0 .. n
  <2> HIDE DEF stack
  <2> QED BY <1>6
<1> HIDE DEF stack
<1>8. stack = [i \in 0 .. n |-> IF i = 0 THEN <<>> ELSE Stepped(stack[i - 1], t[i])]
  <2> HIDE DEF Fits
  <2> QED BY <1>4, <1>6, <1>7
<1>9. stack[0] = <<>> /\ \A k \in 1 .. n : stack[k] = Stepped(stack[k - 1], t[k])
  <2>1. 0 \in 0 .. n /\ \A k \in 1 .. n : k \in 0 .. n /\ k # 0
    BY <1>1
  <2> QED BY <1>8, <2>1
<1>10. ASSUME NEW g, HasStacks(t, g) PROVE stack[n] = g[n]
  <2>1. n \in 0 .. n
    BY <1>1
  <2> QED BY <1>7, <1>9, <1>10, <2>1, StacksAreOne
<1> QED BY <1>2, <1>3, <1>10 DEF Ends


\* A bracket that opens and the one that closes it leave the stack as it was.
LEMMA SteppedBack ==
    ASSUME NEW b \in Stacks, NEW c \in Int, c > 0
    PROVE  Stepped(Stepped(b, c), -c) = b
<1>1. b \in Seq(Int) /\ Len(b) \in Nat /\ ~(-c > 0) /\ -(-c) = c
  BY DEF Stacks
<1>2. CASE b = Arrays!Invalid
  BY <1>1, <1>2 DEF Stepped
<1>3. CASE b # Arrays!Invalid
  <2> DEFINE d == Append(b, c)
  <2>1. d \in Seq(Int) /\ Len(d) = Len(b) + 1 /\ d[Len(b) + 1] = c /\ (\A i \in 1 .. Len(b) : d[i] = b[i])
    BY <1>1
  <2>2. d # <<>> /\ d # Arrays!Invalid
    <3>1. d = Arrays!Invalid => d[1] = 0 /\ Len(d) = 1
      BY DEF Arrays!Invalid
    <3>2. d = Arrays!Invalid => Len(b) = 0
      BY <1>1, <2>1, <3>1
    <3>3. Len(<<>>) = 0
      OBVIOUS
    <3> QED BY <1>1, <2>1, <3>1, <3>2, <3>3
  <2>3. Arrays!Last(d) = c
    BY <2>1 DEF Arrays!Last
  <2>4. Arrays!Front(d) = b
    <3> HIDE DEF d
    <3>1. Arrays!Front(d) \in Seq(Int) /\ Len(Arrays!Front(d)) = Len(d) - 1
          /\ \A i \in 1 .. Len(d) - 1 : Arrays!Front(d)[i] = d[i]
      BY <2>1, <2>2, FrontIs
    <3>2. Len(d) - 1 = Len(b)
      BY <1>1, <2>1
    <3>3. Arrays!Front(d) \in [1 .. Len(b) -> Int] /\ b \in [1 .. Len(b) -> Int]
      BY <1>1, <3>1, <3>2, LenProperties
    <3>4. \A i \in 1 .. Len(b) : Arrays!Front(d)[i] = b[i]
      BY <2>1, <3>1, <3>2
    <3> QED BY <3>3, <3>4
  <2>5. Stepped(b, c) = d
    BY <1>3 DEF Stepped
  <2> HIDE DEF d
  <2> QED BY <1>1, <2>2, <2>3, <2>4, <2>5 DEF Stepped
<1> QED BY <1>2, <1>3

\* So whether the loop ends with an empty stack does not change with a pair less.
LEMMA WithoutPairType ==
    ASSUME NEW t \in Seq(Int), NEW i \in Arrays!Pairs(t)
    PROVE  /\ Arrays!WithoutPair(t, i) \in Seq(Int)
           /\ Len(Arrays!WithoutPair(t, i)) = Len(t) - 2
           /\ Len(t) - 2 \in Nat
           /\ \A n \in 1 .. Len(t) - 2 :
                  Arrays!WithoutPair(t, i)[n] = IF n < i - 1 THEN t[n] ELSE t[n + 2]
<1>1. Len(t) \in Nat /\ (\A n \in 1 .. Len(t) : t[n] \in Int) /\ i \in 2 .. Len(t)
  BY DEF Arrays!Pairs
<1>2. Len(t) - 2 \in Nat
  BY <1>1
<1>3. Arrays!WithoutPair(t, i) = [n \in 1 .. Len(t) - 2 |-> IF n < i - 1 THEN t[n] ELSE t[n + 2]]
  BY DEF Arrays!WithoutPair
<1>4. Arrays!WithoutPair(t, i) \in [1 .. Len(t) - 2 -> Int]
  <2>1. ASSUME NEW n \in 1 .. Len(t) - 2 PROVE (IF n < i - 1 THEN t[n] ELSE t[n + 2]) \in Int
    <3>1. n \in 1 .. Len(t) /\ n + 2 \in 1 .. Len(t)
      BY <1>1
    <3> QED BY <1>1, <3>1
  <2> QED BY <1>3, <2>1
<1>5. Arrays!WithoutPair(t, i) \in Seq(Int) /\ Len(Arrays!WithoutPair(t, i)) = Len(t) - 2
  <2> DEFINE u == Arrays!WithoutPair(t, i)
             m == Len(t) - 2
  <2>1. u \in [1 .. m -> Int] /\ m \in Nat
    BY <1>2, <1>4
  <2> HIDE DEF u, m
  <2>2. u \in Seq(Int) /\ Len(u) = m
    BY <2>1, FunctionIsSeq
  <2> QED BY <2>2 DEF u, m
<1> QED BY <1>2, <1>3, <1>5

LEMMA EndsWithoutPair ==
    ASSUME NEW t \in Seq(Int), NEW i \in Arrays!Pairs(t)
    PROVE  Ends(Arrays!WithoutPair(t, i)) <=> Ends(t)
<1> DEFINE u == Arrays!WithoutPair(t, i)
           n == Len(t)
<1>1. n \in Nat /\ n - 2 \in Nat /\ i \in 2 .. n /\ t[i - 1] > 0 /\ t[i] = -t[i - 1] /\ t[i - 1] \in Int
  BY WithoutPairType DEF Arrays!Pairs
<1>2. u \in Seq(Int) /\ Len(u) = n - 2 /\ \A k \in 1 .. n - 2 : u[k] = IF k < i - 1 THEN t[k] ELSE t[k + 2]
  BY WithoutPairType
<1> HIDE DEF u
<1>3. PICK h : HasStacks(t, h)
  BY StacksExist
<1>4. h \in [0 .. n -> Stacks] /\ h[0] = <<>> /\ \A k \in 1 .. n : h[k] = Stepped(h[k - 1], t[k])
  BY <1>3 DEF HasStacks
<1> HIDE DEF n
<1>5. h[i] = h[i - 2]
  <2>1. i \in 1 .. n /\ i - 1 \in 1 .. n /\ (i - 1) - 1 = i - 2 /\ i - 2 \in 0 .. n
    BY <1>1
  <2>2. h[i] = Stepped(h[i - 1], t[i]) /\ h[i - 1] = Stepped(h[i - 2], t[i - 1]) /\ h[i - 2] \in Stacks
    BY <1>4, <2>1
  <2> QED BY <1>1, <2>2, SteppedBack
<1> DEFINE f == [k \in 0 .. n - 2 |-> IF k < i - 1 THEN h[k] ELSE h[k + 2]]
<1>6. f \in [0 .. n - 2 -> Stacks] /\ f[0] = <<>>
  <2>1. ASSUME NEW k \in 0 .. n - 2 PROVE k \in 0 .. n /\ k + 2 \in 0 .. n
    BY <1>1
  <2>2. 0 \in 0 .. n - 2 /\ 0 < i - 1
    BY <1>1
  <2> QED BY <1>4, <2>1, <2>2
<1>7. ASSUME NEW k \in 1 .. n - 2 PROVE f[k] = Stepped(f[k - 1], u[k])
  <2>1. k - 1 \in 0 .. n - 2 /\ k \in 0 .. n - 2 /\ k \in 1 .. n /\ k + 2 \in 1 .. n
        /\ (k + 2) - 1 = k + 1 /\ (k - 1) + 2 = k + 1
    BY <1>1
  <2>2. CASE k < i - 1
    <3>1. k - 1 < i - 1
      BY <2>1, <2>2, <1>1
    <3>2. f[k] = h[k] /\ f[k - 1] = h[k - 1] /\ u[k] = t[k]
      BY <1>2, <2>1, <2>2, <3>1
    <3> QED BY <1>4, <2>1, <3>2
  <2>3. CASE k = i - 1
    <3>1. k - 1 < i - 1 /\ ~(k < i - 1) /\ k - 1 = i - 2 /\ k + 1 = i
      BY <1>1, <2>1, <2>3
    <3>2. f[k] = h[k + 2] /\ f[k - 1] = h[i - 2] /\ u[k] = t[k + 2]
      BY <1>2, <2>1, <3>1
    <3>3. h[k + 2] = Stepped(h[k + 1], t[k + 2])
      BY <1>4, <2>1
    <3> QED BY <1>5, <3>1, <3>2, <3>3
  <2>4. CASE k > i - 1
    <3>1. ~(k - 1 < i - 1) /\ ~(k < i - 1)
      BY <1>1, <2>1, <2>4
    <3>2. f[k] = h[k + 2] /\ f[k - 1] = h[k + 1] /\ u[k] = t[k + 2]
      BY <1>2, <2>1, <3>1
    <3> QED BY <1>4, <2>1, <3>2
  <2>5. k < i - 1 \/ k = i - 1 \/ k > i - 1
    BY <1>1, <2>1
  <2> QED BY <2>2, <2>3, <2>4, <2>5
<1>8. f[n - 2] = h[n]
  <2>1. n - 2 \in 0 .. n - 2 /\ (n - 2) + 2 = n
    BY <1>1
  <2>2. CASE n - 2 < i - 1
    <3>1. n = i
      BY <1>1, <2>2
    <3> QED BY <1>5, <2>1, <2>2, <3>1
  <2>3. CASE ~(n - 2 < i - 1)
    BY <2>1, <2>3
  <2> QED BY <2>2, <2>3
<1> HIDE DEF f
<1>9. HasStacks(u, f)
  BY <1>2, <1>6, <1>7 DEF HasStacks
<1>10. n \in 0 .. n /\ n - 2 \in 0 .. n - 2 /\ DOMAIN h = 0 .. n /\ DOMAIN f = 0 .. n - 2
  BY <1>1, <1>4, <1>6
<1>11. ASSUME NEW g, HasStacks(t, g) PROVE g[n] = h[n]
  <2>1. DOMAIN g = 0 .. n /\ g[0] = <<>> /\ \A k \in 1 .. n : g[k] = Stepped(g[k - 1], t[k])
    BY <1>11 DEF HasStacks, n
  <2> QED BY <1>3, <1>10, <2>1, StacksAreOne DEF n
<1>12. ASSUME NEW g, HasStacks(u, g) PROVE g[n - 2] = f[n - 2]
  <2>1. DOMAIN g = 0 .. Len(u) /\ g[0] = <<>> /\ \A k \in 1 .. Len(u) : g[k] = Stepped(g[k - 1], u[k])
    BY <1>12 DEF HasStacks
  <2>2. n - 2 \in 0 .. Len(u)
    BY <1>2, <1>10
  <2> QED BY SMTT(60), <1>2, <1>9, <2>1, <2>2, StacksAreOne
<1>13. Ends(t) <=> h[n] = <<>>
  BY <1>3, <1>11 DEF Ends, n
<1>14. Ends(u) <=> f[n - 2] = <<>>
  BY <1>2, <1>9, <1>12 DEF Ends
<1>15. Ends(u) <=> Ends(t)
  BY <1>8, <1>13, <1>14
<1> QED BY <1>15 DEF u


\* A text that is not empty and leaves an empty stack has a pair: its first bracket that
\* closes and the one before.
LEMMA PairExists ==
    ASSUME NEW t \in Seq(Int), t # <<>>, Ends(t)
    PROVE  Arrays!Pairs(t) # {}
<1> DEFINE n == Len(t)
<1>1. n \in Nat /\ n > 0 /\ \A k \in 1 .. n : t[k] \in Int
  <2>1. n \in Nat /\ n # 0 /\ \A k \in 1 .. n : t[k] \in Int
    OBVIOUS
  <2> QED BY <2>1
<1>2. PICK h : HasStacks(t, h) /\ h[n] = <<>>
  BY DEF Ends
<1>3. h \in [0 .. n -> Stacks] /\ h[0] = <<>> /\ \A k \in 1 .. n : h[k] = Stepped(h[k - 1], t[k])
  BY <1>2 DEF HasStacks
<1> DEFINE Opens(k) == \A j \in 1 .. k : t[j] > 0
           Piled(k) == h[k] # Arrays!Invalid /\ Len(h[k]) = k /\ (k > 0 => h[k][k] = t[k])
           S == {k \in 0 .. n : Opens(k) => Piled(k)}
<1> HIDE DEF n
<1>4. \A k \in 0 .. n : k \in S
  <2>1. 0 \in S
    <3>1. Len(<<>>) = 0 /\ <<>> # Arrays!Invalid /\ 0 \in 0 .. n
      BY <1>1 DEF Arrays!Invalid
    <3> QED BY <1>3, <3>1
  <2>2. ASSUME NEW k \in 0 .. n - 1, k \in S PROVE k + 1 \in S
    <3>1. k \in Nat /\ k + 1 \in 1 .. n /\ k + 1 \in 0 .. n /\ (k + 1) - 1 = k /\ k \in 0 .. n /\ k + 1 > 0
      BY <1>1
    <3> SUFFICES ASSUME Opens(k + 1) PROVE Piled(k + 1)
      BY <3>1
    <3>2. Opens(k)
      <4>1. \A j \in 1 .. k : j \in 1 .. k + 1
        BY <3>1
      <4> QED BY <4>1
    <3>3. Piled(k)
      BY <2>2, <3>2
    <3>4. t[k + 1] > 0 /\ t[k + 1] \in Int
      <4>1. k + 1 \in 1 .. k + 1
        BY <3>1
      <4> QED BY <1>1, <3>1, <4>1
    <3>5. h[k + 1] = Append(h[k], t[k + 1])
      BY <1>3, <3>1, <3>3, <3>4 DEF Stepped
    <3>6. h[k] \in Seq(Int) /\ Len(h[k]) = k
      BY <1>3, <3>1, <3>3 DEF Stacks
    <3>7. Len(h[k + 1]) = k + 1 /\ h[k + 1][k + 1] = t[k + 1]
      BY <3>4, <3>5, <3>6
    <3>8. h[k + 1] # Arrays!Invalid
      <4> SUFFICES ASSUME h[k + 1] = Arrays!Invalid PROVE FALSE
        OBVIOUS
      <4>1. Len(<<0>>) = 1 /\ <<0>>[1] = 0
        OBVIOUS
      <4>2. Len(h[k + 1]) = 1 /\ h[k + 1][1] = 0
        BY <4>1 DEF Arrays!Invalid
      <4>3. k + 1 = 1
        BY <3>7, <4>2
      <4> QED BY <3>4, <3>7, <4>2, <4>3
    <3> QED BY <3>7, <3>8
  <2> HIDE DEF S
  <2> QED BY <1>1, <2>1, <2>2, UpTo
<1>5. ASSUME NEW k \in 0 .. n PROVE h[k] # Arrays!Invalid
  <2> SUFFICES ASSUME h[k] = Arrays!Invalid PROVE FALSE
    OBVIOUS
  <2> DEFINE T == {d \in 0 .. n - k : h[k + d] = Arrays!Invalid}
             m == n - k
  <2>1. m \in Nat /\ k + m = n /\ m \in 0 .. m
    BY <1>1
  <2>2. 0 \in T
    <3>1. k + 0 = k /\ 0 \in 0 .. n - k
      BY <1>1
    <3> QED BY <3>1
  <2>3. ASSUME NEW d \in 0 .. m - 1, d \in T PROVE d + 1 \in T
    <3>1. k + (d + 1) \in 1 .. n /\ (k + (d + 1)) - 1 = k + d /\ d + 1 \in 0 .. n - k
      BY <1>1
    <3>2. h[k + (d + 1)] = Arrays!Invalid
      BY <1>3, <2>3, <3>1 DEF Stepped
    <3> QED BY <3>1, <3>2
  <2> HIDE DEF T, m
  <2>4. m \in T
    <3>1. \A d \in 0 .. m : d \in T
      BY <2>1, <2>2, <2>3, UpTo
    <3> QED BY <2>1, <3>1
  <2>5. h[n] = Arrays!Invalid
    BY <2>1, <2>4 DEF T
  <2>6. <<>> # Arrays!Invalid
    BY DEF Arrays!Invalid
  <2> QED BY <1>2, <2>5, <2>6
<1> DEFINE Closing == {k \in 1 .. n : ~(t[k] > 0)}
<1>6. Closing # {}
  <2> SUFFICES ASSUME Closing = {} PROVE FALSE
    OBVIOUS
  <2>1. Opens(n) /\ n \in 0 .. n
    BY <1>1
  <2>2. Piled(n)
    <3>1. n \in S
      BY <1>4, <2>1
    <3> QED BY <2>1, <3>1
  <2>3. Len(<<>>) = 0
    OBVIOUS
  <2>4. Len(h[n]) = n
    BY <2>2
  <2>5. n = 0
    BY <1>2, <2>3, <2>4
  <2> QED BY <1>1, <2>5
<1>7. PICK i \in Closing : \A k \in Closing : i <= k
  <2>1. Closing \in SUBSET Nat
    BY <1>1
  <2> HIDE DEF Closing
  <2> QED BY <1>6, <2>1, MinIs
<1>8. i \in 1 .. n /\ i - 1 \in 0 .. n /\ ~(t[i] > 0) /\ t[i] \in Int
  BY <1>1
<1>9. Opens(i - 1)
  <2> SUFFICES ASSUME NEW j \in 1 .. i - 1, ~(t[j] > 0) PROVE FALSE
    OBVIOUS
  <2>1. j \in 1 .. n /\ ~(i <= j)
    BY <1>1, <1>8
  <2> QED BY <1>7, <2>1
<1>10. Piled(i - 1)
  <2>1. i - 1 \in S
    BY <1>4, <1>8
  <2> QED BY <1>9, <2>1
<1>11. h[i] # Arrays!Invalid /\ h[i] = Stepped(h[i - 1], t[i])
  BY <1>3, <1>5, <1>8
<1>12. h[i - 1] # <<>> /\ Arrays!Last(h[i - 1]) = -t[i]
  BY <1>8, <1>10, <1>11 DEF Stepped
<1>13. i - 1 > 0
  <2>1. i - 1 = 0 => h[i - 1] = <<>>
    <3>1. h[i - 1] \in Seq(Int) /\ Len(h[i - 1]) = i - 1
      BY <1>3, <1>8, <1>10 DEF Stacks
    <3> QED BY <3>1, EmptySeq
  <2> QED BY <1>8, <1>12, <2>1
<1>14. Arrays!Last(h[i - 1]) = t[i - 1]
  BY <1>10, <1>13 DEF Arrays!Last
<1>15. i - 1 \in 1 .. i - 1 /\ i \in 2 .. n
  BY <1>1, <1>8, <1>13
<1>16. t[i - 1] > 0 /\ t[i - 1] \in Int
  BY <1>1, <1>8, <1>9, <1>15
<1>17. t[i] = -t[i - 1]
  BY <1>8, <1>12, <1>14, <1>16
<1>18. i \in Arrays!Pairs(t)
  BY <1>15, <1>16, <1>17 DEF Arrays!Pairs, n
<1> QED BY <1>18

\* What is left of the texts of a set when each has lost a pair, and what is left of s
\* after each number of losses.
Fewer(R) == UNION {{Arrays!WithoutPair(t, i) : i \in Arrays!Pairs(t)} : t \in R}
HasRests(s, r) ==
    /\ r \in [0 .. Len(s) -> SUBSET Seq(Int)]
    /\ r[0] = {s}
    /\ \A k \in 1 .. Len(s) : r[k] = Fewer(r[k - 1])

LEMMA RestsAre ==
    ASSUME NEW s \in Seq(Int)
    PROVE  \E r : HasRests(s, r) /\ (Arrays!Balanced(s) <=> \E k \in 0 .. Len(s) : <<>> \in r[k])
<1> DEFINE n == Len(s)
           X == SUBSET Seq(Int)
           step == [k \in 0 .. n - 1 |-> [R \in X |-> Fewer(R)]]
           Fits(f) == f = [k \in 0 .. Len(s) |->
                             IF k = 0 THEN {s}
                             ELSE UNION {{Arrays!WithoutPair(t, i) : i \in Arrays!Pairs(t)} : t \in f[k - 1]}]
           r == CHOOSE f : Fits(f)
<1>1. n \in Nat /\ {s} \in X
  OBVIOUS
<1>2. ASSUME NEW R \in X PROVE Fewer(R) \in X
  BY WithoutPairType DEF Fewer
<1>3. PICK h : IsTurns(h, n, X, step, {s})
  <2>1. step \in [0 .. n - 1 -> [X -> X]]
    BY <1>2
  <2> HIDE DEF n, step, X
  <2> QED BY <1>1, <2>1, TurnsExist
<1>4. h \in [0 .. n -> X] /\ h[0] = {s} /\ \A k \in 1 .. n : h[k] = Fewer(h[k - 1])
  <2>1. h \in [0 .. n -> X] /\ h[0] = {s} /\ \A k \in 1 .. n : h[k] = step[k - 1][h[k - 1]]
    BY <1>3 DEF IsTurns
  <2>2. ASSUME NEW k \in 1 .. n PROVE h[k] = Fewer(h[k - 1])
    <3>1. k - 1 \in 0 .. n - 1 /\ k - 1 \in 0 .. n
      BY <1>1
    <3>2. h[k - 1] \in X
      BY <2>1, <3>1
    <3> QED BY <2>1, <3>1, <3>2
  <2> QED BY <2>1, <2>2
<1>5. Fits(h)
  <2>1. h = [k \in 0 .. n |-> h[k]]
    BY <1>4
  <2>2. ASSUME NEW k \in 0 .. n PROVE h[k] = IF k = 0 THEN {s} ELSE Fewer(h[k - 1])
    <3>1. k = 0 \/ k \in 1 .. n
      BY <1>1
    <3> QED BY <1>4, <3>1
  <2> QED BY <2>1, <2>2 DEF Fewer
<1>6. Arrays!Balanced(s) <=> \E k \in 0 .. n : <<>> \in r[k]
  BY DEF Arrays!Balanced
<1>7. Fits(r)
  <2> HIDE DEF Fits
  <2> QED BY <1>5
<1> HIDE DEF r
<1>8. DOMAIN r = 0 .. n /\ \A k \in 0 .. n : r[k] = IF k = 0 THEN {s} ELSE Fewer(r[k - 1])
  BY <1>7 DEF Fewer
<1>9. \A k \in 0 .. n : r[k] = h[k]
  <2> DEFINE S == {k \in 0 .. n : r[k] = h[k]}
  <2>1. 0 \in S
    <3>1. 0 \in 0 .. n
      BY <1>1
    <3>2. r[0] = {s} /\ h[0] = {s}
      BY <1>4, <1>8, <3>1
    <3> QED BY <3>1, <3>2
  <2>2. ASSUME NEW k \in 0 .. n - 1, k \in S PROVE k + 1 \in S
    <3>1. k + 1 \in 0 .. n /\ k + 1 \in 1 .. n /\ k + 1 # 0 /\ (k + 1) - 1 = k
      BY <1>1
    <3> HIDE DEF n
    <3> QED BY <1>4, <1>8, <2>2, <3>1
  <2>3. \A k \in 0 .. n : k \in S
    <3> HIDE DEF S, n
    <3> QED BY <1>1, <2>1, <2>2, UpTo
  <2> QED BY <2>3
<1>10. r = h
  <2>1. DOMAIN r = 0 .. n /\ r = [k \in 0 .. n |-> r[k]]
    BY <1>7
  <2>2. h = [k \in 0 .. n |-> h[k]]
    BY <1>4
  <2> QED BY <1>9, <2>1, <2>2
<1> QED BY <1>4, <1>6, <1>10 DEF HasRests

\* src/20.c: brackets are valid exactly if pairs can be taken out of the middle until no
\* bracket is left.
LEMMA BracketsCorrect ==
    ASSUME NEW s \in Seq(Int)
    PROVE  Arrays!BracketsAreRight(s)
<1> DEFINE n == Len(s)
<1>1. n \in Nat
  OBVIOUS
<1>2. PICK r : HasRests(s, r) /\ (Arrays!Balanced(s) <=> \E k \in 0 .. n : <<>> \in r[k])
  BY RestsAre
<1>3. r \in [0 .. n -> SUBSET Seq(Int)] /\ r[0] = {s} /\ \A k \in 1 .. n : r[k] = Fewer(r[k - 1])
  BY <1>2 DEF HasRests
<1> HIDE DEF n
<1>4. \A k \in 0 .. n : \A t \in r[k] : Len(t) = n - 2 * k /\ (Ends(t) <=> Ends(s))
  <2> DEFINE S == {k \in 0 .. n : \A t \in r[k] : Len(t) = n - 2 * k /\ (Ends(t) <=> Ends(s))}
  <2>1. 0 \in S
    <3>1. n - 2 * 0 = n /\ 0 \in 0 .. n
      BY <1>1
    <3> QED BY <1>3, <3>1 DEF n
  <2>2. ASSUME NEW k \in 0 .. n - 1, k \in S PROVE k + 1 \in S
    <3>1. k + 1 \in 0 .. n /\ k + 1 \in 1 .. n /\ k \in 0 .. n /\ (k + 1) - 1 = k
      BY <1>1
    <3> SUFFICES ASSUME NEW u \in r[k + 1] PROVE Len(u) = n - 2 * (k + 1) /\ (Ends(u) <=> Ends(s))
      BY <3>1
    <3>2. PICK t \in r[k] : \E i \in Arrays!Pairs(t) : u = Arrays!WithoutPair(t, i)
      BY <1>3, <3>1 DEF Fewer
    <3>3. t \in Seq(Int) /\ Len(t) = n - 2 * k /\ (Ends(t) <=> Ends(s))
      BY <1>3, <2>2, <3>1
    <3>4. Len(u) = Len(t) - 2 /\ (Ends(u) <=> Ends(t))
      BY <3>2, <3>3, WithoutPairType, EndsWithoutPair
    <3>5. (n - 2 * k) - 2 = n - 2 * (k + 1)
      BY <1>1
    <3> QED BY <3>3, <3>4, <3>5
  <2>3. \A k \in 0 .. n : k \in S
    <3> HIDE DEF S
    <3> QED BY <1>1, <2>1, <2>2, UpTo
  <2> QED BY <2>3
<1>5. Ends(<<>>)
  <2> DEFINE h == [k \in 0 .. 0 |-> <<>>]
  <2>1. <<>> \in Stacks /\ Len(<<>>) = 0
    BY DEF Stacks
  <2>2. h \in [0 .. 0 -> Stacks] /\ h[0] = <<>>
    BY <2>1
  <2>3. HasStacks(<<>>, h)
    <3> HIDE DEF h
    <3> QED BY <2>1, <2>2 DEF HasStacks
  <2> QED BY <2>1, <2>2, <2>3 DEF Ends
<1>6. ASSUME Arrays!Balanced(s) PROVE Ends(s)
  <2>1. PICK k \in 0 .. n : <<>> \in r[k]
    BY <1>2, <1>6
  <2> QED BY <1>4, <1>5, <2>1
<1>7. ASSUME Ends(s), ~Arrays!Balanced(s) PROVE FALSE
  <2>1. \A k \in 0 .. n : <<>> \notin r[k]
    BY <1>2, <1>7
  <2> DEFINE S == {k \in 0 .. n : r[k] # {}}
  <2>2. 0 \in S
    BY <1>1, <1>3
  <2>3. ASSUME NEW k \in 0 .. n - 1, k \in S PROVE k + 1 \in S
    <3>1. k + 1 \in 0 .. n /\ k + 1 \in 1 .. n /\ k \in 0 .. n /\ (k + 1) - 1 = k
      BY <1>1
    <3>2. PICK t : t \in r[k]
      BY <2>3
    <3>3. t \in Seq(Int) /\ t # <<>> /\ Ends(t)
      BY <1>3, <1>4, <1>7, <2>1, <3>1, <3>2
    <3>4. PICK i : i \in Arrays!Pairs(t)
      BY <3>3, PairExists
    <3>5. Arrays!WithoutPair(t, i) \in Fewer(r[k])
      BY <3>2, <3>4 DEF Fewer
    <3> QED BY <1>3, <3>1, <3>5
  <2>4. n \in S
    <3> HIDE DEF S
    <3>1. \A k \in 0 .. n : k \in S
      BY <1>1, <2>2, <2>3, UpTo
    <3> QED BY <1>1, <3>1
  <2>5. PICK t : t \in r[n]
    BY <2>4
  <2>6. t \in Seq(Int) /\ Len(t) = n - 2 * n /\ t # <<>>
    BY <1>1, <1>3, <1>4, <2>1, <2>5
  <2>7. Len(t) \in Nat \ {0}
    BY <2>6, EmptySeq
  <2> QED BY <1>1, <2>6, <2>7
<1> QED BY <1>6, <1>7, ValidIs DEF Arrays!BracketsAreRight


-----------------------------------------------------------------------------
\* What holds on two sides of a table and at a place if before it, holds everywhere.
LEMMA Everywhere ==
    ASSUME NEW m \in Nat, NEW n \in Nat, NEW S,
           \A i \in 0 .. m : <<i, 0>> \in S,
           \A j \in 0 .. n : <<0, j>> \in S,
           \A i \in 1 .. m : \A j \in 1 .. n :
               <<i - 1, j - 1>> \in S /\ <<i - 1, j>> \in S /\ <<i, j - 1>> \in S => <<i, j>> \in S
    PROVE  \A i \in 0 .. m : \A j \in 0 .. n : <<i, j>> \in S
<1> DEFINE Rows == {i \in 0 .. m : \A j \in 0 .. n : <<i, j>> \in S}
<1>1. 0 \in Rows
  OBVIOUS
<1>2. ASSUME NEW i \in 0 .. m - 1, i \in Rows PROVE i + 1 \in Rows
  <2> DEFINE Row == {j \in 0 .. n : <<i + 1, j>> \in S}
  <2>1. i + 1 \in 1 .. m /\ i + 1 \in 0 .. m /\ (i + 1) - 1 = i
    OBVIOUS
  <2>2. 0 \in Row
    BY <2>1
  <2>3. ASSUME NEW j \in 0 .. n - 1, j \in Row PROVE j + 1 \in Row
    <3>1. j + 1 \in 1 .. n /\ j + 1 \in 0 .. n /\ j \in 0 .. n /\ (j + 1) - 1 = j
      OBVIOUS
    <3>2. <<i, j>> \in S /\ <<i, j + 1>> \in S /\ <<i + 1, j>> \in S
      BY <1>2, <2>3, <3>1
    <3> QED BY <2>1, <3>1, <3>2
  <2>4. \A j \in 0 .. n : j \in Row
    <3> HIDE DEF Row
    <3> QED BY <2>2, <2>3, UpTo
  <2> QED BY <2>1, <2>4
<1>3. \A i \in 0 .. m : i \in Rows
  <2> HIDE DEF Rows
  <2> QED BY <1>1, <1>2, UpTo
<1> QED BY <1>3

LEMMA MaxOfTwo ==
    ASSUME NEW k \in Nat, NEW l \in Nat
    PROVE  Arrays!Max({k, l}) = IF k >= l THEN k ELSE l
<1>1. {k, l} \in SUBSET (0 .. k + l) /\ {k, l} # {} /\ k + l \in Nat
  OBVIOUS
<1>2. Arrays!Max({k, l}) \in {k, l} /\ \A y \in {k, l} : Arrays!Max({k, l}) >= y
  <2> DEFINE S == {k, l}
             n == k + l
  <2>1. n \in Nat /\ S \in SUBSET (0 .. n) /\ S # {}
    BY <1>1
  <2> HIDE DEF S, n
  <2>2. Arrays!Max(S) \in S /\ \A y \in S : Arrays!Max(S) >= y
    BY <2>1, MaxIs
  <2> QED BY <2>2 DEF S
<1> QED BY <1>2

\* The pairings of the first i characters of one text with the first j of the other, and
\* the number of pairs in the largest of them.
Pairings(a, b, i, j) == {M \in Arrays!Alignments(a, b) : \A p \in M : p[1] <= i /\ p[2] <= j}
IsBest(k, a, b, i, j) ==
    /\ k \in Nat
    /\ \E M \in Pairings(a, b, i, j) : Cardinality(M) = k
    /\ \A M \in Pairings(a, b, i, j) : Cardinality(M) <= k

Before(p, q) == p[1] < q[1] /\ p[2] < q[2]

LEMMA PairingIs ==
    ASSUME NEW a \in Seq(Int), NEW b \in Seq(Int), NEW i \in 0 .. Len(a), NEW j \in 0 .. Len(b), NEW M
    PROVE  M \in Pairings(a, b, i, j) <=>
               /\ M \subseteq (1 .. i) \X (1 .. j)
               /\ \A p \in M : a[p[1]] = b[p[2]]
               /\ \A p, q \in M : p # q => Before(p, q) \/ Before(q, p)
<1> DEFINE equal == {p \in (DOMAIN a) \X (DOMAIN b) : a[p[1]] = b[p[2]]}
<1>1. Len(a) \in Nat /\ Len(b) \in Nat /\ DOMAIN a = 1 .. Len(a) /\ DOMAIN b = 1 .. Len(b)
  OBVIOUS
<1>2. Arrays!Alignments(a, b) =
          {N \in SUBSET equal : \A p, q \in N : p # q => (p[1] < q[1] /\ p[2] < q[2]) \/ (q[1] < p[1] /\ q[2] < p[2])}
  BY DEF Arrays!Alignments
<1>3. ASSUME NEW p PROVE (p \in equal /\ p[1] <= i /\ p[2] <= j) <=> (p \in (1 .. i) \X (1 .. j) /\ a[p[1]] = b[p[2]])
  <2>1. ASSUME p \in equal, p[1] <= i, p[2] <= j PROVE p \in (1 .. i) \X (1 .. j) /\ a[p[1]] = b[p[2]]
    <3>1. p = <<p[1], p[2]>> /\ p[1] \in 1 .. Len(a) /\ p[2] \in 1 .. Len(b)
      BY <1>1, <2>1
    <3>2. p[1] \in 1 .. i /\ p[2] \in 1 .. j
      BY <1>1, <2>1, <3>1
    <3> QED BY <2>1, <3>1, <3>2
  <2>2. ASSUME p \in (1 .. i) \X (1 .. j), a[p[1]] = b[p[2]] PROVE p \in equal /\ p[1] <= i /\ p[2] <= j
    <3>1. p = <<p[1], p[2]>> /\ p[1] \in 1 .. i /\ p[2] \in 1 .. j
      BY <2>2
    <3>2. p[1] \in DOMAIN a /\ p[2] \in DOMAIN b /\ p[1] <= i /\ p[2] <= j
      BY <1>1, <3>1
    <3> QED BY <2>2, <3>1, <3>2
  <2> QED BY <2>1, <2>2
<1> HIDE DEF equal
<1>4. M \in Pairings(a, b, i, j) <=>
          /\ \A p \in M : p \in equal /\ p[1] <= i /\ p[2] <= j
          /\ \A p, q \in M : p # q => Before(p, q) \/ Before(q, p)
  BY <1>2 DEF Pairings, Before
<1> QED BY <1>3, <1>4

LEMMA PairingFinite ==
    ASSUME NEW a \in Seq(Int), NEW b \in Seq(Int), NEW i \in 0 .. Len(a), NEW j \in 0 .. Len(b),
           NEW M \in Pairings(a, b, i, j)
    PROVE  IsFiniteSet(M) /\ Cardinality(M) \in Nat
<1>1. M \subseteq (1 .. i) \X (1 .. j)
  BY PairingIs
<1>2. IsFiniteSet(1 .. i) /\ IsFiniteSet(1 .. j)
  BY FS_Interval
<1>3. IsFiniteSet((1 .. i) \X (1 .. j))
  BY <1>2, FS_Product
<1> QED BY <1>1, <1>3, FS_Subset, FS_CardinalityType

LEMMA BestIsOne ==
    ASSUME NEW k, NEW l, NEW a, NEW b, NEW i, NEW j, IsBest(k, a, b, i, j), IsBest(l, a, b, i, j)
    PROVE  k = l
BY DEF IsBest

LEMMA BestOfNothing ==
    ASSUME NEW a \in Seq(Int), NEW b \in Seq(Int), NEW i \in 0 .. Len(a), NEW j \in 0 .. Len(b),
           i = 0 \/ j = 0
    PROVE  IsBest(0, a, b, i, j)
<1>1. ASSUME NEW M PROVE M \in Pairings(a, b, i, j) <=> M = {}
  <2>1. (1 .. i) \X (1 .. j) = {}
    OBVIOUS
  <2> QED BY <2>1, PairingIs
<1>2. Cardinality({}) = 0
  BY FS_EmptySet
<1>3. 0 <= 0 /\ 0 \in Nat
  OBVIOUS
<1>4. \E M \in Pairings(a, b, i, j) : Cardinality(M) = 0
  BY <1>1, <1>2
<1>5. \A M \in Pairings(a, b, i, j) : Cardinality(M) <= 0
  BY <1>1, <1>2, <1>3
<1> QED BY <1>3, <1>4, <1>5 DEF IsBest

LEMMA BestOfEqual ==
    ASSUME NEW a \in Seq(Int), NEW b \in Seq(Int), NEW i \in 1 .. Len(a), NEW j \in 1 .. Len(b),
           a[i] = b[j], NEW k, IsBest(k, a, b, i - 1, j - 1)
    PROVE  IsBest(k + 1, a, b, i, j)
<1>1. Len(a) \in Nat /\ Len(b) \in Nat
  OBVIOUS
<1>2. i \in Nat /\ j \in Nat /\ i \in 0 .. Len(a) /\ j \in 0 .. Len(b) /\ i - 1 \in 0 .. Len(a) /\ j - 1 \in 0 .. Len(b) /\ k \in Nat
  BY <1>1 DEF IsBest
<1>3. \E M \in Pairings(a, b, i, j) : Cardinality(M) = k + 1
  <2>1. PICK M \in Pairings(a, b, i - 1, j - 1) : Cardinality(M) = k
    BY DEF IsBest
  <2> DEFINE N == M \cup {<<i, j>>}
  <2>2. /\ M \subseteq (1 .. i - 1) \X (1 .. j - 1)
        /\ \A p \in M : a[p[1]] = b[p[2]]
        /\ \A p, q \in M : p # q => Before(p, q) \/ Before(q, p)
    <3> DEFINE u == i - 1
               v == j - 1
    <3>1. u \in 0 .. Len(a) /\ v \in 0 .. Len(b) /\ M \in Pairings(a, b, u, v)
      BY <1>2, <2>1
    <3> HIDE DEF N, u, v
    <3>2. /\ M \subseteq (1 .. u) \X (1 .. v)
          /\ \A p \in M : a[p[1]] = b[p[2]]
          /\ \A p, q \in M : p # q => Before(p, q) \/ Before(q, p)
      BY <3>1, PairingIs
    <3> QED BY <3>2 DEF u, v
  <2>3. ASSUME NEW p \in M PROVE p \in (1 .. i) \X (1 .. j) /\ Before(p, <<i, j>>)
    <3>1. p = <<p[1], p[2]>> /\ p[1] \in 1 .. i - 1 /\ p[2] \in 1 .. j - 1
      BY <2>2
    <3>2. \A m \in Nat : \A x \in 1 .. m - 1 : x \in 1 .. m /\ x < m
      OBVIOUS
    <3>3. p[1] \in 1 .. i /\ p[2] \in 1 .. j /\ p[1] < i /\ p[2] < j
      BY <1>2, <3>1, <3>2
    <3> QED BY <3>1, <3>3 DEF Before
  <2>4. N \subseteq (1 .. i) \X (1 .. j)
    <3>1. i \in 1 .. i /\ j \in 1 .. j
      BY <1>1
    <3> QED BY <2>3, <3>1
  <2>5. \A p \in N : a[p[1]] = b[p[2]]
    BY <2>2
  <2>6. \A p, q \in N : p # q => Before(p, q) \/ Before(q, p)
    BY <2>2, <2>3
  <2>7. <<i, j>> \notin M
    <3> SUFFICES ASSUME <<i, j>> \in M PROVE FALSE
      OBVIOUS
    <3>1. Before(<<i, j>>, <<i, j>>)
      BY <2>3
    <3>2. i < i
      BY <3>1 DEF Before
    <3> QED BY <1>1, <3>2
  <2>8. N \in Pairings(a, b, i, j)
    <3> HIDE DEF N
    <3> QED BY <1>2, <2>4, <2>5, <2>6, PairingIs
  <2>9. IsFiniteSet(M)
    BY <1>2, PairingFinite
  <2>10. Cardinality(N) = k + 1
    BY <2>1, <2>7, <2>9, FS_AddElement
  <2> QED BY <2>8, <2>10
<1>4. ASSUME NEW M \in Pairings(a, b, i, j) PROVE Cardinality(M) <= k + 1
  <2>1. /\ M \subseteq (1 .. i) \X (1 .. j)
        /\ \A p \in M : a[p[1]] = b[p[2]]
        /\ \A p, q \in M : p # q => Before(p, q) \/ Before(q, p)
    BY <1>2, PairingIs
  <2> DEFINE Inner(p) == p[1] <= i - 1 /\ p[2] <= j - 1
  <2>2. \A p \in M : p = <<p[1], p[2]>> /\ p[1] \in 1 .. i /\ p[2] \in 1 .. j
    BY <2>1
  <2>3. ASSUME NEW p \in M, NEW q \in M, Before(p, q) PROVE Inner(p)
    <3>1. \A m \in Nat : \A x, y \in 1 .. m : x < y => x <= m - 1
      OBVIOUS
    <3>2. p[1] < q[1] /\ p[2] < q[2]
      BY <2>3 DEF Before
    <3> QED BY <1>2, <2>2, <3>1, <3>2
  <2>4. PICK x : \A p \in M : p # x => Inner(p)
    <3>1. CASE \A p \in M : Inner(p)
      BY <3>1
    <3>2. CASE \E p \in M : ~Inner(p)
      <4>1. PICK x \in M : ~Inner(x)
        BY <3>2
      <4>2. \A p \in M : p # x => Inner(p)
        <5> HIDE DEF Inner
        <5> QED BY <2>1, <2>3, <4>1
      <4> QED BY <4>2
    <3> QED BY <3>1, <3>2
  <2> DEFINE N == M \ {x}
  <2>5. N \in Pairings(a, b, i - 1, j - 1)
    <3>1. N \subseteq (1 .. i - 1) \X (1 .. j - 1)
      <4> SUFFICES ASSUME NEW p \in N PROVE p \in (1 .. i - 1) \X (1 .. j - 1)
        OBVIOUS
      <4>1. p = <<p[1], p[2]>> /\ p[1] \in 1 .. i /\ p[2] \in 1 .. j /\ p[1] <= i - 1 /\ p[2] <= j - 1
        BY <2>2, <2>4
      <4>2. p[1] \in 1 .. i - 1 /\ p[2] \in 1 .. j - 1
        BY <1>2, <4>1
      <4> QED BY <4>1, <4>2
    <3>2. /\ \A p \in N : a[p[1]] = b[p[2]]
          /\ \A p, q \in N : p # q => Before(p, q) \/ Before(q, p)
      BY <2>1
    <3> HIDE DEF N
    <3> QED BY <1>2, <3>1, <3>2, PairingIs
  <2>6. Cardinality(N) <= k
    BY <2>5 DEF IsBest
  <2>7. IsFiniteSet(M) /\ Cardinality(M) \in Nat
    BY <1>2, PairingFinite
  <2>8. Cardinality(N) = IF x \in M THEN Cardinality(M) - 1 ELSE Cardinality(M)
    BY <2>7, FS_RemoveElement
  <2> HIDE DEF N
  <2> QED BY <1>2, <2>6, <2>7, <2>8
<1>5. k + 1 \in Nat
  BY <1>2
<1> QED BY <1>3, <1>4, <1>5 DEF IsBest

LEMMA BestOfUnequal ==
    ASSUME NEW a \in Seq(Int), NEW b \in Seq(Int), NEW i \in 1 .. Len(a), NEW j \in 1 .. Len(b),
           a[i] # b[j], NEW k, IsBest(k, a, b, i - 1, j), NEW l, IsBest(l, a, b, i, j - 1)
    PROVE  IsBest(Arrays!Max({k, l}), a, b, i, j)
<1> DEFINE m == Arrays!Max({k, l})
<1>1. Len(a) \in Nat /\ Len(b) \in Nat
  OBVIOUS
<1>2. /\ i \in Nat /\ j \in Nat /\ i \in 0 .. Len(a) /\ j \in 0 .. Len(b) /\ i - 1 \in 0 .. Len(a) /\ j - 1 \in 0 .. Len(b)
      /\ k \in Nat /\ l \in Nat
  BY <1>1 DEF IsBest
<1>3. m = IF k >= l THEN k ELSE l
  BY <1>2, MaxOfTwo
<1> HIDE DEF m
<1>4. ASSUME NEW M \in Pairings(a, b, i - 1, j) PROVE M \in Pairings(a, b, i, j)
  <2>1. (1 .. i - 1) \X (1 .. j) \subseteq (1 .. i) \X (1 .. j)
    <3>1. 1 .. i - 1 \subseteq 1 .. i
      BY <1>2
    <3> QED BY <3>1
  <2>2. /\ M \subseteq (1 .. i - 1) \X (1 .. j)
        /\ \A p \in M : a[p[1]] = b[p[2]]
        /\ \A p, q \in M : p # q => Before(p, q) \/ Before(q, p)
    <3> DEFINE c == i - 1
    <3>1. c \in 0 .. Len(a) /\ M \in Pairings(a, b, c, j)
      BY <1>2
    <3> HIDE DEF c
    <3>2. /\ M \subseteq (1 .. c) \X (1 .. j)
          /\ \A p \in M : a[p[1]] = b[p[2]]
          /\ \A p, q \in M : p # q => Before(p, q) \/ Before(q, p)
      BY <1>2, <3>1, PairingIs
    <3> QED BY <3>2 DEF c
  <2>3. M \subseteq (1 .. i) \X (1 .. j)
    BY <2>1, <2>2
  <2> QED BY <1>2, <2>2, <2>3, PairingIs
<1>5. ASSUME NEW M \in Pairings(a, b, i, j - 1) PROVE M \in Pairings(a, b, i, j)
  <2>1. (1 .. i) \X (1 .. j - 1) \subseteq (1 .. i) \X (1 .. j)
    <3>1. 1 .. j - 1 \subseteq 1 .. j
      BY <1>2
    <3> QED BY <3>1
  <2>2. /\ M \subseteq (1 .. i) \X (1 .. j - 1)
        /\ \A p \in M : a[p[1]] = b[p[2]]
        /\ \A p, q \in M : p # q => Before(p, q) \/ Before(q, p)
    <3> DEFINE c == j - 1
    <3>1. c \in 0 .. Len(b) /\ M \in Pairings(a, b, i, c)
      BY <1>2
    <3> HIDE DEF c
    <3>2. /\ M \subseteq (1 .. i) \X (1 .. c)
          /\ \A p \in M : a[p[1]] = b[p[2]]
          /\ \A p, q \in M : p # q => Before(p, q) \/ Before(q, p)
      BY <1>2, <3>1, PairingIs
    <3> QED BY <3>2 DEF c
  <2>3. M \subseteq (1 .. i) \X (1 .. j)
    BY <2>1, <2>2
  <2> QED BY <1>2, <2>2, <2>3, PairingIs
<1>6. \E M \in Pairings(a, b, i, j) : Cardinality(M) = m
  BY <1>3, <1>4, <1>5 DEF IsBest
<1>7. ASSUME NEW M \in Pairings(a, b, i, j) PROVE Cardinality(M) <= m
  <2>1. /\ M \subseteq (1 .. i) \X (1 .. j)
        /\ \A p \in M : a[p[1]] = b[p[2]]
        /\ \A p, q \in M : p # q => Before(p, q) \/ Before(q, p)
    BY <1>2, PairingIs
  <2>2. \A p \in M : p = <<p[1], p[2]>> /\ p[1] \in 1 .. i /\ p[2] \in 1 .. j
    BY <2>1
  <2>3. IsFiniteSet(M) /\ Cardinality(M) \in Nat
    BY <1>2, PairingFinite
  <2>4. CASE \A p \in M : p[1] # i
    <3>1. \A p \in M : p[1] \in 1 .. i - 1
      BY SMTT(60), <1>2, <2>2, <2>4
    <3>2. M \subseteq (1 .. i - 1) \X (1 .. j)
      BY <2>2, <3>1
    <3>3. M \in Pairings(a, b, i - 1, j)
      BY <1>2, <2>1, <3>2, PairingIs
    <3>4. Cardinality(M) <= k
      BY <3>3 DEF IsBest
    <3> QED BY <1>2, <1>3, <2>3, <3>4
  <2>5. CASE \E p \in M : p[1] = i
    <3>1. PICK p \in M : p[1] = i
      BY <2>5
    <3>2. p[2] # j
      BY <2>1, <3>1
    <3>3. ASSUME NEW q \in M, q[2] = j PROVE FALSE
      <4>1. q # p
        BY <3>2, <3>3
      <4>2. Before(p, q) \/ Before(q, p)
        BY <2>1, <4>1
      <4>3. p[1] \in 1 .. i /\ p[2] \in 1 .. j /\ q[1] \in 1 .. i /\ q[2] \in 1 .. j
        BY <2>2
      <4>4. \A z \in Nat : \A x \in 1 .. z : ~(z < x)
        OBVIOUS
      <4>5. ~(p[1] < q[1]) /\ ~(q[2] < p[2])
        BY <1>2, <3>1, <3>3, <4>3, <4>4
      <4> QED BY <4>2, <4>5 DEF Before
    <3>4. \A q \in M : q[2] \in 1 .. j - 1
      <4>1. \A z \in Nat : \A x \in 1 .. z : x # z => x \in 1 .. z - 1
        OBVIOUS
      <4> QED BY <1>2, <2>2, <3>3, <4>1
    <3>5. M \subseteq (1 .. i) \X (1 .. j - 1)
      BY <2>2, <3>4
    <3>6. M \in Pairings(a, b, i, j - 1)
      BY <1>2, <2>1, <3>5, PairingIs
    <3>7. Cardinality(M) <= l
      BY <3>6 DEF IsBest
    <3> QED BY <1>2, <1>3, <2>3, <3>7
  <2> QED BY <2>4, <2>5
<1>8. m \in Nat
  BY <1>2, <1>3
<1>9. IsBest(m, a, b, i, j)
  BY <1>6, <1>7, <1>8 DEF IsBest
<1> QED BY <1>9 DEF m


LEMMA BestExists ==
    ASSUME NEW a \in Seq(Int), NEW b \in Seq(Int)
    PROVE  \A i \in 0 .. Len(a) : \A j \in 0 .. Len(b) : \E k : IsBest(k, a, b, i, j)
<1> DEFINE m == Len(a)
           n == Len(b)
           S == {p \in (0 .. m) \X (0 .. n) : \E k : IsBest(k, a, b, p[1], p[2])}
<1>1. m \in Nat /\ n \in Nat
  OBVIOUS
<1>2. ASSUME NEW i \in 0 .. m PROVE <<i, 0>> \in S
  <2>1. 0 \in 0 .. n
    BY <1>1
  <2>2. IsBest(0, a, b, i, 0)
    BY <2>1, BestOfNothing
  <2> QED BY <2>1, <2>2
<1>3. ASSUME NEW j \in 0 .. n PROVE <<0, j>> \in S
  <2>1. 0 \in 0 .. m
    BY <1>1
  <2>2. IsBest(0, a, b, 0, j)
    BY <2>1, BestOfNothing
  <2> QED BY <2>1, <2>2
<1>4. ASSUME NEW i \in 1 .. m, NEW j \in 1 .. n,
             <<i - 1, j - 1>> \in S, <<i - 1, j>> \in S, <<i, j - 1>> \in S
      PROVE  <<i, j>> \in S
  <2>1. <<i, j>> \in (0 .. m) \X (0 .. n)
    BY <1>1
  <2>2. PICK k : IsBest(k, a, b, i - 1, j - 1)
    BY <1>4
  <2>3. PICK k1 : IsBest(k1, a, b, i - 1, j)
    BY <1>4
  <2>4. PICK k2 : IsBest(k2, a, b, i, j - 1)
    BY <1>4
  <2>5. \E l : IsBest(l, a, b, i, j)
    BY <2>2, <2>3, <2>4, BestOfEqual, BestOfUnequal
  <2> QED BY <2>1, <2>5
<1>5. \A i \in 0 .. m : \A j \in 0 .. n : <<i, j>> \in S
  <2> HIDE DEF S, m, n
  <2> QED BY <1>1, <1>2, <1>3, <1>4, Everywhere
<1> QED BY <1>5

\* The table of longestCommonSubsequence holds these numbers.
LEMMA LengthIsBest ==
    ASSUME NEW a \in Seq(Int), NEW b \in Seq(Int)
    PROVE  IsBest(Arrays!longestCommonSubsequence(a, b), a, b, Len(a), Len(b))
<1> DEFINE m == Len(a)
           n == Len(b)
           Fits(f) == f = [p \in (0 .. Len(a)) \X (0 .. Len(b)) |->
                             LET i == p[1]
                                 j == p[2]
                             IN  IF i = 0 \/ j = 0 THEN 0
                                 ELSE IF a[i] = b[j] THEN 1 + f[<<i - 1, j - 1>>]
                                 ELSE Arrays!Max({f[<<i - 1, j>>], f[<<i, j - 1>>]})]
           dp == CHOOSE f : Fits(f)
           Best(i, j) == CHOOSE k : IsBest(k, a, b, i, j)
           g == [p \in (0 .. m) \X (0 .. n) |-> Best(p[1], p[2])]
<1>1. m \in Nat /\ n \in Nat
  OBVIOUS
<1>2. Arrays!longestCommonSubsequence(a, b) = dp[<<m, n>>]
  BY DEF Arrays!longestCommonSubsequence
<1>3. ASSUME NEW i \in 0 .. m, NEW j \in 0 .. n PROVE IsBest(Best(i, j), a, b, i, j) /\ g[<<i, j>>] = Best(i, j)
  BY BestExists
<1> HIDE DEF Best
<1>4. ASSUME NEW i \in 0 .. m, NEW j \in 0 .. n
      PROVE  Best(i, j) = IF i = 0 \/ j = 0 THEN 0
                          ELSE IF a[i] = b[j] THEN 1 + Best(i - 1, j - 1)
                          ELSE Arrays!Max({Best(i - 1, j), Best(i, j - 1)})
  <2>1. CASE i = 0 \/ j = 0
    BY <1>3, <2>1, BestOfNothing, BestIsOne
  <2>2. CASE ~(i = 0 \/ j = 0)
    <3>1. /\ i \in 1 .. m /\ j \in 1 .. n /\ i - 1 \in 0 .. m /\ j - 1 \in 0 .. n
      BY <1>1, <2>2
    <3>2. /\ IsBest(Best(i - 1, j - 1), a, b, i - 1, j - 1)
          /\ IsBest(Best(i - 1, j), a, b, i - 1, j)
          /\ IsBest(Best(i, j - 1), a, b, i, j - 1)
          /\ IsBest(Best(i, j), a, b, i, j)
      BY <1>3, <3>1
    <3>3. CASE a[i] = b[j]
      <4>1. IsBest(Best(i - 1, j - 1) + 1, a, b, i, j)
        BY <3>1, <3>2, <3>3, BestOfEqual
      <4>2. Best(i, j) = Best(i - 1, j - 1) + 1
        BY <3>2, <4>1, BestIsOne
      <4>3. Best(i - 1, j - 1) \in Nat
        BY <3>2 DEF IsBest
      <4> QED BY <2>2, <3>3, <4>2, <4>3
    <3>4. CASE a[i] # b[j]
      <4>1. IsBest(Arrays!Max({Best(i - 1, j), Best(i, j - 1)}), a, b, i, j)
        BY <3>1, <3>2, <3>4, BestOfUnequal
      <4>2. Best(i, j) = Arrays!Max({Best(i - 1, j), Best(i, j - 1)})
        BY <3>2, <4>1, BestIsOne
      <4> QED BY <2>2, <3>4, <4>2
    <3> QED BY <3>3, <3>4
  <2> QED BY <2>1, <2>2
<1>5. Fits(g)
  <2>1. ASSUME NEW i \in 0 .. m, NEW j \in 0 .. n
        PROVE  Best(i, j) = IF i = 0 \/ j = 0 THEN 0
                            ELSE IF a[i] = b[j] THEN 1 + g[<<i - 1, j - 1>>]
                            ELSE Arrays!Max({g[<<i - 1, j>>], g[<<i, j - 1>>]})
    <3>1. CASE i = 0 \/ j = 0
      BY <1>4, <3>1
    <3>2. CASE ~(i = 0 \/ j = 0)
      <4>1. /\ i - 1 \in 0 .. m /\ j - 1 \in 0 .. n
        BY <1>1, <3>2
      <4>2. g[<<i - 1, j - 1>>] = Best(i - 1, j - 1) /\ g[<<i - 1, j>>] = Best(i - 1, j) /\ g[<<i, j - 1>>] = Best(i, j - 1)
        BY <1>3, <4>1
      <4> HIDE DEF g
      <4> QED BY <1>4, <3>2, <4>2
    <3> QED BY <3>1, <3>2
  <2>2. ASSUME NEW p \in (0 .. m) \X (0 .. n)
        PROVE  Best(p[1], p[2]) = LET i == p[1]
                                      j == p[2]
                                  IN  IF i = 0 \/ j = 0 THEN 0
                                      ELSE IF a[i] = b[j] THEN 1 + g[<<i - 1, j - 1>>]
                                      ELSE Arrays!Max({g[<<i - 1, j>>], g[<<i, j - 1>>]})
    <3>1. p[1] \in 0 .. m /\ p[2] \in 0 .. n
      OBVIOUS
    <3> HIDE DEF g
    <3> QED BY <2>1, <3>1
  <2> QED BY <2>2
<1>6. Fits(dp)
  <2> HIDE DEF Fits, g
  <2> QED BY <1>5
<1> HIDE DEF dp
<1>7. ASSUME NEW i \in 0 .. m, NEW j \in 0 .. n
      PROVE  dp[<<i, j>>] = IF i = 0 \/ j = 0 THEN 0
                        ELSE IF a[i] = b[j] THEN 1 + dp[<<i - 1, j - 1>>]
                        ELSE Arrays!Max({dp[<<i - 1, j>>], dp[<<i, j - 1>>]})
  BY <1>6
<1> DEFINE S == {p \in (0 .. m) \X (0 .. n) : dp[p] = Best(p[1], p[2])}
<1>8. ASSUME NEW i \in 0 .. m, NEW j \in 0 .. n
      PROVE  <<i, j>> \in S <=> dp[<<i, j>>] = Best(i, j)
  OBVIOUS
<1> HIDE DEF S
<1>9. \A i \in 0 .. m : \A j \in 0 .. n : <<i, j>> \in S
  <2>1. \A i \in 0 .. m : <<i, 0>> \in S
    <3>1. 0 \in 0 .. n
      BY <1>1
    <3> QED BY <1>4, <1>7, <1>8, <3>1
  <2>2. \A j \in 0 .. n : <<0, j>> \in S
    <3>1. 0 \in 0 .. m
      BY <1>1
    <3> QED BY <1>4, <1>7, <1>8, <3>1
  <2>3. ASSUME NEW i \in 1 .. m, NEW j \in 1 .. n,
               <<i - 1, j - 1>> \in S, <<i - 1, j>> \in S, <<i, j - 1>> \in S
        PROVE  <<i, j>> \in S
    <3>1. i \in 0 .. m /\ j \in 0 .. n /\ i - 1 \in 0 .. m /\ j - 1 \in 0 .. n /\ i # 0 /\ j # 0
      BY <1>1
    <3>2. dp[<<i - 1, j - 1>>] = Best(i - 1, j - 1) /\ dp[<<i - 1, j>>] = Best(i - 1, j) /\ dp[<<i, j - 1>>] = Best(i, j - 1)
      BY <1>8, <2>3, <3>1
    <3> HIDE DEF m, n
    <3>3. dp[<<i, j>>] = Best(i, j)
      <4>1. dp[<<i, j>>] = IF a[i] = b[j] THEN 1 + dp[<<i - 1, j - 1>>]
                           ELSE Arrays!Max({dp[<<i - 1, j>>], dp[<<i, j - 1>>]})
        BY <1>7, <3>1
      <4>2. Best(i, j) = IF a[i] = b[j] THEN 1 + Best(i - 1, j - 1)
                         ELSE Arrays!Max({Best(i - 1, j), Best(i, j - 1)})
        BY <1>4, <3>1
      <4> QED BY <3>2, <4>1, <4>2
    <3> QED BY <1>8, <3>1, <3>3
  <2> HIDE DEF m, n
  <2> QED BY <1>1, <2>1, <2>2, <2>3, Everywhere
<1>10. dp[<<m, n>>] = Best(m, n) /\ IsBest(Best(m, n), a, b, m, n)
  <2>1. m \in 0 .. m /\ n \in 0 .. n
    BY <1>1
  <2> QED BY <1>3, <1>8, <1>9, <2>1
<1> QED BY <1>2, <1>10

\* src/1143.c: the table gives how many characters a longest text in both texts has.
LEMMA SubsequenceCorrect ==
    ASSUME NEW s \in Seq(Int)
    PROVE  Arrays!SubsequenceIsRight(s)
<1>1. ASSUME NEW a \in Seq(Int), NEW b \in Seq(Int)
      PROVE  /\ \E M \in Arrays!Alignments(a, b) : Arrays!Cardinality(M) = Arrays!longestCommonSubsequence(a, b)
             /\ \A M \in Arrays!Alignments(a, b) : Arrays!Cardinality(M) <= Arrays!longestCommonSubsequence(a, b)
  <2>1. ASSUME NEW M \in Arrays!Alignments(a, b) PROVE M \in Pairings(a, b, Len(a), Len(b))
    <3>1. \A p \in M : p \in (DOMAIN a) \X (DOMAIN b)
      BY DEF Arrays!Alignments
    <3>2. Len(a) \in Nat /\ Len(b) \in Nat /\ DOMAIN a = 1 .. Len(a) /\ DOMAIN b = 1 .. Len(b)
      OBVIOUS
    <3>3. \A m \in Nat : \A x \in 1 .. m : x <= m
      OBVIOUS
    <3>4. \A p \in M : p[1] <= Len(a) /\ p[2] <= Len(b)
      BY <3>1, <3>2, <3>3
    <3> QED BY <3>4 DEF Pairings
  <2>2. Pairings(a, b, Len(a), Len(b)) \subseteq Arrays!Alignments(a, b)
    BY DEF Pairings
  <2> QED BY <2>1, <2>2, LengthIsBest, SameCardinality DEF IsBest
<1>2. ASSUME NEW cut \in 0 .. Len(s)
      PROVE  SubSeq(s, 1, cut) \in Seq(Int) /\ SubSeq(s, cut + 1, Len(s)) \in Seq(Int)
  <2>1. Len(s) \in Nat /\ \A i \in 1 .. Len(s) : s[i] \in Int
    OBVIOUS
  <2>2. cut \in Int /\ cut + 1 \in Int /\ Len(s) \in Int /\ \A i \in 1 .. cut : i \in 1 .. Len(s)
    BY <2>1
  <2>3. \A i \in cut + 1 .. Len(s) : i \in 1 .. Len(s)
    BY <2>1
  <2>4. SubSeq(s, 1, cut) \in Seq(Int)
    BY <2>1, <2>2, SubSeqProperties
  <2>5. SubSeq(s, cut + 1, Len(s)) \in Seq(Int)
    BY <2>1, <2>2, <2>3, SubSeqProperties
  <2> QED BY <2>4, <2>5
<1> QED BY <1>1, <1>2 DEF Arrays!SubsequenceIsRight


-----------------------------------------------------------------------------
\* How often x is in the sequence t.
Occurs(x, t) == Cardinality({k \in DOMAIN t : t[k] = x})

\* The text u is the text t of n characters with places from i on exchanged.
Texts(n) == [1 .. n -> Int]
Moves(p, n, t, u, i) ==
    /\ p \in [1 .. n -> 1 .. n]
    /\ \A k, m \in 1 .. n : p[k] = p[m] => k = m
    /\ \A k \in 1 .. n : u[k] = t[p[k]]
    /\ \A k \in 1 .. i - 1 : p[k] = k
Moved(n, t, u, i) == \E p : Moves(p, n, t, u, i)

LEMMA MovedNot ==
    ASSUME NEW n \in Nat, NEW t, NEW i \in 1 .. n
    PROVE  Moved(n, t, t, i)
<1> DEFINE p == [k \in 1 .. n |-> k]
<1>1. \A k \in 1 .. i - 1 : k \in 1 .. n
  OBVIOUS
<1>2. Moves(p, n, t, t, i)
  BY <1>1 DEF Moves
<1> HIDE DEF p
<1> QED BY <1>2 DEF Moved

LEMMA MovedTwice ==
    ASSUME NEW n \in Nat, NEW t, NEW u, NEW v, NEW i \in 1 .. n, Moved(n, t, u, i), Moved(n, u, v, i)
    PROVE  Moved(n, t, v, i)
<1>1. PICK p : Moves(p, n, t, u, i)
  BY DEF Moved
<1>2. PICK q : Moves(q, n, u, v, i)
  BY DEF Moved
<1>3. \A k \in 1 .. i - 1 : k \in 1 .. n
  OBVIOUS
<1> DEFINE r == [k \in 1 .. n |-> p[q[k]]]
<1>4. p \in [1 .. n -> 1 .. n] /\ q \in [1 .. n -> 1 .. n]
  BY <1>1, <1>2 DEF Moves
<1>5. r \in [1 .. n -> 1 .. n] /\ \A k \in 1 .. n : q[k] \in 1 .. n /\ r[k] = p[q[k]]
  BY <1>4
<1> HIDE DEF r
<1>6. \A k, m \in 1 .. n : r[k] = r[m] => k = m
  BY <1>1, <1>2, <1>5 DEF Moves
<1>7. ASSUME NEW k \in 1 .. n PROVE v[k] = t[r[k]]
  <2>1. v[k] = u[q[k]]
    BY <1>2 DEF Moves
  <2>2. u[q[k]] = t[p[q[k]]]
    BY <1>1, <1>5 DEF Moves
  <2> QED BY <1>5, <2>1, <2>2
<1>8. \A k \in 1 .. i - 1 : r[k] = k
  BY <1>1, <1>2, <1>3, <1>5 DEF Moves
<1>9. Moves(r, n, t, v, i)
  BY <1>5, <1>6, <1>7, <1>8 DEF Moves
<1> QED BY <1>9 DEF Moved

LEMMA MovedMore ==
    ASSUME NEW n \in Nat, NEW t, NEW u, NEW i \in 1 .. n, Moved(n, t, u, i), NEW e \in 1 .. i
    PROVE  Moved(n, t, u, e)
<1>1. PICK p : Moves(p, n, t, u, i)
  BY DEF Moved
<1>2. \A k \in 1 .. e - 1 : k \in 1 .. i - 1
  OBVIOUS
<1>3. Moves(p, n, t, u, e)
  BY <1>1, <1>2 DEF Moves
<1> QED BY <1>3 DEF Moved

\* What stands from i on comes from there.
LEMMA MovedWithin ==
    ASSUME NEW n \in Nat, NEW p, NEW t, NEW u, NEW i \in 1 .. n, Moves(p, n, t, u, i), NEW k \in i .. n
    PROVE  p[k] \in i .. n /\ k \in 1 .. n
<1>1. k \in 1 .. n /\ p[k] \in 1 .. n
  <2>1. k \in 1 .. n
    OBVIOUS
  <2> QED BY <2>1 DEF Moves
<1> DEFINE m == p[k]
<1>2. CASE m < i
  <2>1. m \in 1 .. i - 1 /\ m \in 1 .. n
    BY <1>1, <1>2
  <2>2. p[m] = m
    BY <2>1 DEF Moves
  <2>3. m = k
    BY <1>1, <2>1, <2>2 DEF Moves
  <2> QED BY <1>2, <2>3
<1>3. CASE ~(m < i)
  BY <1>1, <1>3
<1> QED BY <1>2, <1>3

LEMMA MovedOccurs ==
    ASSUME NEW n \in Nat, NEW t \in Texts(n), NEW u \in Texts(n), NEW i \in 1 .. n, Moved(n, t, u, i), NEW c
    PROVE  Occurs(c, u) = Occurs(c, t)
<1>1. PICK p : Moves(p, n, t, u, i)
  BY DEF Moved
<1>2. /\ p \in [1 .. n -> 1 .. n] /\ (\A k, m \in 1 .. n : p[k] = p[m] => k = m)
      /\ \A k \in 1 .. n : u[k] = t[p[k]]
  BY <1>1 DEF Moves
<1> DEFINE A == {k \in DOMAIN u : u[k] = c}
           B == {k \in DOMAIN t : t[k] = c}
           f == [k \in A |-> p[k]]
<1>3. DOMAIN t = 1 .. n /\ DOMAIN u = 1 .. n
  BY DEF Texts
<1>4. IsFiniteSet(1 .. n)
  BY FS_Interval
<1>5. f \in [A -> B] /\ \A k, m \in A : f[k] = f[m] => k = m
  BY <1>2, <1>3
<1>6. \A m \in B : \E k \in A : f[k] = m
  <2> SUFFICES ASSUME NEW m \in B PROVE \E k \in A : f[k] = m
    OBVIOUS
  <2>1. m \in 1 .. n /\ t[m] = c
    BY <1>3
  <2>2. PICK k \in 1 .. n : p[k] = m
    <3> DEFINE S == 1 .. n
    <3>1. IsFiniteSet(S) /\ p \in [S -> S] /\ m \in S /\ \A j, l \in S : p[j] = p[l] => j = l
      BY <1>2, <1>4, <2>1
    <3> HIDE DEF S
    <3>2. \E k \in S : p[k] = m
      BY <3>1, InjectionIsOnto
    <3> QED BY <3>2 DEF S
  <2>3. k \in A
    BY <1>2, <1>3, <2>1, <2>2
  <2> QED BY <2>2, <2>3
<1>7. IsFiniteSet(A)
  <2>1. A \subseteq 1 .. n
    BY <1>3
  <2> QED BY <1>4, <2>1, FS_Subset
<1> HIDE DEF f, A, B
<1>8. f \in Bijection(A, B)
  BY <1>5, <1>6 DEF Bijection, Injection, Surjection, IsInjective
<1>9. Cardinality(B) = Cardinality(A)
  BY <1>7, <1>8, FS_Bijection DEF ExistsBijection
<1> QED BY <1>9 DEF A, B, Occurs

-----------------------------------------------------------------------------
LEMMA ExchangeIs ==
    ASSUME NEW n \in Nat, NEW t \in Texts(n), NEW i \in 1 .. n, NEW j \in i + 1 .. n
    PROVE  LET u == Arrays!Exchange(t, i, j)
           IN  /\ u \in Texts(n)
               /\ Moved(n, t, u, i)
               /\ u[i] <= t[i] /\ u[i] <= u[j]
               /\ \A k \in 1 .. n : k # i /\ k # j => u[k] = t[k]
<1> DEFINE u == Arrays!Exchange(t, i, j)
<1>1. j \in 1 .. n /\ j # i /\ t[i] \in Int /\ t[j] \in Int
  <2>1. j \in 1 .. n /\ j # i
    OBVIOUS
  <2> QED BY <2>1 DEF Texts
<1>2. CASE ~(t[i] > t[j])
  <2>1. u = t
    BY <1>2 DEF Arrays!Exchange
  <2>2. Moved(n, t, u, i)
    BY <2>1, MovedNot
  <2> HIDE DEF u
  <2>3. u[i] <= t[i] /\ u[i] <= u[j]
    BY <1>1, <1>2, <2>1
  <2> QED BY <2>1, <2>2, <2>3 DEF u
<1>3. CASE t[i] > t[j]
  <2>1. u = [t EXCEPT ![i] = t[j], ![j] = t[i]]
    BY <1>3 DEF Arrays!Exchange
  <2> HIDE DEF u
  <2>2. /\ u \in Texts(n) /\ u[i] = t[j] /\ u[j] = t[i]
        /\ \A k \in 1 .. n : k # i /\ k # j => u[k] = t[k]
    BY <1>1, <2>1 DEF Texts
  <2> DEFINE p == [k \in 1 .. n |-> IF k = i THEN j ELSE IF k = j THEN i ELSE k]
  <2>3. p \in [1 .. n -> 1 .. n]
    BY <1>1
  <2>4. \A k, m \in 1 .. n : p[k] = p[m] => k = m
    BY <1>1
  <2>5. \A k \in 1 .. n : u[k] = t[p[k]]
    BY <1>1, <2>2
  <2>6. \A k \in 1 .. i - 1 : p[k] = k
    <3>1. \A k \in 1 .. i - 1 : k \in 1 .. n /\ k # i /\ k # j
      BY <1>1
    <3> QED BY <3>1
  <2> HIDE DEF p
  <2>7. Moves(p, n, t, u, i)
    BY <2>3, <2>4, <2>5, <2>6 DEF Moves
  <2>8. u[i] <= t[i] /\ u[i] <= u[j]
    BY <1>1, <1>3, <2>2
  <2> QED BY <2>2, <2>7, <2>8 DEF Moved, u
<1> QED BY <1>2, <1>3

\* The inner loop of sortString puts a least one of the characters from place i on there.
LEMMA SettleIs ==
    ASSUME NEW n \in Nat, NEW t \in Texts(n), Len(t) = n, NEW i \in 1 .. n
    PROVE  LET u == Arrays!settle(t, i)
           IN  /\ u \in Texts(n)
               /\ Moved(n, t, u, i)
               /\ \A k \in i .. n : u[i] <= u[k]
<1> DEFINE Fits(f) == f = [j \in i .. Len(t) |-> IF j = i THEN t ELSE Arrays!Exchange(f[j - 1], i, j)]
           after == CHOOSE f : Fits(f)
           X == Texts(n)
           m == n - i
           step == [k \in 0 .. m - 1 |-> [u \in X |-> Arrays!Exchange(u, i, (k + 1) + i)]]
<1>1. Arrays!settle(t, i) = after[n]
  BY DEF Arrays!settle
<1>2. m \in Nat /\ i + m = n
  OBVIOUS
<1>3. PICK h : IsTurns(h, m, X, step, t)
  <2>1. ASSUME NEW k \in 0 .. m - 1, NEW u \in X PROVE Arrays!Exchange(u, i, (k + 1) + i) \in X
    <3>1. (k + 1) + i \in i + 1 .. n
      BY <1>2
    <3> QED BY <3>1, ExchangeIs
  <2>2. step \in [0 .. m - 1 -> [X -> X]]
    BY <2>1
  <2> HIDE DEF m, step, X
  <2>3. t \in X
    BY DEF X
  <2> QED BY <1>2, <2>2, <2>3, TurnsExist
<1>4. h \in [0 .. m -> X] /\ h[0] = t /\ \A k \in 1 .. m : h[k] = Arrays!Exchange(h[k - 1], i, k + i)
  <2>1. h \in [0 .. m -> X] /\ h[0] = t /\ \A k \in 1 .. m : h[k] = step[k - 1][h[k - 1]]
    BY <1>3 DEF IsTurns
  <2>2. ASSUME NEW k \in 1 .. m PROVE h[k] = Arrays!Exchange(h[k - 1], i, k + i)
    <3>1. k - 1 \in 0 .. m - 1 /\ k - 1 \in 0 .. m /\ (k - 1) + 1 = k
      BY <1>2
    <3>2. h[k - 1] \in X
      BY <2>1, <3>1
    <3> HIDE DEF m, X
    <3>3. step[k - 1][h[k - 1]] = Arrays!Exchange(h[k - 1], i, ((k - 1) + 1) + i)
      BY <3>1, <3>2
    <3> QED BY <2>1, <3>1, <3>3
  <2> QED BY <2>1, <2>2
<1> DEFINE g == [j \in i .. n |-> h[j - i]]
<1>5. Fits(g)
  <2>1. ASSUME NEW j \in i .. n
        PROVE  h[j - i] = IF j = i THEN t ELSE Arrays!Exchange(g[j - 1], i, j)
    <3>1. CASE j = i
      BY <1>4, <3>1
    <3>2. CASE j # i
      <4>1. j - i \in 1 .. m /\ (j - i) + i = j /\ j - 1 \in i .. n /\ (j - i) - 1 = (j - 1) - i
        BY <1>2, <3>2
      <4>2. g[j - 1] = h[(j - 1) - i]
        BY <4>1
      <4>3. h[j - i] = Arrays!Exchange(h[(j - i) - 1], i, (j - i) + i)
        BY <1>4, <4>1
      <4> QED BY <3>2, <4>1, <4>2, <4>3
    <3> QED BY <3>1, <3>2
  <2> QED BY <2>1
<1>6. Fits(after)
  <2> HIDE DEF Fits, g
  <2> QED BY <1>5
<1> HIDE DEF after
<1>7. \A j \in i .. n : after[j] = IF j = i THEN t ELSE Arrays!Exchange(after[j - 1], i, j)
  BY <1>6
<1> DEFINE Fine(d) == /\ after[i + d] \in Texts(n)
                      /\ Moved(n, t, after[i + d], i)
                      /\ \A k \in i .. i + d : after[i + d][i] <= after[i + d][k]
           S == {d \in 0 .. m : Fine(d)}
<1>8. 0 \in S
  <2>1. i \in i .. n /\ i + 0 = i /\ 0 \in 0 .. m /\ t[i] \in Int
    BY <1>2 DEF Texts
  <2>2. after[i] = t
    BY <1>7, <2>1
  <2>3. Moved(n, t, t, i)
    BY MovedNot
  <2>4. \A k \in i .. i : t[i] <= t[k]
    BY <2>1
  <2> QED BY <2>1, <2>2, <2>3, <2>4
<1>9. ASSUME NEW d \in 0 .. m - 1, d \in S PROVE d + 1 \in S
  <2> DEFINE u == after[i + d]
             j == i + (d + 1)
             v == after[j]
  <2>1. j \in i + 1 .. n /\ j \in i .. n /\ j # i /\ j - 1 = i + d /\ d + 1 \in 0 .. m
    BY <1>2
  <2>2. v = Arrays!Exchange(u, i, j)
    BY <1>7, <2>1
  <2>3. u \in Texts(n) /\ Moved(n, t, u, i) /\ \A k \in i .. i + d : u[i] <= u[k]
    BY <1>9
  <2> HIDE DEF u, v
  <2>4. /\ v \in Texts(n) /\ Moved(n, u, v, i) /\ v[i] <= u[i] /\ v[i] <= v[j]
        /\ \A k \in 1 .. n : k # i /\ k # j => v[k] = u[k]
    BY SMTT(60), <2>1, <2>2, <2>3, ExchangeIs
  <2>5. Moved(n, t, v, i)
    BY <2>3, <2>4, MovedTwice
  <2>6. ASSUME NEW k \in i .. j PROVE v[i] <= v[k]
    <3>1. k \in 1 .. n /\ v[i] \in Int /\ u[i] \in Int
      BY <2>1, <2>3, <2>4 DEF Texts
    <3>2. CASE k = i
      BY <3>1, <3>2
    <3>3. CASE k = j
      BY <2>4, <3>3
    <3>4. CASE k # i /\ k # j
      <4>1. k \in i .. i + d
        BY <2>1, <3>4
      <4>2. u[i] <= u[k] /\ v[k] = u[k] /\ u[k] \in Int
        BY <2>3, <2>4, <3>1, <3>4, <4>1 DEF Texts
      <4> QED BY <2>4, <3>1, <4>2
    <3> QED BY <3>2, <3>3, <3>4
  <2>7. Fine(d + 1)
    BY <2>4, <2>5, <2>6 DEF v
  <2> QED BY <2>1, <2>7
<1>10. m \in S
  <2> HIDE DEF S, m
  <2>1. \A d \in 0 .. m : d \in S
    BY <1>2, <1>8, <1>9, UpTo
  <2> QED BY <1>2, <2>1
<1>11. Fine(m)
  BY <1>10
<1> HIDE DEF m
<1> QED BY <1>1, <1>2, <1>11


\* Its outer one exchanges characters until they ascend.
LEMMA SortIs ==
    ASSUME NEW s \in Seq(Int)
    PROVE  LET u == Arrays!sortString(s)
           IN  /\ u \in Texts(Len(s))
               /\ \A c : Occurs(c, u) = Occurs(c, s)
               /\ \A a, b \in 1 .. Len(s) : a <= b => u[a] <= u[b]
<1> DEFINE n == Len(s)
           Fits(f) == f = [i \in 0 .. Len(s) |-> IF i = 0 THEN s ELSE Arrays!settle(f[i - 1], i)]
           after == CHOOSE f : Fits(f)
           X == {t \in Texts(n) : Len(t) = n}
           step == [k \in 0 .. n - 1 |-> [u \in X |-> Arrays!settle(u, k + 1)]]
<1>1. Arrays!sortString(s) = after[n]
  BY DEF Arrays!sortString
<1>2. n \in Nat /\ s \in X /\ DOMAIN s = 1 .. n
  <2>1. n \in Nat /\ s \in [1 .. n -> Int] /\ DOMAIN s = 1 .. n
    BY LenProperties
  <2> QED BY <2>1 DEF Texts
<1> HIDE DEF n
<1>3. \A t \in Texts(n) : t \in X
  BY <1>2, FunctionIsSeq DEF Texts
<1>4. PICK h : IsTurns(h, n, X, step, s)
  <2>1. ASSUME NEW k \in 0 .. n - 1, NEW u \in X PROVE Arrays!settle(u, k + 1) \in X
    <3>1. k + 1 \in 1 .. n /\ u \in Texts(n) /\ Len(u) = n
      BY <1>2
    <3>2. Arrays!settle(u, k + 1) \in Texts(n)
      BY <1>2, <3>1, SettleIs
    <3> QED BY <1>3, <3>2
  <2>2. step \in [0 .. n - 1 -> [X -> X]]
    BY <2>1
  <2> HIDE DEF step, X
  <2> QED BY <1>2, <2>2, TurnsExist
<1>5. h \in [0 .. n -> X] /\ h[0] = s /\ \A k \in 1 .. n : h[k] = Arrays!settle(h[k - 1], k)
  <2>1. h \in [0 .. n -> X] /\ h[0] = s /\ \A k \in 1 .. n : h[k] = step[k - 1][h[k - 1]]
    BY <1>4 DEF IsTurns
  <2>2. ASSUME NEW k \in 1 .. n PROVE h[k] = Arrays!settle(h[k - 1], k)
    <3>1. k - 1 \in 0 .. n - 1 /\ k - 1 \in 0 .. n /\ (k - 1) + 1 = k
      BY <1>2
    <3>2. h[k - 1] \in X
      BY <2>1, <3>1
    <3> HIDE DEF X
    <3>3. step[k - 1][h[k - 1]] = Arrays!settle(h[k - 1], (k - 1) + 1)
      BY <3>1, <3>2
    <3> QED BY <2>1, <3>1, <3>3
  <2> QED BY <2>1, <2>2
<1>6. Fits(h)
  <2>1. h = [k \in 0 .. n |-> h[k]]
    BY <1>5
  <2>2. ASSUME NEW k \in 0 .. n PROVE h[k] = IF k = 0 THEN s ELSE Arrays!settle(h[k - 1], k)
    <3>1. k = 0 \/ k \in 1 .. n
      BY <1>2
    <3> QED BY <1>5, <3>1
  <2> QED BY <2>1, <2>2 DEF n
<1>7. Fits(after)
  <2> HIDE DEF Fits
  <2> QED BY <1>6
<1> HIDE DEF after
<1>8. \A i \in 0 .. n : after[i] = IF i = 0 THEN s ELSE Arrays!settle(after[i - 1], i)
  BY <1>7 DEF n
<1> DEFINE Fine(i) == /\ after[i] \in Texts(n)
                      /\ \A c : Occurs(c, after[i]) = Occurs(c, s)
                      /\ \A a \in 1 .. i : \A b \in a .. n : after[i][a] <= after[i][b]
           S == {i \in 0 .. n : Fine(i)}
<1>9. 0 \in S
  <2>1. 0 \in 0 .. n /\ after[0] = s
    BY <1>2, <1>8
  <2> QED BY <1>2, <2>1
<1>10. ASSUME NEW d \in 0 .. n - 1, d \in S PROVE d + 1 \in S
  <2> DEFINE u == after[d]
             i == d + 1
             v == after[i]
  <2>1. i \in 1 .. n /\ i \in 0 .. n /\ i # 0 /\ i - 1 = d /\ d \in 0 .. n
    BY <1>2
  <2>2. v = Arrays!settle(u, i)
    BY <1>8, <2>1
  <2>3. /\ u \in Texts(n) /\ Len(u) = n /\ \A c : Occurs(c, u) = Occurs(c, s)
        /\ \A a \in 1 .. d : \A b \in a .. n : u[a] <= u[b]
    BY <1>3, <1>10
  <2> HIDE DEF u, v
  <2>4. v \in Texts(n) /\ Moved(n, u, v, i) /\ \A k \in i .. n : v[i] <= v[k]
    BY <1>2, <2>1, <2>2, <2>3, SettleIs
  <2>5. ASSUME NEW c PROVE Occurs(c, v) = Occurs(c, s)
    <3>1. Occurs(c, v) = Occurs(c, u)
      BY <1>2, <2>1, <2>3, <2>4, MovedOccurs
    <3> QED BY <2>3, <3>1
  <2>6. PICK p : Moves(p, n, u, v, i)
    BY <2>4 DEF Moved
  <2>7. ASSUME NEW a \in 1 .. i, NEW b \in a .. n PROVE v[a] <= v[b]
    <3>1. CASE a = i
      BY <2>4, <3>1
    <3>2. CASE a # i
      <4>1. a \in 1 .. d /\ a \in 1 .. i - 1 /\ a \in 1 .. n /\ b \in 1 .. n
        BY <1>2, <2>1, <3>2
      <4>2. p[a] = a /\ v[a] = u[p[a]] /\ v[b] = u[p[b]]
        BY <2>6, <4>1 DEF Moves
      <4>3. p[b] \in a .. n
        <5>1. CASE b < i
          <6>1. b \in 1 .. i - 1
            BY <2>1, <4>1, <5>1
          <6>2. p[b] = b
            BY <2>6, <6>1 DEF Moves
          <6> QED BY <6>2
        <5>2. CASE ~(b < i)
          <6>1. b \in i .. n
            BY <2>1, <4>1, <5>2
          <6>2. p[b] \in i .. n
            BY <1>2, <2>1, <2>6, <6>1, MovedWithin
          <6> HIDE DEF i
          <6> QED BY <1>2, <2>1, <4>1, <6>2
        <5> QED BY <5>1, <5>2
      <4> QED BY <2>3, <4>1, <4>2, <4>3
    <3> QED BY <3>1, <3>2
  <2>8. Fine(i)
    BY <2>4, <2>5, <2>7 DEF v
  <2> QED BY <2>1, <2>8
<1>11. n \in S
  <2> HIDE DEF S
  <2>1. \A i \in 0 .. n : i \in S
    BY <1>2, <1>9, <1>10, UpTo
  <2> QED BY <1>2, <2>1
<1>12. Fine(n)
  BY <1>11
<1>13. \A a, b \in 1 .. n : a <= b => after[n][a] <= after[n][b]
  <2>1. \A a, b \in 1 .. n : a <= b => b \in a .. n
    BY <1>2
  <2> QED BY <1>12, <2>1
<1> QED BY <1>1, <1>12, <1>13 DEF n

\* Ascending texts with the same characters are the same: where they differ first, the
\* smaller character is less often in the text with the larger one.
Ascending(x) == x \in Seq(Int) /\ \A a, b \in 1 .. Len(x) : a <= b => x[a] <= x[b]
Agree(x, y, k) == k \in 1 .. Len(x) /\ k \in 1 .. Len(y) /\ x[k] = y[k]

LEMMA OccursLess ==
    ASSUME NEW x, NEW y, Ascending(x), Ascending(y), NEW k \in 1 .. Len(x),
           \A j \in 1 .. k - 1 : Agree(x, y, j),
           k \in 1 .. Len(y) => x[k] < y[k]
    PROVE  Occurs(x[k], y) # Occurs(x[k], x)
<1> DEFINE c == x[k]
           A == {j \in DOMAIN x : x[j] = c}
           B == {j \in DOMAIN y : y[j] = c}
<1>1. /\ Len(x) \in Nat /\ DOMAIN x = 1 .. Len(x) /\ \A j \in 1 .. Len(x) : x[j] \in Int
      /\ Len(y) \in Nat /\ DOMAIN y = 1 .. Len(y) /\ \A j \in 1 .. Len(y) : y[j] \in Int
  BY DEF Ascending
<1>2. k \in A
  BY <1>1
<1>3. B \subseteq A \ {k}
  <2> SUFFICES ASSUME NEW j \in B PROVE j \in A /\ j # k
    OBVIOUS
  <2>1. j \in 1 .. Len(y) /\ y[j] = c /\ c \in Int
    BY <1>1
  <2>2. CASE j >= k
    <3>1. k \in 1 .. Len(y) /\ k <= j
      BY <1>1, <2>1, <2>2
    <3>2. y[k] <= y[j] /\ x[k] < y[k]
      BY <2>1, <3>1 DEF Ascending
    <3>3. y[k] \in Int
      BY <1>1, <3>1
    <3> QED BY <2>1, <3>2, <3>3
  <2>3. CASE ~(j >= k)
    <3>1. j \in 1 .. k - 1 /\ j # k
      BY <1>1, <2>1, <2>3
    <3>2. j \in 1 .. Len(x) /\ x[j] = y[j]
      BY <3>1 DEF Agree
    <3> QED BY <1>1, <2>1, <3>1, <3>2
  <2> QED BY <2>2, <2>3
<1>4. IsFiniteSet(A)
  <2>1. A \subseteq 1 .. Len(x) /\ IsFiniteSet(1 .. Len(x))
    BY <1>1, FS_Interval
  <2> QED BY <2>1, FS_Subset
<1> HIDE DEF A, B
<1>5. IsFiniteSet(A \ {k}) /\ Cardinality(A \ {k}) = Cardinality(A) - 1 /\ Cardinality(A) \in Nat
  BY <1>2, <1>4, FS_RemoveElement, FS_CardinalityType
<1>6. IsFiniteSet(B) /\ Cardinality(B) <= Cardinality(A \ {k})
  BY <1>3, <1>5, FS_Subset
<1>7. Cardinality(B) \in Nat
  BY <1>6, FS_CardinalityType
<1>8. Cardinality(B) # Cardinality(A)
  BY <1>5, <1>6, <1>7
<1> QED BY <1>8 DEF A, B, Occurs

LEMMA AscendingIsOne ==
    ASSUME NEW x, NEW y, Ascending(x), Ascending(y), \A c : Occurs(c, x) = Occurs(c, y)
    PROVE  x = y
<1>1. /\ Len(x) \in Nat /\ x \in [1 .. Len(x) -> Int]
      /\ Len(y) \in Nat /\ y \in [1 .. Len(y) -> Int]
  BY LenProperties DEF Ascending
<1> DEFINE D == {k \in 1 .. Len(x) : ~Agree(x, y, k)} \cup {k \in 1 .. Len(y) : ~Agree(x, y, k)}
<1>2. CASE D = {}
  <2>1. \A k \in 1 .. Len(x) : Agree(x, y, k)
    BY <1>2
  <2>2. \A k \in 1 .. Len(y) : Agree(x, y, k)
    BY <1>2
  <2>3. 1 .. Len(x) = 1 .. Len(y)
    BY <2>1, <2>2 DEF Agree
  <2>4. \A k \in 1 .. Len(x) : x[k] = y[k]
    BY <2>1 DEF Agree
  <2>5. y \in [1 .. Len(x) -> Int]
    BY <1>1, <2>3
  <2> QED BY <1>1, <2>4, <2>5
<1>3. CASE D # {}
  <2>1. D \in SUBSET Nat
    BY <1>1
  <2>2. PICK k \in D : \A j \in D : k <= j
    <3> HIDE DEF D
    <3> QED BY <1>3, <2>1, MinIs
  <2>3. k \in Nat /\ k >= 1 /\ ~Agree(x, y, k) /\ (k \in 1 .. Len(x) \/ k \in 1 .. Len(y))
    BY <1>1
  <2>4. ASSUME NEW j \in 1 .. k - 1 PROVE Agree(x, y, j) /\ Agree(y, x, j)
    <3>1. j \notin D
      <4>1. ~(k <= j)
        BY <2>3
      <4> QED BY <2>2, <4>1
    <3>2. j \in 1 .. Len(x) \/ j \in 1 .. Len(y)
      BY <1>1, <2>3
    <3>3. Agree(x, y, j)
      BY <3>1, <3>2
    <3> QED BY <3>3 DEF Agree
  <2>5. CASE k \notin 1 .. Len(y)
    <3>1. k \in 1 .. Len(x)
      BY <2>3, <2>5
    <3>2. Occurs(x[k], y) # Occurs(x[k], x)
      BY <2>4, <2>5, <3>1, OccursLess
    <3> QED BY <3>2
  <2>6. CASE k \notin 1 .. Len(x)
    <3>1. k \in 1 .. Len(y)
      BY <2>3, <2>6
    <3>2. Occurs(y[k], x) # Occurs(y[k], y)
      BY <2>4, <2>6, <3>1, OccursLess
    <3> QED BY <3>2
  <2>7. CASE k \in 1 .. Len(x) /\ k \in 1 .. Len(y)
    <3>1. x[k] # y[k] /\ x[k] \in Int /\ y[k] \in Int
      BY <1>1, <2>3, <2>7 DEF Agree
    <3>2. CASE x[k] < y[k]
      BY <2>4, <2>7, <3>2, OccursLess
    <3>3. CASE y[k] < x[k]
      BY <2>4, <2>7, <3>3, OccursLess
    <3> QED BY <3>1, <3>2, <3>3
  <2> QED BY <2>5, <2>6, <2>7
<1> QED BY <1>2, <1>3


\* The hash value with one more character c.
Grown(value, c) == (33 * value + c) % (ULONG_MAX + 1)

LEMMA GrownType == ASSUME NEW value \in Int, NEW c \in Int PROVE Grown(value, c) \in Int
<1>1. ULONG_MAX + 1 \in Nat \ {0} /\ 33 * value + c \in Int
  BY InputAssumption
<1> DEFINE sum == 33 * value + c
<1> HIDE DEF sum
<1>2. \A d \in Nat \ {0}, y \in Int : y % d \in Int
  OBVIOUS
<1>3. sum % (ULONG_MAX + 1) \in Int
  BY <1>1, <1>2 DEF sum
<1> QED BY <1>3 DEF Grown, sum

LEMMA HashInRange == ASSUME NEW key \in Seq(Int) PROVE Arrays!hash(key) \in 0 .. TABLE_SIZE - 1
<1> DEFINE n == Len(key)
           Fits(f) == f = [k \in 0 .. Len(key) |-> IF k = 0 THEN 5381 ELSE Grown(f[k - 1], key[k])]
           value == CHOOSE f : Fits(f)
           X == Int
           first == 5381
           step == [k \in 0 .. n - 1 |-> [x \in Int |-> Grown(x, key[k + 1])]]
<1>1. Arrays!hash(key) = value[n] % TABLE_SIZE
  BY DEF Arrays!hash, Grown
<1>2. n \in Nat /\ \A k \in 1 .. n : key[k] \in Int
  OBVIOUS
<1>3. PICK h : IsTurns(h, n, X, step, first)
  <2>1. ASSUME NEW k \in 0 .. n - 1, NEW x \in Int PROVE Grown(x, key[k + 1]) \in Int
    <3>1. key[k + 1] \in Int
      BY <1>2
    <3> QED BY <3>1, GrownType
  <2>2. step \in [0 .. n - 1 -> [X -> X]] /\ first \in X
    BY <2>1
  <2> HIDE DEF n, step, X, first
  <2> QED BY <1>2, <2>2, TurnsExist
<1>4. h \in [0 .. n -> Int] /\ h[0] = 5381 /\ \A k \in 1 .. n : h[k] = Grown(h[k - 1], key[k])
  <2>1. h \in [0 .. n -> Int] /\ h[0] = 5381 /\ \A k \in 1 .. n : h[k] = step[k - 1][h[k - 1]]
    <3>1. h \in [0 .. n -> X] /\ h[0] = first /\ \A k \in 1 .. n : h[k] = step[k - 1][h[k - 1]]
      <4> HIDE DEF n, step, X, first
      <4> QED BY <1>3 DEF IsTurns
    <3> HIDE DEF n, step
    <3> QED BY <3>1
  <2>2. ASSUME NEW k \in 1 .. n PROVE h[k] = Grown(h[k - 1], key[k])
    <3>1. k - 1 \in 0 .. n - 1 /\ k - 1 \in 0 .. n /\ (k - 1) + 1 = k
      BY <1>2
    <3>2. h[k - 1] \in Int
      <4> HIDE DEF n, step
      <4> QED BY <2>1, <3>1
    <3>3. step[k - 1][h[k - 1]] = Grown(h[k - 1], key[(k - 1) + 1])
      BY <3>1, <3>2
    <3> HIDE DEF step
    <3> QED BY <2>1, <3>1, <3>3
  <2> QED BY <2>1, <2>2
<1>5. Fits(h)
  <2> DEFINE g == [k \in 0 .. n |-> IF k = 0 THEN 5381 ELSE Grown(h[k - 1], key[k])]
  <2>1. h = [k \in 0 .. n |-> h[k]] /\ g = [k \in 0 .. n |-> g[k]]
    BY <1>4
  <2>2. ASSUME NEW k \in 0 .. n PROVE h[k] = g[k]
    <3>1. g[k] = IF k = 0 THEN 5381 ELSE Grown(h[k - 1], key[k])
      OBVIOUS
    <3>2. k = 0 \/ k \in 1 .. n
      BY <1>2
    <3> HIDE DEF g, n
    <3> QED BY <1>4, <3>1, <3>2
  <2> HIDE DEF g
  <2>3. h = g
    BY <2>1, <2>2
  <2> QED BY Zenon, <2>3 DEF g
<1>6. Fits(value)
  <2> HIDE DEF Fits
  <2> QED BY <1>5
<1> HIDE DEF value
<1>7. \A k \in 0 .. n : value[k] = IF k = 0 THEN 5381 ELSE Grown(value[k - 1], key[k])
  BY Zenon, <1>6
<1> DEFINE S == {k \in 0 .. n : value[k] \in Int}
<1>8. 0 \in S
  <2>1. 0 \in 0 .. n
    BY <1>2
  <2> QED BY <1>7, <2>1
<1>9. ASSUME NEW k \in 0 .. n - 1, k \in S PROVE k + 1 \in S
  <2>1. k + 1 \in 0 .. n /\ k + 1 # 0 /\ (k + 1) - 1 = k /\ key[k + 1] \in Int
    BY <1>2
  <2>2. value[k + 1] = Grown(value[k], key[k + 1]) /\ value[k] \in Int
    BY <1>7, <1>9, <2>1
  <2> QED BY <2>1, <2>2, GrownType
<1>10. value[n] \in Int
  <2> HIDE DEF S, n
  <2>1. \A k \in 0 .. n : k \in S
    BY <1>2, <1>8, <1>9, UpTo
  <2> QED BY <1>2, <2>1 DEF S
<1>11. value[n] % TABLE_SIZE \in 0 .. TABLE_SIZE - 1
  BY <1>10, InputAssumption
<1> QED BY <1>1, <1>11

\* The bucket of a word, and the same one for its anagrams.
Bucket(w) == Arrays!hash(Arrays!sortString(w))

LEMMA KeyType == ASSUME NEW w \in Seq(Int) PROVE Ascending(Arrays!sortString(w)) /\ Bucket(w) \in 0 .. TABLE_SIZE - 1
<1> DEFINE u == Arrays!sortString(w)
<1>1. /\ Len(w) \in Nat /\ u \in Texts(Len(w))
      /\ \A a, b \in 1 .. Len(w) : a <= b => u[a] <= u[b]
  BY SortIs
<1> HIDE DEF u
<1>2. u \in Seq(Int) /\ Len(u) = Len(w)
  BY <1>1, FunctionIsSeq DEF Texts
<1>3. Ascending(u)
  BY <1>1, <1>2 DEF Ascending
<1>4. Arrays!hash(u) \in 0 .. TABLE_SIZE - 1
  BY <1>2, HashInRange
<1> QED BY <1>3, <1>4 DEF u, Bucket

LEMMA AnagramsMeet ==
    ASSUME NEW u \in Seq(Int), NEW w \in Seq(Int),
           \A c \in Arrays!ToSet(u) \cup Arrays!ToSet(w) : Occurs(c, u) = Occurs(c, w)
    PROVE  Bucket(u) = Bucket(w)
<1>1. ASSUME NEW t \in Seq(Int), NEW c, c \notin Arrays!ToSet(t) PROVE Occurs(c, t) = 0
  <2>1. {k \in DOMAIN t : t[k] = c} = {}
    BY <1>1 DEF Arrays!ToSet
  <2> QED BY <2>1, FS_EmptySet DEF Occurs
<1>2. \A c : Occurs(c, u) = Occurs(c, w)
  BY <1>1
<1>3. \A c : Occurs(c, Arrays!sortString(u)) = Occurs(c, Arrays!sortString(w))
  BY <1>2, SortIs
<1>4. Arrays!sortString(u) = Arrays!sortString(w)
  BY <1>3, KeyType, AscendingIsOne
<1> QED BY <1>4 DEF Bucket

\* Words with one key are anagrams.
LEMMA KeyTells ==
    ASSUME NEW u \in Seq(Int), NEW w \in Seq(Int), Arrays!sortString(u) = Arrays!sortString(w)
    PROVE  \A c : Occurs(c, u) = Occurs(c, w)
<1>1. ASSUME NEW s \in Seq(Int) PROVE \A c : Occurs(c, Arrays!sortString(s)) = Occurs(c, s)
  BY SortIs
<1> QED BY <1>1

\* A word in front of a bucket is in it once more.
LEMMA OccursPushed ==
    ASSUME NEW X, NEW e \in Seq(X), NEW x \in X, NEW w
    PROVE  Occurs(w, <<x>> \o e) = IF w = x THEN Occurs(w, e) + 1 ELSE Occurs(w, e)
<1> DEFINE d == <<x>> \o e
           A == {k \in DOMAIN e : e[k] = w}
           B == {k \in DOMAIN d : d[k] = w}
           C == B \ {1}
           f == [k \in A |-> k + 1]
<1>1. /\ Len(e) \in Nat /\ DOMAIN e = 1 .. Len(e) /\ d \in Seq(X) /\ Len(d) = Len(e) + 1 /\ DOMAIN d = 1 .. Len(e) + 1
      /\ \A j \in 1 .. Len(e) + 1 : d[j] = IF j = 1 THEN x ELSE e[j - 1]
  BY FrontFacts, LenProperties
<1> HIDE DEF d
<1>2. f \in [A -> C] /\ \A k, m \in A : f[k] = f[m] => k = m
  <2>1. ASSUME NEW k \in A PROVE k + 1 \in C /\ k \in Nat
    <3>1. k \in 1 .. Len(e) /\ e[k] = w
      BY <1>1
    <3>2. k + 1 \in 1 .. Len(e) + 1 /\ k + 1 # 1 /\ (k + 1) - 1 = k
      BY <1>1, <3>1
    <3> QED BY <1>1, <3>1, <3>2
  <2> HIDE DEF A, C
  <2> QED BY <2>1
<1>3. \A m \in C : \E k \in A : f[k] = m
  <2> SUFFICES ASSUME NEW m \in C PROVE \E k \in A : f[k] = m
    OBVIOUS
  <2>1. m \in 1 .. Len(e) + 1 /\ m # 1 /\ d[m] = w
    BY <1>1
  <2>2. m - 1 \in 1 .. Len(e) /\ (m - 1) + 1 = m
    BY <1>1, <2>1
  <2>3. m - 1 \in A
    BY <1>1, <2>1, <2>2
  <2> QED BY <2>2, <2>3
<1>4. IsFiniteSet(A) /\ IsFiniteSet(B)
  <2>1. A \subseteq 1 .. Len(e) /\ B \subseteq 1 .. Len(e) + 1
    BY <1>1
  <2>2. IsFiniteSet(1 .. Len(e)) /\ IsFiniteSet(1 .. Len(e) + 1)
    BY <1>1, FS_Interval
  <2> QED BY <2>1, <2>2, FS_Subset
<1>5. 1 \in B <=> w = x
  <2>1. 1 \in 1 .. Len(e) + 1
    BY <1>1
  <2> QED BY <1>1, <2>1
<1> HIDE DEF f, A, B
<1>6. f \in Bijection(A, C)
  BY <1>2, <1>3 DEF Bijection, Injection, Surjection, IsInjective
<1>7. Cardinality(C) = Cardinality(A) /\ Cardinality(A) \in Nat
  BY <1>4, <1>6, FS_Bijection, FS_CardinalityType DEF ExistsBijection
<1>8. Cardinality(C) = (IF 1 \in B THEN Cardinality(B) - 1 ELSE Cardinality(B)) /\ Cardinality(B) \in Nat
  BY <1>4, FS_RemoveElement, FS_CardinalityType
<1>9. Cardinality(B) = IF w = x THEN Cardinality(A) + 1 ELSE Cardinality(A)
  BY <1>5, <1>7, <1>8
<1> QED BY <1>9 DEF A, B, d, Occurs


\* The table of groupAnagrams after the first n words: a bucket has the words that hash to
\* it, each as often as they have it.
Tables == [0 .. TABLE_SIZE - 1 -> Seq(Seq(Int))]
Among(w, strs, n) == Cardinality({m \in 1 .. n : strs[m] = w})
Holds(T, strs, n) ==
    /\ T \in Tables
    /\ \A b \in 0 .. TABLE_SIZE - 1 : \A k \in 1 .. Len(T[b]) :
           Bucket(T[b][k]) = b /\ \E m \in 1 .. n : strs[m] = T[b][k]
    /\ \A w \in Seq(Int) : Occurs(w, T[Bucket(w)]) = Among(w, strs, n)

LEMMA AmongIs ==
    ASSUME NEW strs \in Seq(Seq(Int)), NEW n \in 0 .. Len(strs) - 1, NEW w
    PROVE  Among(w, strs, n + 1) = IF w = strs[n + 1] THEN Among(w, strs, n) + 1 ELSE Among(w, strs, n)
<1> DEFINE A == {m \in 1 .. n : strs[m] = w}
           B == {m \in 1 .. n + 1 : strs[m] = w}
<1>1. n \in Nat /\ n + 1 \in Nat
  OBVIOUS
<1>2. IsFiniteSet(A) /\ n + 1 \notin A
  <2>1. IsFiniteSet(1 .. n)
    BY <1>1, FS_Interval
  <2> QED BY <1>1, <2>1, FS_Subset
<1>3. CASE w = strs[n + 1]
  <2>1. B = A \cup {n + 1}
    BY <1>1, <1>3
  <2> HIDE DEF A, B
  <2>2. Cardinality(B) = Cardinality(A) + 1
    BY <1>2, <2>1, FS_AddElement
  <2> QED BY <1>3, <2>2 DEF Among, A, B
<1>4. CASE w # strs[n + 1]
  <2>1. B = A
    BY <1>1, <1>4
  <2> QED BY <1>4, <2>1 DEF Among
<1> QED BY <1>3, <1>4

LEMMA InsertHolds ==
    ASSUME NEW strs \in Seq(Seq(Int)), NEW n \in 0 .. Len(strs) - 1, NEW T, Holds(T, strs, n)
    PROVE  Holds([T EXCEPT ![Bucket(strs[n + 1])] = <<strs[n + 1]>> \o @], strs, n + 1)
<1> DEFINE v == strs[n + 1]
           c == Bucket(v)
           U == [T EXCEPT ![c] = <<v>> \o @]
           B == 0 .. TABLE_SIZE - 1
<1>1. n \in Nat /\ n + 1 \in 1 .. Len(strs) /\ v \in Seq(Int)
  OBVIOUS
<1>2. c \in B /\ T \in [B -> Seq(Seq(Int))]
  BY <1>1, KeyType DEF Holds, Tables
<1>3. T[c] \in Seq(Seq(Int))
  BY <1>2
<1>4. /\ <<v>> \o T[c] \in Seq(Seq(Int)) /\ Len(<<v>> \o T[c]) = Len(T[c]) + 1
      /\ \A j \in 1 .. Len(T[c]) + 1 : (<<v>> \o T[c])[j] = IF j = 1 THEN v ELSE T[c][j - 1]
  <2> HIDE DEF v, c
  <2> QED BY <1>1, <1>3, FrontFacts
<1> HIDE DEF v, c
<1>5. U \in [B -> Seq(Seq(Int))] /\ U[c] = <<v>> \o T[c] /\ \A b \in B : b # c => U[b] = T[b]
  BY <1>2, <1>4
<1> HIDE DEF U, B
<1>6. ASSUME NEW b \in B, NEW k \in 1 .. Len(U[b])
      PROVE  Bucket(U[b][k]) = b /\ \E m \in 1 .. n + 1 : strs[m] = U[b][k]
  <2>1. \A m \in 1 .. n : m \in 1 .. n + 1
    BY <1>1
  <2>2. CASE b # c
    <3>1. U[b] = T[b]
      BY <1>5, <2>2
    <3>2. Bucket(T[b][k]) = b /\ \E m \in 1 .. n : strs[m] = T[b][k]
      BY <3>1 DEF Holds, B
    <3> QED BY <2>1, <3>1, <3>2
  <2>3. CASE b = c /\ k = 1
    <3>1. U[b][k] = v
      <4>1. Len(T[c]) \in Nat
        BY <1>3, LenProperties
      <4>2. 1 \in 1 .. Len(T[c]) + 1
        BY <4>1
      <4> QED BY <1>4, <1>5, <2>3, <4>2
    <3>2. n + 1 \in 1 .. n + 1
      BY <1>1
    <3> QED BY <2>3, <3>1, <3>2 DEF v, c
  <2>4. CASE b = c /\ k # 1
    <3>1. Len(T[c]) \in Nat
      BY <1>3, LenProperties
    <3>2. k \in 1 .. Len(T[c]) + 1
      BY <1>4, <1>5, <2>4
    <3>3. k - 1 \in 1 .. Len(T[c])
      BY <2>4, <3>1, <3>2
    <3>4. U[b][k] = T[c][k - 1]
      BY <1>4, <1>5, <2>4, <3>2
    <3>5. Bucket(T[c][k - 1]) = c /\ \E m \in 1 .. n : strs[m] = T[c][k - 1]
      BY <1>2, <3>3 DEF Holds, B
    <3> QED BY <2>1, <2>4, <3>4, <3>5
  <2> QED BY <2>2, <2>3, <2>4
<1>7. ASSUME NEW w \in Seq(Int) PROVE Occurs(w, U[Bucket(w)]) = Among(w, strs, n + 1)
  <2>1. Bucket(w) \in B /\ Occurs(w, T[Bucket(w)]) = Among(w, strs, n)
    BY KeyType DEF Holds, B
  <2>2. Among(w, strs, n + 1) = IF w = v THEN Among(w, strs, n) + 1 ELSE Among(w, strs, n)
    BY AmongIs DEF v
  <2>3. CASE Bucket(w) # c
    <3>1. w # v
      BY <2>3 DEF c
    <3>2. U[Bucket(w)] = T[Bucket(w)]
      BY <1>5, <2>1, <2>3
    <3> QED BY <2>1, <2>2, <3>1, <3>2
  <2>4. CASE Bucket(w) = c
    <3>1. Occurs(w, <<v>> \o T[c]) = IF w = v THEN Occurs(w, T[c]) + 1 ELSE Occurs(w, T[c])
      BY <1>1, <1>3, OccursPushed
    <3> QED BY <1>5, <2>1, <2>2, <2>4, <3>1
  <2> QED BY <2>3, <2>4
<1>8. Holds(U, strs, n + 1)
  BY <1>5, <1>6, <1>7 DEF Holds, Tables, B
<1> QED BY <1>8 DEF U, c, v

LEMMA GroupsAre ==
    ASSUME NEW strs \in Seq(Seq(Int))
    PROVE  \E T : /\ Holds(T, strs, Len(strs))
                  /\ Arrays!groupAnagrams(strs) = {T[b] : b \in {d \in 0 .. TABLE_SIZE - 1 : T[d] # <<>>}}
<1> DEFINE n == Len(strs)
           Fits(f) == f = [k \in 0 .. Len(strs) |->
                             IF k = 0 THEN [b \in 0 .. TABLE_SIZE - 1 |-> <<>>]
                             ELSE [f[k - 1] EXCEPT
                                       ![Arrays!hash(Arrays!sortString(strs[k]))] = <<strs[k]>> \o @]]
           table == CHOOSE f : Fits(f)
           empty == [b \in 0 .. TABLE_SIZE - 1 |-> <<>>]
           step == [k \in 0 .. n - 1 |->
                      [T \in Tables |-> [T EXCEPT ![Bucket(strs[k + 1])] = <<strs[k + 1]>> \o @]]]
<1>1. Arrays!groupAnagrams(strs) = {bucket \in Arrays!Range(table[n]) : bucket # <<>>}
  BY DEF Arrays!groupAnagrams
<1>2. n \in Nat /\ \A k \in 1 .. n : strs[k] \in Seq(Int)
  OBVIOUS
<1>3. empty \in Tables
  BY DEF Tables
<1> HIDE DEF empty
<1>4. PICK h : IsTurns(h, n, Tables, step, empty)
  <2>1. ASSUME NEW k \in 0 .. n - 1, NEW T \in Tables
        PROVE  [T EXCEPT ![Bucket(strs[k + 1])] = <<strs[k + 1]>> \o @] \in Tables
    <3>1. strs[k + 1] \in Seq(Int)
      BY <1>2
    <3> DEFINE c == Bucket(strs[k + 1])
    <3>2. c \in 0 .. TABLE_SIZE - 1
      BY <3>1, KeyType
    <3> HIDE DEF c
    <3>3. T[c] \in Seq(Seq(Int))
      BY <3>2 DEF Tables
    <3>4. <<strs[k + 1]>> \o T[c] \in Seq(Seq(Int))
      BY <3>1, <3>3, FrontFacts
    <3> QED BY <3>2, <3>4 DEF Tables, c
  <2>2. step \in [0 .. n - 1 -> [Tables -> Tables]]
    BY <2>1
  <2> HIDE DEF n, step
  <2> QED BY <1>2, <1>3, <2>2, TurnsExist
<1>5. /\ h \in [0 .. n -> Tables] /\ h[0] = empty
      /\ \A k \in 1 .. n : h[k] = [h[k - 1] EXCEPT ![Bucket(strs[k])] = <<strs[k]>> \o @]
  <2>1. h \in [0 .. n -> Tables] /\ h[0] = empty /\ \A k \in 1 .. n : h[k] = step[k - 1][h[k - 1]]
    BY <1>4 DEF IsTurns
  <2>2. ASSUME NEW k \in 1 .. n PROVE h[k] = [h[k - 1] EXCEPT ![Bucket(strs[k])] = <<strs[k]>> \o @]
    <3>1. k - 1 \in 0 .. n - 1 /\ k - 1 \in 0 .. n /\ (k - 1) + 1 = k
      BY <1>2
    <3>2. h[k - 1] \in Tables
      BY <2>1, <3>1
    <3>3. step[k - 1][h[k - 1]]
              = [h[k - 1] EXCEPT ![Bucket(strs[(k - 1) + 1])] = <<strs[(k - 1) + 1]>> \o @]
      BY <3>1, <3>2
    <3> HIDE DEF step
    <3> QED BY <2>1, <3>1, <3>3
  <2> QED BY <2>1, <2>2
<1>6. Fits(h)
  <2>1. h = [k \in 0 .. n |-> h[k]]
    BY <1>5
  <2>2. ASSUME NEW k \in 0 .. n
        PROVE  h[k] = IF k = 0 THEN empty ELSE [h[k - 1] EXCEPT ![Bucket(strs[k])] = <<strs[k]>> \o @]
    <3>1. k = 0 \/ k \in 1 .. n
      BY <1>2
    <3> QED BY <1>5, <3>1
  <2> QED BY <2>1, <2>2 DEF empty, Bucket
<1>7. Fits(table)
  <2> HIDE DEF Fits
  <2> QED BY <1>6
<1> HIDE DEF table
<1>8. \A k \in 0 .. n :
          table[k] = IF k = 0 THEN empty ELSE [table[k - 1] EXCEPT ![Bucket(strs[k])] = <<strs[k]>> \o @]
  BY <1>7 DEF empty, Bucket
<1> DEFINE S == {k \in 0 .. n : Holds(table[k], strs, k)}
<1>9. 0 \in S
  <2>0. 0 \in 0 .. n
    BY <1>2
  <2>1. 0 \in 0 .. n /\ table[0] = empty
    <3> HIDE DEF n
    <3> QED BY <1>8, <2>0
  <2>2. \A b \in 0 .. TABLE_SIZE - 1 : empty[b] = <<>> /\ Len(empty[b]) = 0 /\ DOMAIN empty[b] = {}
    BY DEF empty
  <2>3. ASSUME NEW w \in Seq(Int) PROVE Occurs(w, empty[Bucket(w)]) = Among(w, strs, 0)
    <3>1. Bucket(w) \in 0 .. TABLE_SIZE - 1
      BY KeyType
    <3>2. {k \in DOMAIN empty[Bucket(w)] : empty[Bucket(w)][k] = w} = {}
      BY <2>2, <3>1
    <3>3. {m \in 1 .. 0 : strs[m] = w} = {}
      OBVIOUS
    <3> QED BY <3>2, <3>3 DEF Occurs, Among
  <2>4. \A b \in 0 .. TABLE_SIZE - 1 : 1 .. Len(empty[b]) = {}
    BY <2>2
  <2>5. Holds(empty, strs, 0)
    BY <1>3, <2>3, <2>4 DEF Holds
  <2> QED BY <2>1, <2>5
<1>10. ASSUME NEW k \in 0 .. n - 1, k \in S PROVE k + 1 \in S
  <2>1. k + 1 \in 0 .. n /\ k + 1 # 0 /\ (k + 1) - 1 = k
    BY <1>2
  <2>2. table[k + 1] = [table[k] EXCEPT ![Bucket(strs[k + 1])] = <<strs[k + 1]>> \o @]
    BY <1>8, <2>1
  <2>3. Holds(table[k], strs, k)
    BY <1>10
  <2>4. Holds([table[k] EXCEPT ![Bucket(strs[k + 1])] = <<strs[k + 1]>> \o @], strs, k + 1)
    <3> HIDE DEF S, n
    <3> QED BY <2>3, InsertHolds DEF n
  <2>5. Holds(table[k + 1], strs, k + 1)
    BY <2>2, <2>4
  <2> QED BY <2>1, <2>5
<1>11. Holds(table[n], strs, n)
  <2> HIDE DEF S, n
  <2>1. \A k \in 0 .. n : k \in S
    BY <1>2, <1>9, <1>10, UpTo
  <2> QED BY <1>2, <2>1 DEF S
<1>12. DOMAIN table[n] = 0 .. TABLE_SIZE - 1
  BY <1>11 DEF Holds, Tables
<1>13. Arrays!Range(table[n]) = {table[n][b] : b \in 0 .. TABLE_SIZE - 1}
  BY <1>12 DEF Arrays!Range
<1> QED BY <1>1, <1>11, <1>13

\* src/49.c: every word is in one group and in no other, as often as in the array, and no
\* other word is; anagrams are in one group, and only they are if no two keys hash alike.
LEMMA AnagramsCorrect ==
    ASSUME NEW strs \in Seq(Seq(Int))
    PROVE  Arrays!AnagramsTogether(strs)
<1> DEFINE groups == Arrays!groupAnagrams(strs)
           n == Len(strs)
           B == 0 .. TABLE_SIZE - 1
<1>1. n \in Nat /\ DOMAIN strs = 1 .. n /\ \A k \in 1 .. n : strs[k] \in Seq(Int)
  BY LenProperties
<1>2. PICK T : Holds(T, strs, n) /\ groups = {T[b] : b \in {d \in B : T[d] # <<>>}}
  BY GroupsAre
<1> HIDE DEF groups, n
<1>3. \A b \in B : T[b] \in Seq(Seq(Int)) /\ DOMAIN T[b] = 1 .. Len(T[b])
  <2>1. \A b \in B : T[b] \in Seq(Seq(Int))
    BY <1>2 DEF Holds, Tables
  <2> QED BY <2>1, LenProperties
<1>4. ASSUME NEW b \in B, NEW w \in Arrays!ToSet(T[b])
      PROVE  w \in Seq(Int) /\ Bucket(w) = b /\ w \in Arrays!ToSet(strs)
  <2>1. PICK k \in 1 .. Len(T[b]) : w = T[b][k]
    BY <1>3 DEF Arrays!ToSet
  <2>2. Bucket(w) = b /\ \E m \in 1 .. n : strs[m] = w
    BY <1>2, <2>1 DEF Holds
  <2> QED BY <1>1, <2>2 DEF Arrays!ToSet
<1>5. ASSUME NEW w \in Arrays!ToSet(strs)
      PROVE  \E g \in groups : Occurs(w, g) = Occurs(w, strs) /\ \A h \in groups \ {g} : w \notin Arrays!ToSet(h)
  <2>1. PICK m \in 1 .. n : strs[m] = w
    BY <1>1 DEF Arrays!ToSet
  <2>2. w \in Seq(Int) /\ Bucket(w) \in B
    BY <1>1, <2>1, KeyType
  <2> DEFINE g == T[Bucket(w)]
  <2>3. Occurs(w, g) = Occurs(w, strs)
    <3>1. Occurs(w, g) = Among(w, strs, n)
      BY <1>2, <2>2 DEF Holds
    <3> QED BY <1>1, <3>1 DEF Occurs, Among
  <2>4. g # <<>>
    <3> SUFFICES ASSUME g = <<>> PROVE FALSE
      OBVIOUS
    <3>1. {k \in DOMAIN g : g[k] = w} = {}
      OBVIOUS
    <3>2. Occurs(w, g) = 0
      BY <3>1, FS_EmptySet DEF Occurs
    <3> DEFINE A == {k \in DOMAIN strs : strs[k] = w}
    <3>3. m \in A /\ A \subseteq 1 .. n
      BY <1>1, <2>1
    <3>4. IsFiniteSet(A)
      BY <1>1, <3>3, FS_Interval, FS_Subset
    <3>5. Cardinality(A) # 0
      <4> HIDE DEF A
      <4> QED BY <3>3, <3>4, FS_EmptySet
    <3> QED BY <2>3, <3>2, <3>5 DEF Occurs
  <2>5. g \in groups
    BY <1>2, <2>2, <2>4
  <2>6. ASSUME NEW h \in groups \ {g}, w \in Arrays!ToSet(h) PROVE FALSE
    <3>1. PICK b \in B : h = T[b]
      BY <1>2
    <3>2. Bucket(w) = b
      BY <1>4, <2>6, <3>1
    <3> QED BY <3>1, <3>2
  <2> QED BY <2>3, <2>5, <2>6
<1>6. ASSUME NEW g \in groups, NEW h \in groups, NEW u \in Arrays!ToSet(g), NEW w \in Arrays!ToSet(h)
      PROVE  /\ u \in Arrays!ToSet(strs)
             /\ (\A c \in Arrays!ToSet(u) \cup Arrays!ToSet(w) : Occurs(c, u) = Occurs(c, w)) => g = h
  <2>1. PICK b \in B : g = T[b]
    BY <1>2
  <2>2. PICK d \in B : h = T[d]
    BY <1>2
  <2>3. /\ u \in Seq(Int) /\ Bucket(u) = b /\ u \in Arrays!ToSet(strs)
        /\ w \in Seq(Int) /\ Bucket(w) = d
    BY <1>4, <2>1, <2>2
  <2>4. ASSUME \A c \in Arrays!ToSet(u) \cup Arrays!ToSet(w) : Occurs(c, u) = Occurs(c, w) PROVE g = h
    <3>1. Bucket(u) = Bucket(w)
      BY <2>3, <2>4, AnagramsMeet
    <3> QED BY <2>1, <2>2, <2>3, <3>1
  <2> QED BY <2>3, <2>4
<1>7. \A w, s : Arrays!Times(w, s) = Occurs(w, s)
  BY SameCardinality DEF Arrays!Times, Occurs
<1>8. \A u, w : Arrays!Anagrams(u, w) <=>
          \A c \in Arrays!ToSet(u) \cup Arrays!ToSet(w) : Occurs(c, u) = Occurs(c, w)
  BY <1>7 DEF Arrays!Anagrams
<1>9. ASSUME Arrays!KeysApart(strs) PROVE Arrays!OnlyAnagrams(strs)
  <2>1. ASSUME NEW g \in groups, NEW u \in Arrays!ToSet(g), NEW w \in Arrays!ToSet(g)
        PROVE  Arrays!Anagrams(u, w)
    <3>1. PICK b \in B : g = T[b]
      BY <1>2
    <3>2. /\ u \in Seq(Int) /\ Bucket(u) = b /\ u \in Arrays!ToSet(strs)
          /\ w \in Seq(Int) /\ Bucket(w) = b /\ w \in Arrays!ToSet(strs)
      BY <1>4, <3>1
    <3>3. Arrays!sortString(u) = Arrays!sortString(w)
      BY <1>9, <3>2 DEF Arrays!KeysApart, Bucket
    <3> QED BY <1>8, <3>2, <3>3, KeyTells
  <2> QED BY <2>1 DEF Arrays!OnlyAnagrams, groups
<1>10. Arrays!AnagramsTogether(strs) <=>
          /\ \A w \in Arrays!ToSet(strs) : \E g \in groups :
                 /\ Arrays!Times(w, g) = Arrays!Times(w, strs)
                 /\ \A h \in groups \ {g} : w \notin Arrays!ToSet(h)
          /\ \A g, h \in groups : \A u \in Arrays!ToSet(g), w \in Arrays!ToSet(h) :
                 u \in Arrays!ToSet(strs) /\ (Arrays!Anagrams(u, w) => g = h)
          /\ Arrays!KeysApart(strs) => Arrays!OnlyAnagrams(strs)
  BY DEF Arrays!AnagramsTogether, groups
<1> QED BY <1>5, <1>6, <1>7, <1>8, <1>9, <1>10

-----------------------------------------------------------------------------
\* The functions of 1.c, 217.c, 20.c, 387.c, 1143.c and 49.c return what is asked for,
\* whatever their input.
THEOREM AnswersCorrect == InputSpec => []AnswersAreRight
<1>1. InputInit => AnswersAreRight
  <2>1. ASSUME kind = "array", InputInit PROVE AnswersAreRight
    <3>1. input \in Seq(Int)
      BY <2>1 DEF InputInit
    <3>2. \A target \in -1 .. 1 : Arrays!PairIsRight(input, target)
      BY <3>1, PairCorrect
    <3> QED BY <2>1, <3>1, <3>2, DuplicateCorrect DEF AnswersAreRight
  <2>2. ASSUME kind = "text", InputInit PROVE AnswersAreRight
    <3>1. input \in Seq(Int)
      BY <2>2 DEF InputInit
    <3> QED BY <2>2, <3>1, BracketsCorrect, SubsequenceCorrect, UniqueCorrect DEF AnswersAreRight
  <2>3. ASSUME kind = "words", InputInit PROVE AnswersAreRight
    <3>1. input \in Seq(Seq(Int))
      BY <2>3 DEF InputInit
    <3> QED BY <2>3, <3>1, AnagramsCorrect DEF AnswersAreRight
  <2>4. ASSUME kind \in {"instructions", "tree"} PROVE AnswersAreRight
    BY <2>4 DEF AnswersAreRight
  <2> QED BY <2>1, <2>2, <2>3, <2>4 DEF InputInit
<1>2. AnswersAreRight /\ [FALSE]_<<kind, input>> => AnswersAreRight'
  BY DEF AnswersAreRight
<1> QED BY <1>1, <1>2, PTL DEF InputSpec

=============================================================================
