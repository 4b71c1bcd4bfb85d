----------------------------- MODULE MvccProofs -----------------------------
(***************************************************************************)
(* Proofs about Mvcc for any transactions, keys and values.  With and      *)
(* without the reuse of transaction ids: conflicting locks are never held  *)
(* together, a stall of all active transactions is always reported, and    *)
(* the search of detect_deadlock answers whether there is a cycle.  When   *)
(* each id is used once, as main does: the version lists are ordered from  *)
(* the newest to the oldest version, and they implement the store with     *)
(* snapshot reads.                                                         *)
(***************************************************************************)
EXTENDS Mvcc, FiniteSetTheorems, SequenceTheorems, WellFoundedInduction, TLAPS

\* The part of TypeOK that the lock table needs.
LockTable ==
    /\ active \in [Tx -> BOOLEAN]
    /\ locks \in [Tx -> SUBSET (Keys \X LockType)]
    /\ wait_for \in [Tx -> SUBSET Tx]
    /\ waiting \subseteq Tx

\* A transaction that was refused a lock is active and has an edge to an active
\* one: the holder that refused it cannot have ended, or waiting would be empty.
WaitsForActive == \A t \in waiting : active[t] /\ wait_for[t] \cap Running # {}

IInv == LockTable /\ LockExclusion /\ WaitsForActive

-----------------------------------------------------------------------------
\* The loop of acquire_lock finds one of the conflicting transactions.
LEMMA FirstInSet ==
    ASSUME NEW S \in SUBSET Tx, S # {}
    PROVE  First(S) \in S
<1>1. S \in SUBSET Nat
  BY MvccAssumption
<1>2. PICK t \in S : \A u \in S : ~(<<u, t>> \in OpToRel(<, Nat))
  BY <1>1, NatLessThanWellFounded, WFMin
<1>3. \A u, w \in Nat : u < w => <<u, w>> \in OpToRel(<, Nat)
  BY DEF OpToRel
<1>4. \A u \in S : ~(u < t)
  BY <1>1, <1>2, <1>3
<1>5. \A u \in S : t <= u
  BY <1>1, <1>4
<1> QED BY <1>5 DEF First

LEMMA InitIInv == Init => IInv
  BY DEF Init, IInv, LockTable, LockExclusion, WaitsForActive

LEMMA GrantIInv ==
    ASSUME IInv, NEW t \in Tx, NEW k \in Keys, NEW type \in LockType, Grant(t, k, type)
    PROVE  IInv'
<1>1. LockTable'
  BY DEF IInv, LockTable, Grant
<1>2. LockExclusion'
  <2> SUFFICES ASSUME NEW a \in Tx, NEW b \in Tx, NEW j \in Keys, NEW held \in LockType,
                      active[a], active[b], a # b, <<j, "WRITE">> \in locks'[a]
               PROVE  <<j, held>> \notin locks'[b]
    BY DEF LockExclusion, Grant
  <2>1. \A u \in Tx \ {t} : active[u] => ~\E h \in LockType :
            <<k, h>> \in locks[u] /\ "WRITE" \in {h, type}
    BY DEF Grant, Conflicts
  <2>2. locks' = [locks EXCEPT ![t] = @ \cup {<<k, type>>}]
    BY DEF Grant
  <2>3. CASE a = t
    BY <2>1, <2>2, <2>3 DEF IInv, LockTable, LockExclusion, LockType
  <2>4. CASE b = t
    BY <2>1, <2>2, <2>4 DEF IInv, LockTable, LockExclusion, LockType
  <2>5. CASE a # t /\ b # t
    BY <2>2, <2>5 DEF IInv, LockTable, LockExclusion
  <2> QED BY <2>3, <2>4, <2>5
<1>3. WaitsForActive'
  BY DEF IInv, WaitsForActive, Grant, Running
<1> QED BY <1>1, <1>2, <1>3 DEF IInv

LEMMA RefuseIInv ==
    ASSUME IInv, NEW t \in Tx, NEW k \in Keys, NEW type \in LockType, Refuse(t, k, type)
    PROVE  IInv'
<1> DEFINE holder == First(Conflicts(t, k, type))
<1>1. holder \in Conflicts(t, k, type)
  BY FirstInSet DEF Refuse, Conflicts
<1>2. holder \in Tx /\ active[holder]
  BY <1>1 DEF Conflicts
<1>3. wait_for' = [wait_for EXCEPT ![t] = @ \cup {holder}] /\ waiting' = waiting \cup {t}
  BY DEF Refuse
<1> HIDE DEF holder
<1>4. LockTable'
  BY <1>2, <1>3 DEF IInv, LockTable, Refuse
<1>5. LockExclusion'
  BY DEF IInv, LockExclusion, Refuse
<1>6. WaitsForActive'
  <2>1. Running' = Running /\ active' = active /\ active[t]
    BY DEF Refuse, Running
  <2>2. holder \in wait_for'[t] \cap Running'
    BY <1>2, <1>3, <2>1 DEF IInv, LockTable, Running
  <2>3. \A u \in waiting \ {t} : wait_for'[u] = wait_for[u]
    BY <1>3 DEF IInv, LockTable
  <2> QED BY <1>3, <2>1, <2>2, <2>3 DEF IInv, WaitsForActive
<1> QED BY <1>4, <1>5, <1>6 DEF IInv

\* Commit and Abort empty the slot's lock list; nobody is left waiting.
LEMMA FinishIInv ==
    ASSUME IInv, NEW t \in Tx, Finish(t), wait_for' = wait_for
    PROVE  IInv'
<1>1. LockTable'
  BY DEF IInv, LockTable, Finish
<1>2. LockExclusion'
  BY DEF IInv, LockTable, LockExclusion, Finish
<1>3. WaitsForActive'
  BY DEF Finish, WaitsForActive
<1> QED BY <1>1, <1>2, <1>3 DEF IInv

LEMMA BeginIInv ==
    ASSUME IInv, NEW t \in Tx, Begin(t)
    PROVE  IInv'
<1>1. LockTable'
  BY DEF IInv, LockTable, Begin
<1>2. LockExclusion'
  BY DEF IInv, LockTable, LockExclusion, Begin
<1>3. WaitsForActive'
  BY DEF IInv, LockTable, WaitsForActive, Begin, Running
<1> QED BY <1>1, <1>2, <1>3 DEF IInv

LEMMA NextIInv == IInv /\ [Next]_vars => IInv'
<1> SUFFICES ASSUME IInv, [Next]_vars PROVE IInv'
  OBVIOUS
<1>1. ASSUME NEW t \in Tx, Begin(t) PROVE IInv'
  BY <1>1, BeginIInv
<1>2. ASSUME NEW t \in Tx, Commit(t) \/ Abort(t) PROVE IInv'
  BY <1>2, FinishIInv DEF Commit, Abort
<1>3. ASSUME NEW t \in Tx, NEW k \in Keys, NEW type \in LockType, Grant(t, k, type)
      PROVE  IInv'
  BY <1>3, GrantIInv
<1>4. ASSUME NEW t \in Tx, NEW k \in Keys, NEW type \in LockType, Refuse(t, k, type)
      PROVE  IInv'
  BY <1>4, RefuseIInv
<1>5. ASSUME NEW t \in Tx, NEW k \in Keys, NEW v \in Values, Write(t, k, v)
      PROVE  IInv'
  BY <1>5 DEF IInv, LockTable, LockExclusion, WaitsForActive, Running, Write
<1>6. CASE UNCHANGED vars
  BY <1>6 DEF vars, IInv, LockTable, LockExclusion, WaitsForActive, Running
<1> QED BY <1>1, <1>2, <1>3, <1>4, <1>5, <1>6 DEF Next

\* acquire_lock, commit_tx and abort_tx keep the lock table free of conflicts,
\* whatever the number of transactions and keys.
THEOREM LocksExclude == Spec => []LockExclusion
<1>1. IInv => LockExclusion
  BY DEF IInv
<1> QED BY InitIInv, NextIInv, <1>1, PTL DEF Spec

\* If every active transaction has been refused a lock, following an edge from
\* each of them never leaves them, so detect_deadlock has a cycle to find.
THEOREM StallReported == Spec => []StallIsReported
<1>1. IInv => StallIsReported
  <2> SUFFICES ASSUME IInv, Running # {}, Running \subseteq waiting
               PROVE  HasCycle(wait_for)
    BY DEF StallIsReported
  <2>1. Running \in SUBSET DOMAIN wait_for
    BY DEF IInv, LockTable, Running
  <2>2. \A t \in Running : wait_for[t] \cap Running # {}
    BY DEF IInv, WaitsForActive
  <2> QED BY <2>1, <2>2 DEF HasCycle
<1> QED BY InitIInv, NextIInv, <1>1, PTL DEF Spec

-----------------------------------------------------------------------------
\* A committed version carries the id of a transaction that is over, and a timestamp
\* that the clock has passed; a tentative one that of a running transaction, which
\* holds the WRITE lock of the key.
VersionInv ==
    \A k \in Keys : \A n \in DOMAIN versions[k] :
        LET ver == versions[k][n]
        IN  IF ver.committed
            THEN ~active[ver.tx] /\ start_ts[ver.tx] # 0 /\ ver.ts < global_ts
            ELSE active[ver.tx] /\ <<k, "WRITE">> \in locks[ver.tx]

ClockInv == \A t \in Tx : start_ts[t] < global_ts /\ (active[t] => start_ts[t] # 0)

VInv == TypeOK /\ VersionInv /\ ClockInv /\ NewestFirst

-----------------------------------------------------------------------------
\* What stays of a list is a subsequence of it: place m is taken by position e[m].
Subsequence(sub, list, e) ==
    /\ e \in [DOMAIN sub -> DOMAIN list]
    /\ \A m \in DOMAIN sub : sub[m] = list[e[m]]
    /\ \A m, n \in DOMAIN sub : m < n => e[m] < e[n]

\* The number of kept positions up to n counts n's place, and each place is taken: a
\* map that loses no order, from a set to the places of which there are as many.
LEMMA UnlinkKeeps ==
    ASSUME NEW S, NEW list \in Seq(S), NEW t
    PROVE  /\ Unlink(list, t) \in Seq(S)
           /\ \E e : /\ Subsequence(Unlink(list, t), list, e)
                     /\ \A m \in DOMAIN Unlink(list, t) : list[e[m]].tx # t
                     /\ \A n \in DOMAIN list : list[n].tx # t =>
                            \E m \in DOMAIN Unlink(list, t) : e[m] = n
<1> DEFINE kept == {n \in DOMAIN list : list[n].tx # t}
           UpTo(n) == {i \in kept : i <= n}
           rank == [n \in kept |-> Cardinality(UpTo(n))]
           e == [m \in 1 .. Cardinality(kept) |-> CHOOSE n \in kept : Cardinality(UpTo(n)) = m]
<1>1. /\ DOMAIN list = 1 .. Len(list) /\ Len(list) \in Nat
      /\ \A n \in DOMAIN list : list[n] \in S
  BY LenProperties, ElementOfSeq
<1>2. /\ IsFiniteSet(kept) /\ Cardinality(kept) \in Nat /\ kept \subseteq Int
      /\ \A n \in kept : n \in DOMAIN list
  <2>1. IsFiniteSet(1 .. Len(list))
    BY <1>1, FS_Interval
  <2>2. kept \in SUBSET (1 .. Len(list))
    BY <1>1
  <2>3. IsFiniteSet(kept)
    BY <2>1, <2>2, FS_Subset
  <2> QED BY <1>1, <2>2, <2>3, FS_CardinalityType
<1> HIDE DEF kept
<1>3. \A n \in kept : /\ IsFiniteSet(UpTo(n)) /\ Cardinality(UpTo(n)) \in Nat
                      /\ Cardinality(UpTo(n)) <= Cardinality(kept)
                      /\ Cardinality(UpTo(n)) # 0
  <2> SUFFICES ASSUME NEW n \in kept
               PROVE  /\ IsFiniteSet(UpTo(n)) /\ Cardinality(UpTo(n)) \in Nat
                      /\ Cardinality(UpTo(n)) <= Cardinality(kept)
                      /\ Cardinality(UpTo(n)) # 0
    OBVIOUS
  <2>1. UpTo(n) \in SUBSET kept /\ n \in UpTo(n)
    BY <1>2
  <2>2. IsFiniteSet(UpTo(n)) /\ Cardinality(UpTo(n)) <= Cardinality(kept)
    BY <1>2, <2>1, FS_Subset
  <2> HIDE DEF UpTo
  <2> QED BY <2>1, <2>2, FS_CardinalityType, FS_EmptySet
<1>4. \A n, m \in kept : n < m => Cardinality(UpTo(n)) < Cardinality(UpTo(m))
  <2> SUFFICES ASSUME NEW n \in kept, NEW m \in kept, n < m
               PROVE  Cardinality(UpTo(n)) < Cardinality(UpTo(m))
    OBVIOUS
  <2>1. UpTo(n) \in SUBSET UpTo(m) /\ m \in UpTo(m) /\ m \notin UpTo(n)
    <3>1. n \in Int /\ m \in Int /\ ~(m <= n) /\ m <= m
      BY <1>2
    <3>2. \A i \in kept : i <= n => i <= m
      BY <1>2, <3>1
    <3> QED BY <3>1, <3>2
  <2>2. /\ IsFiniteSet(UpTo(m)) /\ Cardinality(UpTo(n)) \in Nat
        /\ Cardinality(UpTo(m)) \in Nat
    BY <1>3
  <2> HIDE DEF UpTo
  <2>3. Cardinality(UpTo(n)) <= Cardinality(UpTo(m)) /\ Cardinality(UpTo(n)) # Cardinality(UpTo(m))
    BY <2>1, <2>2, FS_Subset
  <2> QED BY <2>2, <2>3
<1>5. rank \in [kept -> 1 .. Cardinality(kept)]
  BY <1>2, <1>3
<1>6. \A n, m \in kept : n < m => rank[n] < rank[m]
  BY <1>4
<1> HIDE DEF rank
<1>7. \A n, m \in kept : rank[n] = rank[m] => n = m
  BY <1>2, <1>5, <1>6
<1>8. \A m \in 1 .. Cardinality(kept) : \E n \in kept : rank[n] = m
  <2>1. rank \in Injection(kept, 1 .. Cardinality(kept))
    BY <1>5, <1>7 DEF Injection, IsInjective
  <2>2. /\ IsFiniteSet(1 .. Cardinality(kept))
        /\ Cardinality(1 .. Cardinality(kept)) = Cardinality(kept)
    BY <1>2, FS_Interval
  <2>3. rank \in Surjection(kept, 1 .. Cardinality(kept))
    BY <2>1, <2>2, FS_Injection
  <2> QED BY <2>3 DEF Surjection
<1>9. \A m \in 1 .. Cardinality(kept) : e[m] \in kept /\ rank[e[m]] = m
  <2> SUFFICES ASSUME NEW m \in 1 .. Cardinality(kept)
               PROVE  e[m] \in kept /\ rank[e[m]] = m
    OBVIOUS
  <2>1. \E n \in kept : Cardinality(UpTo(n)) = m
    BY <1>8 DEF rank
  <2>2. e[m] \in kept /\ Cardinality(UpTo(e[m])) = m
    BY <2>1
  <2> QED BY <2>2 DEF rank
<1>11. e \in [1 .. Cardinality(kept) -> kept]
  BY <1>9
<1>12. Unlink(list, t) = [m \in 1 .. Cardinality(kept) |-> list[e[m]]]
  BY DEF Unlink, kept
<1> HIDE DEF e
<1>13. Unlink(list, t) \in [1 .. Cardinality(kept) -> S]
  BY <1>1, <1>2, <1>9, <1>12
<1>14. Unlink(list, t) \in Seq(S)
  BY <1>2, <1>13, SeqDef
<1>15. \A m, n \in 1 .. Cardinality(kept) : m < n => e[m] < e[n]
  <2> SUFFICES ASSUME NEW m \in 1 .. Cardinality(kept), NEW n \in 1 .. Cardinality(kept), m < n
               PROVE  e[m] < e[n]
    OBVIOUS
  <2>1. e[m] \in Int /\ e[n] \in Int
    BY <1>2, <1>9
  <2>2. e[n] < e[m] => n < m
    BY <1>6, <1>9
  <2>3. e[n] # e[m]
    BY <1>9
  <2> QED BY <1>2, <2>1, <2>2, <2>3
<1>16. Subsequence(Unlink(list, t), list, e)
  BY <1>2, <1>11, <1>12, <1>15 DEF Subsequence
<1>17. \A m \in DOMAIN Unlink(list, t) : list[e[m]].tx # t
  BY <1>9, <1>12 DEF kept
<1>18. \A n \in DOMAIN list : list[n].tx # t => \E m \in DOMAIN Unlink(list, t) : e[m] = n
  <2> SUFFICES ASSUME NEW n \in DOMAIN list, list[n].tx # t
               PROVE  \E m \in DOMAIN Unlink(list, t) : e[m] = n
    OBVIOUS
  <2>1. n \in kept
    BY DEF kept
  <2>2. rank[n] \in 1 .. Cardinality(kept) /\ e[rank[n]] = n
    BY <1>5, <1>7, <1>9, <2>1
  <2> QED BY <1>12, <2>2
<1> QED BY <1>14, <1>16, <1>17, <1>18

-----------------------------------------------------------------------------
LEMMA Lists ==
    ASSUME TypeOK, NEW k \in Keys
    PROVE  /\ versions[k] \in Seq(Versions)
           /\ DOMAIN versions[k] = 1 .. Len(versions[k]) /\ Len(versions[k]) \in Nat
           /\ \A n \in DOMAIN versions[k] :
                  /\ versions[k][n] \in Versions /\ versions[k][n].tx \in Tx
                  /\ versions[k][n].ts \in Nat /\ versions[k][n].committed \in BOOLEAN
                  /\ versions[k][n].value \in Values
<1>1. versions[k] \in Seq(Versions)
  BY DEF TypeOK
<1>2. \A n \in DOMAIN versions[k] : versions[k][n] \in Versions
  BY <1>1, ElementOfSeq, LenProperties
<1> QED BY <1>1, <1>2, LenProperties DEF Versions

LEMMA InitVInv == Init => VInv
<1> SUFFICES ASSUME Init PROVE VInv
  OBVIOUS
<1>1. \A k \in Keys : versions[k] = <<>> /\ versions[k] \in Seq(Versions)
  BY EmptySeq DEF Init
<1>2. versions \in [Keys -> Seq(Versions)]
  BY <1>1 DEF Init
<1>3. TypeOK
  BY <1>2 DEF Init, TypeOK
<1> QED BY <1>1, <1>3 DEF Init, VInv, VersionInv, ClockInv, NewestFirst

\* A transaction that begins under a fresh id has no versions yet.
LEMMA BeginVInv ==
    ASSUME ~ReuseIds, VInv, NEW t \in Tx, Begin(t) PROVE VInv'
<1>1. TypeOK'
  BY DEF Begin, VInv, TypeOK
<1>2. ClockInv'
  BY DEF Begin, VInv, TypeOK, ClockInv
<1>3. VersionInv'
  <2> SUFFICES ASSUME NEW k \in Keys, NEW n \in DOMAIN versions[k]
               PROVE  LET ver == versions[k][n]
                      IN  IF ver.committed
                          THEN ~active'[ver.tx] /\ start_ts'[ver.tx] # 0 /\ ver.ts < global_ts'
                          ELSE active'[ver.tx] /\ <<k, "WRITE">> \in locks'[ver.tx]
    BY DEF Begin, VersionInv
  <2> DEFINE ver == versions[k][n]
  <2>1. /\ ver.tx \in Tx /\ ver.ts \in Nat
        /\ IF ver.committed
           THEN ~active[ver.tx] /\ start_ts[ver.tx] # 0 /\ ver.ts < global_ts
           ELSE active[ver.tx] /\ <<k, "WRITE">> \in locks[ver.tx]
    BY Lists DEF VInv, VersionInv
  <2> HIDE DEF ver
  <2>2. ver.tx # t
    BY <2>1 DEF Begin
  <2>3. global_ts < global_ts' /\ global_ts \in Int /\ global_ts' \in Int
    BY DEF Begin, VInv, TypeOK
  <2>4. ver.ts < global_ts => ver.ts < global_ts'
    BY <2>1, <2>3
  <2>5. IF ver.committed
        THEN ~active'[ver.tx] /\ start_ts'[ver.tx] # 0 /\ ver.ts < global_ts'
        ELSE active'[ver.tx] /\ <<k, "WRITE">> \in locks'[ver.tx]
    BY <2>1, <2>2, <2>4 DEF Begin, VInv, TypeOK
  <2> QED BY <2>5 DEF ver
<1>4. NewestFirst'
  BY DEF Begin, VInv, NewestFirst
<1> QED BY <1>1, <1>2, <1>3, <1>4 DEF VInv

LEMMA LockVInv ==
    ASSUME VInv, NEW t \in Tx, NEW k \in Keys, NEW type \in LockType,
           Grant(t, k, type) \/ Refuse(t, k, type)
    PROVE  VInv'
<1>1. UNCHANGED <<versions, active, start_ts, global_ts>>
  BY DEF Grant, Refuse
<1>a. \A u \in Tx : \A lock \in locks[u] : lock \in locks'[u]
  BY DEF Grant, Refuse, VInv, TypeOK
<1>2. CASE Grant(t, k, type)
  <2>1. TypeOK'
    BY <1>2 DEF Grant, VInv, TypeOK
  <2> QED BY <1>1, <1>a, <2>1, Lists DEF VInv, VersionInv, ClockInv, NewestFirst
<1>3. CASE Refuse(t, k, type)
  <2>1. First(Conflicts(t, k, type)) \in Tx
    BY <1>3, FirstInSet DEF Refuse, Conflicts
  <2>2. TypeOK'
    BY <1>3, <2>1 DEF Refuse, VInv, TypeOK
  <2> QED BY <1>1, <1>a, <2>2, Lists DEF VInv, VersionInv, ClockInv, NewestFirst
<1> QED BY <1>2, <1>3

\* The version that Write puts at the head of the list, and the rest behind it.
LEMMA Written ==
    ASSUME VInv, NEW t \in Tx, NEW k \in Keys, NEW v \in Values, Write(t, k, v)
    PROVE  /\ versions'[k] \in Seq(Versions) /\ Len(versions'[k]) = Len(versions[k]) + 1
           /\ versions'[k][1] = Version(t, v)
           /\ \A n \in DOMAIN versions'[k] :
                  n # 1 => n - 1 \in DOMAIN versions[k] /\ versions'[k][n] = versions[k][n - 1]
           /\ \A j \in Keys \ {k} : versions'[j] = versions[j]
           /\ versions' \in [Keys -> Seq(Versions)]
<1>1. Version(t, v) \in Versions
  BY DEF Version, Versions
<1>2. /\ versions[k] \in Seq(Versions)
      /\ versions' = [versions EXCEPT ![k] = <<Version(t, v)>> \o versions[k]]
  BY Lists DEF Write, VInv, TypeOK
<1>3. <<Version(t, v)>> \in Seq(Versions) /\ Len(<<Version(t, v)>>) = 1
  BY <1>1
<1>4. versions'[k] = <<Version(t, v)>> \o versions[k]
  BY <1>2 DEF VInv, TypeOK
<1>5. /\ versions'[k] \in Seq(Versions) /\ Len(versions'[k]) = Len(versions[k]) + 1
      /\ \A n \in 1 .. 1 + Len(versions[k]) :
             versions'[k][n] = IF n <= 1 THEN <<Version(t, v)>>[n] ELSE versions[k][n - 1]
  BY <1>2, <1>3, <1>4, ConcatProperties, LenProperties
<1>6. /\ Len(versions[k]) \in Nat /\ DOMAIN versions[k] = 1 .. Len(versions[k])
      /\ DOMAIN versions'[k] = 1 .. Len(versions[k]) + 1
  BY <1>2, <1>5, LenProperties
<1>7. versions'[k][1] = Version(t, v)
  BY <1>5, <1>6
<1>8. \A n \in DOMAIN versions'[k] :
          n # 1 => n - 1 \in DOMAIN versions[k] /\ versions'[k][n] = versions[k][n - 1]
  BY <1>5, <1>6
<1>9. \A j \in Keys \ {k} : versions'[j] = versions[j]
  BY <1>2 DEF VInv, TypeOK
<1>10. versions' \in [Keys -> Seq(Versions)]
  BY <1>2, <1>4, <1>5 DEF VInv, TypeOK
<1> QED BY <1>5, <1>7, <1>8, <1>9, <1>10

\* The tentative versions of the list are of the writer: they hold the lock that it
\* holds.
LEMMA WriteVInv ==
    ASSUME IInv, VInv, NEW t \in Tx, NEW k \in Keys, NEW v \in Values, Write(t, k, v)
    PROVE  VInv'
<1>1. TypeOK'
  BY Written DEF Write, VInv, TypeOK
<1>2. ClockInv' /\ UNCHANGED <<active, start_ts, locks, global_ts>>
  BY DEF Write, VInv, ClockInv
<1>3. /\ ~Version(t, v).committed /\ Version(t, v).tx = t
      /\ active[t] /\ <<k, "WRITE">> \in locks[t]
  BY DEF Version, Write
<1>4. VersionInv'
  <2> SUFFICES ASSUME NEW j \in Keys, NEW n \in DOMAIN versions'[j]
               PROVE  LET ver == versions'[j][n]
                      IN  IF ver.committed
                          THEN ~active[ver.tx] /\ start_ts[ver.tx] # 0 /\ ver.ts < global_ts
                          ELSE active[ver.tx] /\ <<j, "WRITE">> \in locks[ver.tx]
    BY <1>2 DEF VersionInv
  <2>1. CASE j # k
    BY <2>1, Written DEF VInv, VersionInv
  <2>2. CASE j = k /\ n = 1
    BY <1>3, <2>2, Written
  <2>3. CASE j = k /\ n # 1
    <3>1. n - 1 \in DOMAIN versions[k] /\ versions'[k][n] = versions[k][n - 1]
      BY <2>3, Written
    <3> QED BY <2>3, <3>1 DEF VInv, VersionInv
  <2> QED BY <2>1, <2>2, <2>3
<1>5. \A n \in DOMAIN versions[k] : ~versions[k][n].committed => versions[k][n].tx = t
  BY <1>3, Lists DEF VInv, VersionInv, IInv, LockExclusion, LockType
<1>6. NewestFirst'
  <2> SUFFICES ASSUME NEW j \in Keys, NEW n \in DOMAIN versions'[j], NEW m \in DOMAIN versions'[j],
                      n < m
               PROVE  LET newer == versions'[j][n]
                          older == versions'[j][m]
                      IN  IF newer.committed
                          THEN older.committed /\ newer.ts >= older.ts
                          ELSE older.committed \/ older.tx = newer.tx
    BY DEF NewestFirst
  <2>1. CASE j # k
    BY <2>1, Written DEF VInv, NewestFirst
  <2>2. CASE j = k
    <3>1. m # 1 /\ m \in Int /\ n \in Int
      BY <2>2, Written, LenProperties
    <3>2. m - 1 \in DOMAIN versions[k] /\ versions'[k][m] = versions[k][m - 1]
      BY <2>2, <3>1, Written
    <3>3. CASE n = 1
      BY <1>3, <1>5, <2>2, <3>2, <3>3, Written
    <3>4. CASE n # 1
      <4>1. n - 1 \in DOMAIN versions[k] /\ versions'[k][n] = versions[k][n - 1] /\ n - 1 < m - 1
        BY <2>2, <3>1, <3>4, Written
      <4> QED BY <2>2, <3>2, <4>1 DEF VInv, NewestFirst
    <3> QED BY <3>3, <3>4
  <2> QED BY <2>1, <2>2
<1> QED BY <1>1, <1>2, <1>4, <1>6 DEF VInv

\* Commit stamps the versions of t in place.
LEMMA StampOne ==
    ASSUME NEW t \in Tx, NEW ver \in Versions, global_ts \in Nat
    PROVE  /\ Stamp(t, ver) \in Versions
           /\ ver.tx # t => Stamp(t, ver) = ver
           /\ ver.tx = t => /\ Stamp(t, ver).committed /\ Stamp(t, ver).ts = global_ts
                            /\ Stamp(t, ver).tx = t /\ Stamp(t, ver).value = ver.value
  BY DEF Stamp, Versions

LEMMA Stamped ==
    ASSUME VInv, NEW t \in Tx, Commit(t), NEW k \in Keys
    PROVE  /\ versions'[k] \in Seq(Versions) /\ DOMAIN versions'[k] = DOMAIN versions[k]
           /\ \A n \in DOMAIN versions[k] : versions'[k][n] = Stamp(t, versions[k][n])
<1>1. versions'[k] = [n \in DOMAIN versions[k] |-> Stamp(t, versions[k][n])]
  BY DEF Commit
<1>2. /\ Len(versions[k]) \in Nat /\ DOMAIN versions[k] = 1 .. Len(versions[k])
      /\ \A n \in DOMAIN versions[k] : versions[k][n] \in Versions
      /\ global_ts \in Nat
  BY Lists DEF VInv, TypeOK
<1>3. versions'[k] \in [1 .. Len(versions[k]) -> Versions]
  BY <1>1, <1>2, StampOne
<1>4. versions'[k] \in Seq(Versions)
  BY <1>2, <1>3, SeqDef
<1> QED BY <1>1, <1>4

\* The condition of VersionInv on one version, and of NewestFirst on two.
Owned(k, ver) ==
    IF ver.committed THEN ~active[ver.tx] /\ start_ts[ver.tx] # 0 /\ ver.ts < global_ts
    ELSE active[ver.tx] /\ <<k, "WRITE">> \in locks[ver.tx]
InOrder(newer, older) ==
    IF newer.committed THEN older.committed /\ newer.ts >= older.ts
    ELSE older.committed \/ older.tx = newer.tx

LEMMA StampInOrder ==
    ASSUME NEW t \in Tx, NEW newer \in Versions, NEW older \in Versions, global_ts \in Nat,
           InOrder(newer, older), newer.committed => newer.tx # t,
           older.committed => older.tx # t /\ older.ts < global_ts
    PROVE  InOrder(Stamp(t, newer), Stamp(t, older))
<1>1. newer.committed \in BOOLEAN /\ older.committed \in BOOLEAN /\ older.ts \in Nat
  BY DEF Versions
<1>2. CASE newer.tx = t
  <2>1. Stamp(t, newer).committed /\ Stamp(t, newer).ts = global_ts
    BY <1>2, StampOne
  <2>2. CASE older.tx = t
    <3>1. Stamp(t, older).committed /\ Stamp(t, older).ts = global_ts
      BY <2>2, StampOne
    <3> QED BY <2>1, <3>1 DEF InOrder
  <2>3. CASE older.tx # t
    <3>1. older.committed /\ older.ts < global_ts /\ Stamp(t, older) = older
      BY <1>1, <1>2, <2>3, StampOne DEF InOrder
    <3>2. global_ts >= older.ts
      BY <1>1, <3>1
    <3> QED BY <2>1, <3>1, <3>2 DEF InOrder
  <2> QED BY <2>2, <2>3
<1>3. CASE newer.tx # t
  <2>1. older.tx # t
    BY <1>1, <1>3 DEF InOrder
  <2> QED BY <1>3, <2>1, StampOne
<1> QED BY <1>2, <1>3

LEMMA CommitVInv == ASSUME VInv, NEW t \in Tx, Commit(t) PROVE VInv'
<1>1. /\ active[t] /\ active' = [active EXCEPT ![t] = FALSE] /\ start_ts' = start_ts
      /\ locks' = [locks EXCEPT ![t] = {}] /\ global_ts' = global_ts + 1
      /\ waiting' = {} /\ wait_for' = wait_for
  BY DEF Commit, Finish
<1>2. versions' \in [Keys -> Seq(Versions)]
  BY Stamped DEF Commit
<1>3. TypeOK'
  BY <1>1, <1>2 DEF VInv, TypeOK
<1>4. ClockInv'
  BY <1>1 DEF VInv, TypeOK, ClockInv
<1>5. start_ts[t] # 0 /\ global_ts \in Nat
  BY <1>1 DEF VInv, ClockInv, TypeOK
<1>6. ASSUME NEW k \in Keys, NEW n \in DOMAIN versions[k]
      PROVE  /\ versions[k][n] \in Versions /\ Owned(k, versions[k][n])
             /\ versions[k][n].committed =>
                    versions[k][n].tx # t /\ versions[k][n].ts < global_ts
  BY <1>1, Lists DEF VInv, VersionInv, Owned
<1>7. ASSUME NEW k \in Keys, NEW ver \in Versions, Owned(k, ver),
             NEW s, s = Stamp(t, ver)
      PROVE  Owned(k, s)'
  <2>1. CASE ver.tx = t
    <3>1. s.committed /\ s.ts = global_ts /\ s.tx = t
      BY <1>5, <1>7, <2>1, StampOne
    <3> QED BY <1>1, <1>5, <3>1 DEF Owned, VInv, TypeOK
  <2>2. CASE ver.tx # t
    <3>1. s = ver /\ ver.tx \in Tx /\ ver.ts \in Nat
      BY <1>5, <1>7, <2>2, StampOne DEF Versions
    <3>2. ver.ts < global_ts => ver.ts < global_ts'
      BY <1>1, <1>5, <3>1
    <3> QED BY <1>1, <1>7, <2>2, <3>1, <3>2 DEF Owned, VInv, TypeOK
  <2> QED BY <2>1, <2>2
<1>8. \A k \in Keys : \A n \in DOMAIN versions'[k] : \A s : s = versions'[k][n] => Owned(k, s)'
  BY <1>6, <1>7, Stamped
<1>9. VersionInv'
  BY <1>8 DEF VersionInv, Owned
<1>10. \A k \in Keys : \A n, m \in DOMAIN versions'[k] :
           n < m => InOrder(versions'[k][n], versions'[k][m])
  <2> SUFFICES ASSUME NEW k \in Keys, NEW n \in DOMAIN versions'[k], NEW m \in DOMAIN versions'[k],
                      n < m
               PROVE  InOrder(versions'[k][n], versions'[k][m])
    OBVIOUS
  <2>1. n \in DOMAIN versions[k] /\ m \in DOMAIN versions[k]
    BY Stamped
  <2>2. InOrder(versions[k][n], versions[k][m])
    BY <2>1 DEF InOrder, VInv, NewestFirst
  <2>3. InOrder(Stamp(t, versions[k][n]), Stamp(t, versions[k][m]))
    BY <1>5, <1>6, <2>1, <2>2, StampInOrder
  <2> QED BY <2>1, <2>3, Stamped
<1>11. NewestFirst'
  BY <1>10 DEF NewestFirst, InOrder
<1> QED BY <1>3, <1>4, <1>9, <1>11 DEF VInv

\* Abort leaves subsequences of the lists, without versions of t.
LEMMA AbortVInv == ASSUME VInv, NEW t \in Tx, Abort(t) PROVE VInv'
<1>1. /\ active[t] /\ active' = [active EXCEPT ![t] = FALSE] /\ start_ts' = start_ts
      /\ locks' = [locks EXCEPT ![t] = {}] /\ global_ts' = global_ts
      /\ waiting' = {} /\ wait_for' = wait_for
      /\ versions' = [k \in Keys |-> Unlink(versions[k], t)]
  BY DEF Abort, Finish
<1>2. versions' \in [Keys -> Seq(Versions)]
  BY <1>1, Lists, UnlinkKeeps DEF VInv
<1>3. TypeOK'
  BY <1>1, <1>2 DEF VInv, TypeOK
<1>4. ClockInv'
  BY <1>1 DEF VInv, TypeOK, ClockInv
<1>5. \A k \in Keys : \E e : /\ Subsequence(versions'[k], versions[k], e)
                             /\ \A m \in DOMAIN versions'[k] : versions[k][e[m]].tx # t
  <2> SUFFICES ASSUME NEW k \in Keys
               PROVE  \E e : /\ Subsequence(versions'[k], versions[k], e)
                             /\ \A m \in DOMAIN versions'[k] : versions[k][e[m]].tx # t
    OBVIOUS
  <2>1. versions'[k] = Unlink(versions[k], t) /\ versions[k] \in Seq(Versions)
    BY <1>1, Lists DEF VInv
  <2> QED BY <2>1, UnlinkKeeps
<1>6. VersionInv'
  <2> SUFFICES ASSUME NEW k \in Keys, NEW n \in DOMAIN versions'[k]
               PROVE  LET ver == versions'[k][n]
                      IN  IF ver.committed
                          THEN ~active'[ver.tx] /\ start_ts'[ver.tx] # 0 /\ ver.ts < global_ts'
                          ELSE active'[ver.tx] /\ <<k, "WRITE">> \in locks'[ver.tx]
    BY DEF VersionInv
  <2>1. PICK e : /\ Subsequence(versions'[k], versions[k], e)
                 /\ \A m \in DOMAIN versions'[k] : versions[k][e[m]].tx # t
    BY <1>5
  <2> DEFINE ver == versions[k][e[n]]
  <2>2. versions'[k][n] = ver /\ e[n] \in DOMAIN versions[k] /\ ver.tx # t
    BY <2>1 DEF Subsequence
  <2>3. /\ ver.tx \in Tx
        /\ IF ver.committed
           THEN ~active[ver.tx] /\ start_ts[ver.tx] # 0 /\ ver.ts < global_ts
           ELSE active[ver.tx] /\ <<k, "WRITE">> \in locks[ver.tx]
    BY <2>2, Lists DEF VInv, VersionInv
  <2> HIDE DEF ver
  <2>4. IF ver.committed
        THEN ~active'[ver.tx] /\ start_ts'[ver.tx] # 0 /\ ver.ts < global_ts'
        ELSE active'[ver.tx] /\ <<k, "WRITE">> \in locks'[ver.tx]
    BY <1>1, <2>2, <2>3 DEF VInv, TypeOK
  <2> QED BY <2>2, <2>4
<1>7. NewestFirst'
  <2> SUFFICES ASSUME NEW k \in Keys, NEW n \in DOMAIN versions'[k], NEW m \in DOMAIN versions'[k],
                      n < m
               PROVE  LET newer == versions'[k][n]
                          older == versions'[k][m]
                      IN  IF newer.committed
                          THEN older.committed /\ newer.ts >= older.ts
                          ELSE older.committed \/ older.tx = newer.tx
    BY DEF NewestFirst
  <2>1. PICK e : Subsequence(versions'[k], versions[k], e)
    BY <1>5
  <2>2. /\ e[n] \in DOMAIN versions[k] /\ e[m] \in DOMAIN versions[k] /\ e[n] < e[m]
        /\ versions'[k][n] = versions[k][e[n]] /\ versions'[k][m] = versions[k][e[m]]
    BY <2>1 DEF Subsequence
  <2> QED BY <2>2 DEF VInv, NewestFirst
<1> QED BY <1>3, <1>4, <1>6, <1>7 DEF VInv

LEMMA NextVInv == ASSUME ~ReuseIds, IInv, VInv, [Next]_vars PROVE VInv'
<1>1. CASE UNCHANGED vars
  BY <1>1 DEF vars, VInv, TypeOK, VersionInv, ClockInv, NewestFirst
<1>2. ASSUME NEW t \in Tx, Begin(t) \/ Commit(t) \/ Abort(t) PROVE VInv'
  BY <1>2, BeginVInv, CommitVInv, AbortVInv
<1>3. ASSUME NEW t \in Tx, NEW k \in Keys, NEW type \in LockType,
             Grant(t, k, type) \/ Refuse(t, k, type)
      PROVE  VInv'
  BY <1>3, LockVInv
<1>4. ASSUME NEW t \in Tx, NEW k \in Keys, NEW v \in Values, Write(t, k, v) PROVE VInv'
  BY <1>4, WriteVInv
<1> QED BY <1>1, <1>2, <1>3, <1>4 DEF Next

\* The lists, the locks and the clock keep their types.
THEOREM TypeCorrect == ASSUME ~ReuseIds PROVE Spec => []TypeOK
<1>1. Init => IInv /\ VInv
  BY InitIInv, InitVInv
<1>2. IInv /\ VInv /\ [Next]_vars => (IInv /\ VInv)'
  BY NextIInv, NextVInv
<1>3. VInv => TypeOK
  BY DEF VInv
<1> QED BY <1>1, <1>2, <1>3, PTL DEF Spec

\* mvcc_read may stop at the first version it may see: in any interleaving of writes
\* and commits the versions are in newest-first order.
THEOREM NewestAreFirst == ASSUME ~ReuseIds PROVE Spec => []NewestFirst
<1>1. Init => IInv /\ VInv
  BY InitIInv, InitVInv
<1>2. IInv /\ VInv /\ [Next]_vars => (IInv /\ VInv)'
  BY NextIInv, NextVInv
<1>3. VInv => NewestFirst
  BY DEF VInv
<1> QED BY <1>1, <1>2, <1>3, PTL DEF Spec

-----------------------------------------------------------------------------
\* Reads.  What a version list shows, by the first position of a set of positions.
FirstOf(list, S) ==
    IF S = {} THEN NoValue ELSE list[CHOOSE n \in S : \A m \in S : n <= m].value

Seen(list, ts) == {n \in DOMAIN list : list[n].committed /\ list[n].ts <= ts}
Own(list, t) == {n \in DOMAIN list : ~list[n].committed /\ list[n].tx = t}

LEMMA HasFirst ==
    ASSUME NEW S \in SUBSET Nat, S # {}
    PROVE  \E n \in S : \A m \in S : n <= m
<1>1. PICK n \in S : \A m \in S : ~(<<m, n>> \in OpToRel(<, Nat))
  BY NatLessThanWellFounded, WFMin
<1>2. \A m, u \in Nat : m < u => <<m, u>> \in OpToRel(<, Nat)
  BY DEF OpToRel
<1>3. \A m \in S : ~(m < n)
  BY <1>1, <1>2
<1> QED BY <1>3

LEMMA FirstIs ==
    ASSUME NEW list, NEW S \in SUBSET Nat, NEW n \in S, \A m \in S : n <= m
    PROVE  FirstOf(list, S) = list[n].value
<1>1. \A u \in S : (\A m \in S : u <= m) => u = n
  OBVIOUS
<1>2. (CHOOSE u \in S : \A m \in S : u <= m) = n
  BY <1>1
<1> QED BY <1>2 DEF FirstOf

\* The first position stays the first under a map that keeps the order.
LEMMA SameFirst ==
    ASSUME NEW list, NEW sub, NEW S \in SUBSET Nat, NEW T \in SUBSET Nat,
           NEW e \in [T -> S], \A s \in S : \E m \in T : e[m] = s,
           \A m, n \in T : m < n => e[m] < e[n],
           \A m \in T : sub[m].value = list[e[m]].value
    PROVE  FirstOf(sub, T) = FirstOf(list, S)
<1>1. CASE T = {}
  BY <1>1 DEF FirstOf
<1>2. CASE T # {}
  <2>1. PICK m \in T : \A n \in T : m <= n
    BY <1>2, HasFirst
  <2>2. \A s \in S : e[m] <= s
    <3> SUFFICES ASSUME NEW s \in S PROVE e[m] <= s
      OBVIOUS
    <3>1. PICK n \in T : e[n] = s
      OBVIOUS
    <3>2. n \in Nat /\ m \in Nat /\ e[m] \in Nat /\ e[n] \in Nat
      OBVIOUS
    <3>3. n = m \/ m < n
      BY <2>1, <3>2
    <3>4. m < n => e[m] < e[n]
      OBVIOUS
    <3> QED BY <3>1, <3>2, <3>3, <3>4
  <2>3. FirstOf(sub, T) = sub[m].value
    BY <2>1, FirstIs
  <2>4. FirstOf(list, S) = list[e[m]].value
    <3>1. e[m] \in S
      OBVIOUS
    <3> QED BY <2>2, <3>1, FirstIs
  <2>5. sub[m].value = list[e[m]].value
    OBVIOUS
  <2> QED BY <2>3, <2>4, <2>5
<1> QED BY <1>1, <1>2

\* On an ordered list, the newest committed version up to a timestamp is the first one.
LEMMA ValueAtFirst ==
    VInv => \A k \in Keys : \A ts \in Nat :
                ValueAt(k, ts) = FirstOf(versions[k], Seen(versions[k], ts))
<1> SUFFICES ASSUME VInv, NEW k \in Keys, NEW ts \in Nat
             PROVE  ValueAt(k, ts) = FirstOf(versions[k], Seen(versions[k], ts))
  OBVIOUS
<1> DEFINE list == versions[k]
           seen == Seen(list, ts)
           newest == {n \in DOMAIN list : /\ list[n].committed /\ list[n].ts <= ts
                                          /\ \A m \in seen : list[m].ts <= list[n].ts}
<1>1. ValueAt(k, ts) = FirstOf(list, newest)
  BY DEF ValueAt, FirstValue, FirstOf, Seen
<1>2. newest \subseteq seen /\ seen \subseteq Nat /\ \A n \in seen : list[n].ts \in Nat
  BY Lists DEF Seen, VInv
<1>3. CASE seen = {}
  BY <1>1, <1>2, <1>3 DEF FirstOf
<1>4. CASE seen # {}
  <2>1. PICK n \in seen : \A m \in seen : n <= m
    BY <1>2, <1>4, HasFirst
  <2>2. \A m \in seen : list[m].ts <= list[n].ts
    <3> SUFFICES ASSUME NEW m \in seen PROVE list[m].ts <= list[n].ts
      OBVIOUS
    <3>1. m = n \/ n < m
      BY <1>2, <2>1
    <3>2. n < m => list[n].ts >= list[m].ts
      BY DEF VInv, NewestFirst, Seen
    <3> QED BY <1>2, <3>1, <3>2
  <2>3. n \in newest
    BY <2>2 DEF Seen
  <2>4. FirstOf(list, newest) = list[n].value
    BY <1>2, <2>1, <2>3, FirstIs
  <2>5. FirstOf(list, seen) = list[n].value
    BY <1>2, <2>1, FirstIs
  <2> QED BY <1>1, <2>4, <2>5
<1> QED BY <1>3, <1>4

LEMMA TentativeFirst ==
    \A t \in Tx : \A k \in Keys : TentativeValue(t, k) = FirstOf(versions[k], Own(versions[k], t))
  BY DEF TentativeValue, FirstValue, FirstOf, Own

\* The walk of mvcc_read: own tentative versions come before all committed ones.
LEMMA ReadsFirst == VInv => ReadsSnapshot
<1> SUFFICES ASSUME VInv, NEW t \in Tx, NEW k \in Keys
             PROVE  mvcc_read(t, k) = Store!ReadResult(t, k)
  BY DEF ReadsSnapshot
<1> DEFINE list == versions[k]
           visible == {n \in DOMAIN list : Visible(t, list[n])}
           seen == Seen(list, start_ts[t])
           own == Own(list, t)
<1>1. /\ mvcc_read(t, k) = FirstOf(list, visible)
      /\ Store!ReadResult(t, k) = IF FirstOf(list, own) # NoValue THEN FirstOf(list, own)
                                  ELSE FirstOf(list, seen)
  <2>1. mvcc_read(t, k) = FirstOf(list, visible)
    BY DEF mvcc_read, FirstValue, FirstOf
  <2>2. start_ts[t] \in Nat
    BY DEF VInv, TypeOK
  <2>3. TentativeValue(t, k) = FirstOf(list, own) /\ ValueAt(k, start_ts[t]) = FirstOf(list, seen)
    BY <2>2, TentativeFirst, ValueAtFirst
  <2> QED BY <2>1, <2>3 DEF Store!ReadResult
<1>2. /\ visible = seen \cup own /\ seen \subseteq Nat /\ own \subseteq Nat
      /\ \A n \in own : list[n].value # NoValue
  BY Lists, MvccAssumption DEF VInv, Visible, Seen, Own
<1>3. CASE own = {}
  BY <1>1, <1>2, <1>3 DEF FirstOf
<1>4. CASE own # {}
  <2>1. PICK n \in own : \A m \in own : n <= m
    BY <1>2, <1>4, HasFirst
  <2>2. \A m \in seen : n <= m
    <3> SUFFICES ASSUME NEW m \in seen, m < n PROVE FALSE
      BY <1>2, <2>1
    <3>1. list[n].committed
      BY <2>1 DEF VInv, NewestFirst, Seen, Own
    <3> QED BY <2>1, <3>1 DEF Own
  <2>3. FirstOf(list, own) = list[n].value
    BY <1>2, <2>1, FirstIs
  <2>4. FirstOf(list, visible) = list[n].value
    BY <1>2, <2>1, <2>2, FirstIs
  <2> QED BY <1>1, <1>2, <2>1, <2>3, <2>4
<1> QED BY <1>3, <1>4

\* A transaction reads its own last write, and otherwise the value that its key had
\* when it began, however versions are interleaved in the lists.
THEOREM ReadsAreOfSnapshot == ASSUME ~ReuseIds PROVE Spec => []ReadsSnapshot
<1>1. Init => IInv /\ VInv
  BY InitIInv, InitVInv
<1>2. IInv /\ VInv /\ [Next]_vars => (IInv /\ VInv)'
  BY NextIInv, NextVInv
<1> QED BY <1>1, <1>2, ReadsFirst, PTL DEF Spec

-----------------------------------------------------------------------------
\* The refinement.  The variables of SnapshotStore, as functions of the version lists.
StoreMap == [k \in Keys |-> FirstOf(versions[k], Seen(versions[k], global_ts))]
SnapshotMap ==
    [t \in Tx |-> [k \in Keys |-> FirstOf(versions[k], Seen(versions[k], start_ts[t]))]]
WritesMap == [t \in Tx |-> [k \in Keys |-> FirstOf(versions[k], Own(versions[k], t))]]

Mapped ==
    /\ [k \in Keys |-> ValueAt(k, global_ts)] = StoreMap
    /\ [t \in Tx |-> [k \in Keys |-> ValueAt(k, start_ts[t])]] = SnapshotMap
    /\ [t \in Tx |-> [k \in Keys |-> TentativeValue(t, k)]] = WritesMap

LEMMA MapsTo == VInv => Mapped
<1> SUFFICES ASSUME VInv PROVE Mapped
  OBVIOUS
<1>1. global_ts \in Nat /\ \A t \in Tx : start_ts[t] \in Nat
  BY DEF VInv, TypeOK
<1>2. [k \in Keys |-> ValueAt(k, global_ts)] = StoreMap
  BY <1>1, ValueAtFirst DEF StoreMap
<1>3. [t \in Tx |-> [k \in Keys |-> ValueAt(k, start_ts[t])]] = SnapshotMap
  BY <1>1, ValueAtFirst DEF SnapshotMap
<1>4. [t \in Tx |-> [k \in Keys |-> TentativeValue(t, k)]] = WritesMap
  BY TentativeFirst DEF WritesMap
<1> QED BY <1>2, <1>3, <1>4 DEF Mapped

LEMMA MapsToNext == VInv' => Mapped'
  BY MapsTo, PTL

\* A position set and the values at it make up what FirstOf returns.
LEMMA SamePlaces ==
    ASSUME NEW list, NEW sub, NEW S \in SUBSET Nat, \A n \in S : sub[n].value = list[n].value
    PROVE  FirstOf(sub, S) = FirstOf(list, S)
<1> DEFINE e == [n \in S |-> n]
<1>1. e \in [S -> S] /\ (\A n \in S : e[n] = n)
  OBVIOUS
<1> HIDE DEF e
<1> QED BY <1>1, SameFirst

LEMMA SeenOwnNat ==
    ASSUME NEW list \in Seq(Versions)
    PROVE  /\ \A ts : Seen(list, ts) \in SUBSET Nat
           /\ \A t : Own(list, t) \in SUBSET Nat
  BY LenProperties DEF Seen, Own

\* The clock has passed all timestamps.
LEMMA SeenAll ==
    ASSUME VInv, NEW k \in Keys, NEW ts \in Nat, global_ts <= ts
    PROVE  Seen(versions[k], ts) = Seen(versions[k], global_ts)
<1>1. global_ts \in Nat
  BY DEF VInv, TypeOK
<1>2. \A n \in DOMAIN versions[k] : versions[k][n].committed =>
          versions[k][n].ts \in Nat /\ versions[k][n].ts < global_ts
  BY Lists DEF VInv, VersionInv
<1> QED BY <1>1, <1>2 DEF Seen

LEMMA BeginRefines ==
    ASSUME VInv, VInv', NEW t \in Tx, Begin(t) PROVE Store!Begin(t)
<1>1. /\ versions' = versions /\ active' = [active EXCEPT ![t] = TRUE] /\ ~active[t]
      /\ start_ts' = [start_ts EXCEPT ![t] = global_ts] /\ global_ts' = global_ts + 1
      /\ start_ts \in [Tx -> Nat] /\ active \in [Tx -> BOOLEAN] /\ global_ts \in Nat
  BY DEF Begin, VInv, TypeOK
<1>2. Mapped /\ Mapped'
  BY MapsTo, MapsToNext
<1>3. \A k \in Keys : Seen(versions[k], global_ts + 1) = Seen(versions[k], global_ts)
  BY <1>1, SeenAll
<1>4. StoreMap' = StoreMap
  BY <1>1, <1>3 DEF StoreMap
<1>5. SnapshotMap' = [SnapshotMap EXCEPT ![t] = StoreMap]
  BY <1>1 DEF SnapshotMap, StoreMap
<1>6. WritesMap' = WritesMap
  BY <1>1 DEF WritesMap
<1>7. t \notin Running /\ Running' = Running \cup {t}
  BY <1>1 DEF Running
<1> QED BY <1>2, <1>4, <1>5, <1>6, <1>7 DEF Store!Begin, Mapped, Running

\* The versions, the clock and who runs decide what the store shows.
LEMMA LockRefines ==
    ASSUME VInv, VInv', UNCHANGED <<versions, active, start_ts, global_ts>>
    PROVE  UNCHANGED Store!storeVars
<1>1. Mapped /\ Mapped'
  BY MapsTo, MapsToNext
<1>2. UNCHANGED <<StoreMap, SnapshotMap, WritesMap, Running>>
  BY DEF StoreMap, SnapshotMap, WritesMap, Running
<1> QED BY <1>1, <1>2 DEF Store!storeVars, Mapped, Running

LEMMA WriteRefines ==
    ASSUME IInv, VInv, VInv', NEW t \in Tx, NEW k \in Keys, NEW v \in Values, Write(t, k, v)
    PROVE  Store!Write(t, k, v)
<1> DEFINE list == versions[k]
           new == versions'[k]
<1>1. /\ UNCHANGED <<active, start_ts, global_ts>> /\ t \in Running /\ Running' = Running
      /\ active[t] /\ <<k, "WRITE">> \in locks[t]
  BY DEF Write, Running
<1>2. Mapped /\ Mapped'
  BY MapsTo, MapsToNext
<1>3. /\ list \in Seq(Versions) /\ new \in Seq(Versions)
      /\ Len(new) = Len(list) + 1 /\ Len(list) \in Nat
      /\ DOMAIN list = 1 .. Len(list) /\ DOMAIN new = 1 .. Len(list) + 1
      /\ new[1] = Version(t, v)
      /\ \A n \in DOMAIN new : n # 1 => n - 1 \in DOMAIN list /\ new[n] = list[n - 1]
      /\ \A j \in Keys \ {k} : versions'[j] = versions[j]
  BY Lists, Written, LenProperties DEF VInv
<1>4. /\ ~Version(t, v).committed /\ Version(t, v).tx = t /\ Version(t, v).value = v
  BY DEF Version
<1> HIDE DEF list, new
<1>5. \A n \in DOMAIN list : ~list[n].committed => list[n].tx = t
  BY <1>1, Lists DEF list, VInv, VersionInv, IInv, LockExclusion, LockType
<1>6. ASSUME NEW ts PROVE FirstOf(new, Seen(new, ts)) = FirstOf(list, Seen(list, ts))
  <2> DEFINE S == Seen(list, ts)
             T == Seen(new, ts)
             e == [n \in T |-> n - 1]
  <2>1. S \in SUBSET Nat /\ T \in SUBSET Nat
    BY <1>3, SeenOwnNat
  <2>2. \A n \in T : n # 1 /\ n - 1 \in S /\ new[n] = list[n - 1]
    BY <1>3, <1>4 DEF Seen
  <2>3. \A s \in S : s + 1 \in T
    <3> SUFFICES ASSUME NEW s \in S PROVE s + 1 \in T
      OBVIOUS
    <3>1. s \in 1 .. Len(list)
      BY <1>3 DEF Seen
    <3>2. s + 1 \in DOMAIN new /\ s + 1 # 1 /\ (s + 1) - 1 = s
      BY <1>3, <3>1
    <3>3. new[s + 1] = list[s]
      BY <1>3, <3>2
    <3> QED BY <3>2, <3>3 DEF Seen
  <2> HIDE DEF S, T
  <2>4. e \in [T -> S] /\ (\A n \in T : e[n] = n - 1)
    BY <2>2
  <2> HIDE DEF e
  <2>5. \A s \in S : \E m \in T : e[m] = s
    <3> SUFFICES ASSUME NEW s \in S PROVE \E m \in T : e[m] = s
      OBVIOUS
    <3>1. s + 1 \in T /\ (s + 1) - 1 = s
      BY <2>1, <2>3
    <3> QED BY <2>4, <3>1
  <2>6. \A m, n \in T : m < n => e[m] < e[n]
    BY <2>1, <2>4
  <2>7. \A m \in T : new[m].value = list[e[m]].value
    BY <2>2, <2>4
  <2>8. FirstOf(new, T) = FirstOf(list, S)
    BY <2>1, <2>4, <2>5, <2>6, <2>7, SameFirst
  <2> QED BY <2>8 DEF S, T
<1>7. FirstOf(new, Own(new, t)) = v
  <2>1. 1 \in Own(new, t) /\ Own(new, t) \in SUBSET Nat /\ \A m \in Own(new, t) : 1 <= m
    BY <1>3, <1>4 DEF Own
  <2> QED BY <1>3, <1>4, <2>1, FirstIs
<1>8. \A u \in Tx \ {t} : Own(list, u) = {} /\ Own(new, u) = {}
  BY <1>3, <1>4, <1>5 DEF Own
<1>9. StoreMap' = StoreMap /\ SnapshotMap' = SnapshotMap
  <2>1. \A j \in Keys : \A ts : FirstOf(versions'[j], Seen(versions'[j], ts)) =
                                FirstOf(versions[j], Seen(versions[j], ts))
    BY <1>3, <1>6 DEF list, new
  <2>2. StoreMap' = [j \in Keys |-> FirstOf(versions'[j], Seen(versions'[j], global_ts))]
    BY <1>1 DEF StoreMap
  <2>3. SnapshotMap' = [u \in Tx |->
            [j \in Keys |-> FirstOf(versions'[j], Seen(versions'[j], start_ts[u]))]]
    BY <1>1 DEF SnapshotMap
  <2> QED BY <2>1, <2>2, <2>3 DEF StoreMap, SnapshotMap
<1>10. WritesMap' = [WritesMap EXCEPT ![t][k] = v]
  <2>1. \A j \in Keys : \A u \in Tx :
            FirstOf(versions'[j], Own(versions'[j], u)) =
                IF j = k /\ u = t THEN v ELSE FirstOf(versions[j], Own(versions[j], u))
    <3> SUFFICES ASSUME NEW j \in Keys, NEW u \in Tx
                 PROVE  FirstOf(versions'[j], Own(versions'[j], u)) =
                          IF j = k /\ u = t THEN v ELSE FirstOf(versions[j], Own(versions[j], u))
      OBVIOUS
    <3>1. CASE j # k
      BY <1>3, <3>1
    <3>2. CASE j = k /\ u = t
      BY <1>7, <3>2 DEF new
    <3>3. CASE j = k /\ u # t
      <4>1. FirstOf(versions'[j], {}) = NoValue /\ FirstOf(versions[j], {}) = NoValue
        BY DEF FirstOf
      <4> QED BY <1>8, <3>3, <4>1 DEF list, new
    <3> QED BY <3>1, <3>2, <3>3
  <2>2. WritesMap' = [u \in Tx |-> [j \in Keys |-> FirstOf(versions'[j], Own(versions'[j], u))]]
    BY DEF WritesMap
  <2> QED BY <2>1, <2>2 DEF WritesMap
<1>11. \A u \in Tx \ {t} : WritesMap[u][k] = NoValue
  BY <1>8 DEF WritesMap, FirstOf, list
<1> QED BY <1>1, <1>2, <1>9, <1>10, <1>11 DEF Store!Write, Mapped, Running

\* A committed version is of a transaction that is over, and in the past.
LEMMA CommittedIsOver ==
    ASSUME VInv, NEW k \in Keys, NEW n \in DOMAIN versions[k], versions[k][n].committed
    PROVE  ~active[versions[k][n].tx] /\ versions[k][n].ts < global_ts
  BY DEF VInv, VersionInv

\* A commit turns the tentative versions of t, which are at the head of their lists,
\* into the newest committed ones; the snapshots are of earlier timestamps.
LEMMA CommitRefines ==
    ASSUME VInv, VInv', NEW t \in Tx, Commit(t) PROVE Store!Commit(t)
<1>1. /\ active[t] /\ active' = [active EXCEPT ![t] = FALSE] /\ start_ts' = start_ts
      /\ global_ts' = global_ts + 1 /\ global_ts \in Nat
      /\ start_ts \in [Tx -> Nat] /\ active \in [Tx -> BOOLEAN]
  BY DEF Commit, Finish, VInv, TypeOK
<1>2. Mapped /\ Mapped'
  BY MapsTo, MapsToNext
<1>3. t \in Running /\ Running' = Running \ {t}
  BY <1>1 DEF Running
<1>4. ASSUME NEW k \in Keys, NEW n \in DOMAIN versions[k]
      PROVE  /\ versions[k][n] \in Versions /\ n \in Nat
             /\ versions[k][n].committed =>
                    versions[k][n].tx # t /\ versions[k][n].ts < global_ts
  <2>1. versions[k][n] \in Versions /\ n \in Nat
    BY Lists DEF VInv
  <2>2. ASSUME versions[k][n].committed
        PROVE  versions[k][n].tx # t /\ versions[k][n].ts < global_ts
    <3>1. ~active[versions[k][n].tx] /\ versions[k][n].ts < global_ts
      BY <2>2, CommittedIsOver
    <3>2. CASE versions[k][n].tx = t
      BY <1>1, <3>1, <3>2
    <3> QED BY <3>1, <3>2
  <2> QED BY <2>1, <2>2
<1>5. ASSUME NEW k \in Keys, NEW n \in DOMAIN versions[k]
      PROVE  /\ versions'[k][n].value = versions[k][n].value
             /\ versions[k][n].tx # t => versions'[k][n] = versions[k][n]
             /\ versions[k][n].tx = t => /\ versions'[k][n].committed
                                         /\ versions'[k][n].ts = global_ts
  <2>1. versions'[k][n] = Stamp(t, versions[k][n])
    BY Stamped
  <2> QED BY <1>1, <1>4, <2>1, StampOne
<1>6. \A k \in Keys : DOMAIN versions'[k] = DOMAIN versions[k]
  BY Stamped
<1>7. ASSUME NEW k \in Keys, NEW ts \in Nat, ts < global_ts
      PROVE  FirstOf(versions'[k], Seen(versions'[k], ts)) = FirstOf(versions[k], Seen(versions[k], ts))
  <2>1. Seen(versions'[k], ts) = Seen(versions[k], ts)
    BY <1>1, <1>4, <1>5, <1>6, <1>7 DEF Seen
  <2>2. Seen(versions[k], ts) \in SUBSET Nat
    BY <1>4 DEF Seen
  <2>3. \A n \in Seen(versions[k], ts) : versions'[k][n].value = versions[k][n].value
    BY <1>5 DEF Seen
  <2> QED BY <2>1, <2>2, <2>3, SamePlaces
<1>8. SnapshotMap' = SnapshotMap
  <2>1. \A u \in Tx : start_ts[u] \in Nat /\ start_ts[u] < global_ts
    BY <1>1 DEF VInv, ClockInv
  <2>2. SnapshotMap' = [u \in Tx |->
            [k \in Keys |-> FirstOf(versions'[k], Seen(versions'[k], start_ts[u]))]]
    BY <1>1 DEF SnapshotMap
  <2> QED BY <1>7, <2>1, <2>2 DEF SnapshotMap
<1>9. ASSUME NEW k \in Keys, NEW u \in Tx \ {t}
      PROVE  FirstOf(versions'[k], Own(versions'[k], u)) = FirstOf(versions[k], Own(versions[k], u))
  <2>1. Own(versions'[k], u) = Own(versions[k], u)
    BY <1>5, <1>6 DEF Own
  <2>2. Own(versions[k], u) \in SUBSET Nat
    BY <1>4 DEF Own
  <2>3. \A n \in Own(versions[k], u) : versions'[k][n].value = versions[k][n].value
    BY <1>5 DEF Own
  <2> QED BY <2>1, <2>2, <2>3, SamePlaces
<1>10. \A k \in Keys : FirstOf(versions'[k], Own(versions'[k], t)) = NoValue
  <2>1. \A k \in Keys : Own(versions'[k], t) = {}
    BY <1>5, <1>6 DEF Own
  <2> QED BY <2>1 DEF FirstOf
<1>11. WritesMap' = [WritesMap EXCEPT ![t] = Store!Nothing]
  <2>1. WritesMap' = [u \in Tx |-> [k \in Keys |-> FirstOf(versions'[k], Own(versions'[k], u))]]
    BY DEF WritesMap
  <2> QED BY <1>9, <1>10, <2>1 DEF WritesMap, Store!Nothing
<1>12. ASSUME NEW k \in Keys
       PROVE  FirstOf(versions'[k], Seen(versions'[k], global_ts + 1)) =
                  IF WritesMap[t][k] # NoValue THEN WritesMap[t][k] ELSE StoreMap[k]
  <2> DEFINE own == Own(versions[k], t)
             after == Seen(versions'[k], global_ts + 1)
  <2>1. WritesMap[t][k] = FirstOf(versions[k], own)
    BY DEF WritesMap
  <2>2. CASE own = {}
    <3>1. \A n \in DOMAIN versions[k] : versions[k][n].tx # t
      BY <1>4, <2>2 DEF Own
    <3>2. after = Seen(versions[k], global_ts + 1)
      BY <1>5, <1>6, <3>1 DEF Seen
    <3>3. Seen(versions[k], global_ts + 1) = Seen(versions[k], global_ts)
      BY <1>1, SeenAll
    <3>4. Seen(versions[k], global_ts) \in SUBSET Nat
      BY <1>4 DEF Seen
    <3>5. FirstOf(versions'[k], Seen(versions[k], global_ts)) =
              FirstOf(versions[k], Seen(versions[k], global_ts))
      BY <1>5, <3>4, SamePlaces DEF Seen
    <3>6. WritesMap[t][k] = NoValue
      BY <2>1, <2>2 DEF FirstOf
    <3> QED BY <3>2, <3>3, <3>5, <3>6 DEF StoreMap
  <2>3. CASE own # {}
    <3>1. own \in SUBSET Nat /\ after \in SUBSET Nat
      BY <1>4, <1>6 DEF Own, Seen
    <3>2. PICK n \in own : \A m \in own : n <= m
      BY <2>3, <3>1, HasFirst
    <3>3. n \in DOMAIN versions[k] /\ ~versions[k][n].committed /\ versions[k][n].tx = t
      BY <3>2 DEF Own
    <3>4. n \in after
      BY <1>1, <1>5, <1>6, <3>3 DEF Seen
    <3>5. \A m \in after : n <= m
      <4> SUFFICES ASSUME NEW m \in after, m < n PROVE FALSE
        BY <3>1
      <4>1. m \in DOMAIN versions[k]
        BY <1>6 DEF Seen
      <4>2. ~versions[k][m].committed /\ versions[k][m].tx = t
        BY <3>3, <4>1 DEF VInv, NewestFirst
      <4>3. m \in own
        BY <4>1, <4>2 DEF Own
      <4> QED BY <3>1, <3>2, <4>3
    <3>6. FirstOf(versions'[k], after) = versions'[k][n].value
      BY <3>1, <3>4, <3>5, FirstIs
    <3>7. FirstOf(versions[k], own) = versions[k][n].value
      BY <3>1, <3>2, FirstIs
    <3>8. versions[k][n].value \in Values
      BY <1>4, <3>3 DEF Versions
    <3> QED BY <1>5, <2>1, <3>3, <3>6, <3>7, <3>8, MvccAssumption
  <2> QED BY <2>2, <2>3
<1>13. StoreMap' = [k \in Keys |-> IF WritesMap[t][k] # NoValue THEN WritesMap[t][k]
                                   ELSE StoreMap[k]]
  BY <1>1, <1>12 DEF StoreMap
<1> QED BY <1>2, <1>3, <1>8, <1>11, <1>13 DEF Store!Commit, Mapped, Running

\* An abort leaves the order of the other versions as it was.
LEMMA AbortRefines ==
    ASSUME VInv, VInv', NEW t \in Tx, Abort(t) PROVE Store!Abort(t)
<1>1. /\ active[t] /\ active' = [active EXCEPT ![t] = FALSE] /\ start_ts' = start_ts
      /\ global_ts' = global_ts /\ versions' = [k \in Keys |-> Unlink(versions[k], t)]
      /\ active \in [Tx -> BOOLEAN]
  BY DEF Abort, Finish, VInv, TypeOK
<1>2. Mapped /\ Mapped'
  BY MapsTo, MapsToNext
<1>3. t \in Running /\ Running' = Running \ {t}
  BY <1>1 DEF Running
<1>4. \A k \in Keys : \A n \in DOMAIN versions[k] :
          versions[k][n].committed => versions[k][n].tx # t
  <2> SUFFICES ASSUME NEW k \in Keys, NEW n \in DOMAIN versions[k],
                      versions[k][n].committed, versions[k][n].tx = t
               PROVE  FALSE
    OBVIOUS
  <2> QED BY <1>1, CommittedIsOver
\* A set of positions, and those of them in the shorter list.
<1>5. ASSUME NEW k \in Keys, NEW S \in SUBSET DOMAIN versions[k],
             \A n \in S : versions[k][n].tx # t,
             NEW T \in SUBSET DOMAIN versions'[k],
             \A e : Subsequence(versions'[k], versions[k], e) =>
                        \A m \in DOMAIN versions'[k] : m \in T <=> e[m] \in S
      PROVE  FirstOf(versions'[k], T) = FirstOf(versions[k], S)
  <2>1. versions[k] \in Seq(Versions) /\ versions'[k] = Unlink(versions[k], t)
    BY <1>1, Lists DEF VInv
  <2>2. PICK e : /\ Subsequence(versions'[k], versions[k], e)
                 /\ \A n \in DOMAIN versions[k] : versions[k][n].tx # t =>
                        \E m \in DOMAIN versions'[k] : e[m] = n
    BY <2>1, UnlinkKeeps
  <2>3. /\ DOMAIN versions[k] \in SUBSET Nat /\ DOMAIN versions'[k] \in SUBSET Nat
    <3>1. versions'[k] \in Seq(Versions)
      BY <2>1, UnlinkKeeps
    <3> QED BY <2>1, <3>1, LenProperties
  <2>4. S \in SUBSET Nat /\ T \in SUBSET Nat
    BY <2>3
  <2> DEFINE f == [m \in T |-> e[m]]
  <2>5. f \in [T -> S] /\ (\A m \in T : f[m] = e[m])
    BY <1>5, <2>2
  <2> HIDE DEF f
  <2>6. \A n \in S : \E m \in T : f[m] = n
    BY <1>5, <2>2, <2>5
  <2>7. \A m, n \in T : m < n => f[m] < f[n]
    BY <2>2, <2>5 DEF Subsequence
  <2>8. \A m \in T : versions'[k][m].value = versions[k][f[m]].value
    BY <2>2, <2>5 DEF Subsequence
  <2> DEFINE list == versions[k]
             sub == versions'[k]
  <2>9. \A m \in T : sub[m].value = list[f[m]].value
    BY <2>8
  <2> HIDE DEF list, sub
  <2>10. FirstOf(sub, T) = FirstOf(list, S)
    BY <2>4, <2>5, <2>6, <2>7, <2>9, SameFirst
  <2> QED BY <2>10 DEF list, sub
<1>6. ASSUME NEW k \in Keys, NEW ts
      PROVE  FirstOf(versions'[k], Seen(versions'[k], ts)) = FirstOf(versions[k], Seen(versions[k], ts))
  <2>1. \A n \in Seen(versions[k], ts) : versions[k][n].tx # t
    BY <1>4 DEF Seen
  <2>2. \A e : Subsequence(versions'[k], versions[k], e) =>
            \A m \in DOMAIN versions'[k] :
                m \in Seen(versions'[k], ts) <=> e[m] \in Seen(versions[k], ts)
    BY DEF Subsequence, Seen
  <2>3. Seen(versions[k], ts) \subseteq DOMAIN versions[k] /\ Seen(versions'[k], ts) \subseteq DOMAIN versions'[k]
    BY DEF Seen
  <2> QED BY <1>5, <2>1, <2>2, <2>3
<1>7. ASSUME NEW k \in Keys, NEW u \in Tx \ {t}
      PROVE  FirstOf(versions'[k], Own(versions'[k], u)) = FirstOf(versions[k], Own(versions[k], u))
  <2>1. \A n \in Own(versions[k], u) : versions[k][n].tx # t
    BY DEF Own
  <2>2. \A e : Subsequence(versions'[k], versions[k], e) =>
            \A m \in DOMAIN versions'[k] :
                m \in Own(versions'[k], u) <=> e[m] \in Own(versions[k], u)
    BY DEF Subsequence, Own
  <2>3. Own(versions[k], u) \subseteq DOMAIN versions[k] /\ Own(versions'[k], u) \subseteq DOMAIN versions'[k]
    BY DEF Own
  <2> QED BY <1>5, <2>1, <2>2, <2>3
<1>8. \A k \in Keys : FirstOf(versions'[k], Own(versions'[k], t)) = NoValue
  <2> SUFFICES ASSUME NEW k \in Keys PROVE Own(versions'[k], t) = {}
    BY DEF FirstOf
  <2>1. versions[k] \in Seq(Versions) /\ versions'[k] = Unlink(versions[k], t)
    BY <1>1, Lists DEF VInv
  <2>2. PICK e : /\ Subsequence(versions'[k], versions[k], e)
                 /\ \A m \in DOMAIN versions'[k] : versions[k][e[m]].tx # t
    BY <2>1, UnlinkKeeps
  <2> QED BY <2>2 DEF Subsequence, Own
<1>9. StoreMap' = StoreMap
  BY <1>1, <1>6 DEF StoreMap
<1>10. SnapshotMap' = SnapshotMap
  <2>1. SnapshotMap' = [u \in Tx |->
            [k \in Keys |-> FirstOf(versions'[k], Seen(versions'[k], start_ts[u]))]]
    BY <1>1 DEF SnapshotMap
  <2> QED BY <1>6, <2>1 DEF SnapshotMap
<1>11. WritesMap' = [WritesMap EXCEPT ![t] = Store!Nothing]
  <2>1. WritesMap' = [u \in Tx |-> [k \in Keys |-> FirstOf(versions'[k], Own(versions'[k], u))]]
    BY DEF WritesMap
  <2> QED BY <1>7, <1>8, <2>1 DEF WritesMap, Store!Nothing
<1> QED BY <1>2, <1>3, <1>9, <1>10, <1>11 DEF Store!Abort, Mapped, Running

LEMMA NextRefines ==
    ASSUME ~ReuseIds, IInv, VInv, VInv', [Next]_vars PROVE [Store!Next]_Store!storeVars
<1>1. CASE UNCHANGED vars
  BY <1>1, LockRefines DEF vars
<1>2. ASSUME NEW t \in Tx, Begin(t) \/ Commit(t) \/ Abort(t)
      PROVE  [Store!Next]_Store!storeVars
  BY <1>2, BeginRefines, CommitRefines, AbortRefines DEF Store!Next
<1>3. ASSUME NEW t \in Tx, NEW k \in Keys, NEW type \in LockType,
             Grant(t, k, type) \/ Refuse(t, k, type)
      PROVE  [Store!Next]_Store!storeVars
  BY <1>3, LockRefines DEF Grant, Refuse
<1>4. ASSUME NEW t \in Tx, NEW k \in Keys, NEW v \in Values, Write(t, k, v)
      PROVE  [Store!Next]_Store!storeVars
  BY <1>4, WriteRefines DEF Store!Next
<1> QED BY <1>1, <1>2, <1>3, <1>4 DEF Next

LEMMA InitRefines == Init => Store!Init
<1> SUFFICES ASSUME Init PROVE Store!Init
  OBVIOUS
<1>1. Mapped
  BY InitVInv, MapsTo
<1>2. \A k \in Keys : \A x : Seen(versions[k], x) = {} /\ Own(versions[k], x) = {}
  BY DEF Init, Seen, Own
<1>3. /\ StoreMap = Store!Nothing /\ SnapshotMap = [t \in Tx |-> Store!Nothing]
      /\ WritesMap = [t \in Tx |-> Store!Nothing]
  BY <1>2 DEF StoreMap, SnapshotMap, WritesMap, Store!Nothing, FirstOf
<1>4. Running = {}
  BY DEF Init, Running
<1> QED BY <1>1, <1>3, <1>4 DEF Store!Init, Mapped, Running

\* Versions, timestamps and locks implement transactions that read from a snapshot and
\* install their writes in one step, for any transactions, keys and values.
THEOREM StoreIsSnapshotStore == ASSUME ~ReuseIds PROVE Spec => ImplementsSnapshotStore
<1>1. Init => IInv /\ VInv
  BY InitIInv, InitVInv
<1>2. IInv /\ VInv /\ [Next]_vars => (IInv /\ VInv)'
  BY NextIInv, NextVInv
<1>3. IInv /\ VInv /\ VInv' /\ [Next]_vars => [Store!Next]_Store!storeVars
  BY NextRefines
<1> QED BY <1>1, <1>2, <1>3, InitRefines, PTL DEF Spec, ImplementsSnapshotStore, Store!Spec

-----------------------------------------------------------------------------
\* Induction up to a bound, for sets of numbers.
LEMMA UpTo ==
    ASSUME NEW n \in Nat, NEW S, 0 \in S, \A k \in 0 .. n - 1 : k \in S => k + 1 \in S
    PROVE  \A k \in 0 .. n : k \in S
<1> DEFINE bad == {k \in 0 .. n : k \notin S}
<1> SUFFICES ASSUME bad # {} PROVE FALSE
  OBVIOUS
<1>1. PICK k \in bad : \A m \in bad : ~(m < k)
  <2>1. IsWellFoundedOn(OpToRel(<, Nat), Nat)
    BY NatLessThanWellFounded
  <2>2. bad \subseteq Nat
    OBVIOUS
  <2>3. \E k \in bad : \A m \in bad : ~(<<m, k>> \in OpToRel(<, Nat))
    BY <2>1, <2>2, WFMin
  <2> QED BY <2>2, <2>3 DEF OpToRel
<1>2. k # 0 /\ k \in 0 .. n /\ k \notin S
  OBVIOUS
<1>3. k - 1 \in 0 .. n - 1 /\ k - 1 < k /\ k - 1 \in 0 .. n
  BY <1>2
<1>4. k - 1 \in S
  BY <1>1, <1>3
<1> QED BY <1>2, <1>3, <1>4

\* A loop of n turns has a state before the first and after each of them.
IsLoop(h, n, X, step, base) ==
    /\ h \in [0 .. n -> X]
    /\ h[0] = base
    /\ \A k \in 1 .. n : h[k] = step[k - 1][h[k - 1]]

LEMMA LoopExists ==
    ASSUME NEW n \in Nat, NEW X, NEW step \in [0 .. n - 1 -> [X -> X]], NEW base \in X
    PROVE  \E h : IsLoop(h, n, X, step, base)
<1> DEFINE Reaches(m, h) == /\ h \in [0 .. m -> X] /\ h[0] = base
                            /\ \A k \in 1 .. m : h[k] = step[k - 1][h[k - 1]]
           S == {m \in 0 .. n : \E h : Reaches(m, h)}
<1>1. 0 \in S
  <2> DEFINE h == [k \in 0 .. 0 |-> base]
  <2>1. Reaches(0, h)
    OBVIOUS
  <2> HIDE DEF Reaches
  <2> QED BY <2>1
<1>2. ASSUME NEW m \in 0 .. n - 1, m \in S PROVE m + 1 \in S
  <2>1. PICK h : Reaches(m, h)
    BY <1>2
  <2> DEFINE f == [k \in 0 .. m + 1 |-> IF k <= m THEN h[k] ELSE step[m][h[m]]]
  <2>2. m \in Nat /\ m + 1 \in 0 .. n /\ h[m] \in X /\ step[m][h[m]] \in X
    BY <2>1
  <2>3. f \in [0 .. m + 1 -> X] /\ f[0] = base
    BY <2>1, <2>2
  <2>4. ASSUME NEW k \in 1 .. m + 1 PROVE f[k] = step[k - 1][f[k - 1]]
    <3>1. CASE k = m + 1
      <4>1. k - 1 = m /\ k \in 0 .. m + 1 /\ m \in 0 .. m + 1 /\ ~(k <= m) /\ m <= m
        BY <3>1
      <4>2. f[k] = step[m][h[m]] /\ f[m] = h[m]
        BY <4>1
      <4> QED BY <4>1, <4>2
    <3>2. CASE k # m + 1
      <4>1. k \in 1 .. m /\ k \in 0 .. m + 1 /\ k - 1 \in 0 .. m + 1 /\ k <= m /\ k - 1 <= m
        BY <3>2
      <4>2. f[k] = h[k] /\ f[k - 1] = h[k - 1]
        BY <4>1
      <4> QED BY <2>1, <4>1, <4>2
    <3> QED BY <3>1, <3>2
  <2>5. Reaches(m + 1, f)
    BY <2>3, <2>4
  <2> HIDE DEF Reaches, f
  <2> QED BY <2>2, <2>5
<1> HIDE DEF S
<1>3. n \in S
  <2>1. \A k \in 0 .. n : k \in S
    BY <1>1, <1>2, UpTo
  <2> QED BY <2>1
<1>4. PICK h : Reaches(n, h)
  BY <1>3 DEF S
<1> QED BY <1>4 DEF IsLoop

-----------------------------------------------------------------------------
\* A graph on the nodes below n, a search state, what one turn of the loop of
\* detect_cycle_util answers if f is what the later turns and the calls answer.
Nodes(n) == 0 .. n - 1
GraphOn(g, n) == n \in Nat /\ g \in [Nodes(n) -> SUBSET Nodes(n)]

Below(f, u, s) == IF u \in s.visited THEN s ELSE Leave(u, f[u][0][Enter(u, s)])
Continue(f, v, u, below) ==
    IF below.found \/ u \in below.stack THEN [below EXCEPT !.found = TRUE] ELSE f[v][u + 1][below]
SearchTurn(g, n, f, v, u, s) ==
    IF u = n THEN s
    ELSE IF u \notin g[v] THEN f[v][u + 1][s]
    ELSE Continue(f, v, u, Below(f, u, s))
IsSearch(f, g, n) ==
    f = [v \in Nodes(n) |-> [u \in 0 .. n |-> [s \in SearchStates(n) |-> SearchTurn(g, n, f, v, u, s)]]]

LEMMA SearchOperators ==
    \A g, n : Successors(g, n) = (CHOOSE f : IsSearch(f, g, n))
  BY DEF Successors, IsSearch, SearchTurn, Continue, Below, Nodes

LEMMA SearchValue ==
    ASSUME NEW g, NEW n, NEW f, IsSearch(f, g, n),
           NEW v \in Nodes(n), NEW u \in 0 .. n, NEW s \in SearchStates(n)
    PROVE  f[v][u][s] = SearchTurn(g, n, f, v, u, s)
<1> DEFINE Turns(w) == [x \in 0 .. n |-> [r \in SearchStates(n) |-> SearchTurn(g, n, f, w, x, r)]]
<1>1. f = [w \in Nodes(n) |-> Turns(w)]
  BY DEF IsSearch
<1>2. f[v] = Turns(v)
  <2> HIDE DEF Turns
  <2> QED BY <1>1
<1> QED BY <1>2

\* How much of the search is left at most.
Left(n, u, s) == Cardinality(Nodes(n) \ s.visited) * (n + 1) + (n - u)

LEMMA Sizes ==
    ASSUME NEW n \in Nat, NEW V \in SUBSET Nodes(n)
    PROVE  /\ Cardinality(Nodes(n) \ V) \in 0 .. n
           /\ \A W \in SUBSET Nodes(n) : V \subseteq W =>
                  Cardinality(Nodes(n) \ W) <= Cardinality(Nodes(n) \ V)
           /\ \A u \in Nodes(n) \ V :
                  Cardinality(Nodes(n) \ (V \cup {u})) = Cardinality(Nodes(n) \ V) - 1
<1>1. IsFiniteSet(Nodes(n)) /\ Cardinality(Nodes(n)) = n
  BY FS_Interval DEF Nodes
<1>2. IsFiniteSet(Nodes(n) \ V) /\ Cardinality(Nodes(n) \ V) \in Nat /\ Cardinality(Nodes(n) \ V) <= n
  BY <1>1, FS_Subset, FS_CardinalityType
<1>3. ASSUME NEW W \in SUBSET Nodes(n), V \subseteq W
      PROVE  Cardinality(Nodes(n) \ W) <= Cardinality(Nodes(n) \ V)
  <2>1. Nodes(n) \ W \subseteq Nodes(n) \ V
    BY <1>3
  <2> QED BY <1>2, <2>1, FS_Subset
<1>4. ASSUME NEW u \in Nodes(n) \ V
      PROVE  Cardinality(Nodes(n) \ (V \cup {u})) = Cardinality(Nodes(n) \ V) - 1
  <2>1. Nodes(n) \ (V \cup {u}) = (Nodes(n) \ V) \ {u}
    OBVIOUS
  <2>2. u \in Nodes(n) \ V
    OBVIOUS
  <2> DEFINE rest == Nodes(n) \ V
  <2>3. Cardinality(rest \ {u}) = Cardinality(rest) - 1
    <3> HIDE DEF rest
    <3> QED BY <1>2, <2>2, FS_RemoveElement DEF rest
  <2> QED BY <2>1, <2>3
<1>5. Cardinality(Nodes(n) \ V) \in 0 .. n
  BY <1>2
<1> QED BY <1>3, <1>4, <1>5

\* Each use of f is for a smaller rest.
LEMMA LeftDecreases ==
    ASSUME NEW n \in Nat, NEW u \in 0 .. n, NEW s \in SearchStates(n)
    PROVE  /\ Left(n, u, s) \in Nat /\ Left(n, u, s) <= n * (n + 1) + n
           /\ \A r \in SearchStates(n) : s.visited \subseteq r.visited /\ u # n => Left(n, u + 1, r) < Left(n, u, s)
           /\ \A w \in Nodes(n) \ s.visited : Left(n, 0, Enter(w, s)) < Left(n, u, s)
<1> DEFINE c == Cardinality(Nodes(n) \ s.visited)
<1>1. s.visited \in SUBSET Nodes(n)
  BY DEF SearchStates, Nodes
<1>2. c \in 0 .. n
  BY <1>1, Sizes
<1>3. c * (n + 1) \in Nat /\ c * (n + 1) <= n * (n + 1)
  <2> HIDE DEF c
  <2>1. \A a, b, d \in Nat : a <= b => a * d \in Nat /\ a * d <= b * d
    OBVIOUS
  <2> QED BY <1>2, <2>1
<1>4. Left(n, u, s) = c * (n + 1) + (n - u)
  BY DEF Left
<1>5. Left(n, u, s) \in Nat /\ Left(n, u, s) <= n * (n + 1) + n
  <2> HIDE DEF c
  <2> QED BY <1>3, <1>4
<1>6. ASSUME NEW r \in SearchStates(n), s.visited \subseteq r.visited, u # n
      PROVE  Left(n, u + 1, r) < Left(n, u, s)
  <2> DEFINE d == Cardinality(Nodes(n) \ r.visited)
  <2>1. r.visited \in SUBSET Nodes(n)
    BY DEF SearchStates, Nodes
  <2>2. d \in 0 .. n /\ d <= c
    BY <1>1, <1>6, <2>1, Sizes
  <2>3. Left(n, u + 1, r) = d * (n + 1) + (n - (u + 1))
    BY DEF Left
  <2> HIDE DEF c, d
  <2>4. d * (n + 1) \in Nat /\ d * (n + 1) <= c * (n + 1)
    <3>1. \A a, b, e \in Nat : a <= b => a * e \in Nat /\ a * e <= b * e
      OBVIOUS
    <3> QED BY <1>2, <2>2, <3>1
  <2> QED BY <1>3, <1>4, <2>3, <2>4
<1>7. ASSUME NEW w \in Nodes(n) \ s.visited PROVE Left(n, 0, Enter(w, s)) < Left(n, u, s)
  <2>1. Enter(w, s).visited = s.visited \cup {w}
    BY DEF Enter, SearchStates
  <2>2. Cardinality(Nodes(n) \ Enter(w, s).visited) = c - 1
    BY <1>1, <2>1, Sizes
  <2>3. Left(n, 0, Enter(w, s)) = (c - 1) * (n + 1) + (n - 0)
    BY <2>2 DEF Left
  <2> HIDE DEF c
  <2>4. (c - 1) * (n + 1) = c * (n + 1) - (n + 1)
    BY <1>2
  <2> QED BY <1>3, <1>4, <2>3, <2>4
<1> QED BY <1>5, <1>6, <1>7

LEMMA StateFacts ==
    ASSUME NEW n, NEW s \in SearchStates(n)
    PROVE  s.visited \in SUBSET Nodes(n) /\ s.stack \in SUBSET Nodes(n) /\ s.found \in BOOLEAN
  BY DEF SearchStates, Nodes

LEMMA EnterFacts ==
    ASSUME NEW n, NEW s \in SearchStates(n), NEW u \in Nodes(n)
    PROVE  /\ Enter(u, s) \in SearchStates(n)
           /\ Enter(u, s).visited = s.visited \cup {u}
           /\ Enter(u, s).stack = s.stack \cup {u}
           /\ Enter(u, s).found = s.found
  BY DEF SearchStates, Enter, Nodes

LEMMA LeaveFacts ==
    ASSUME NEW n, NEW s \in SearchStates(n), NEW u
    PROVE  /\ Leave(u, s) \in SearchStates(n)
           /\ Leave(u, s).visited = s.visited
           /\ Leave(u, s).found = s.found
           /\ ~s.found => Leave(u, s).stack = s.stack \ {u}
  BY DEF SearchStates, Leave, Nodes

LEMMA FoundFacts ==
    ASSUME NEW n, NEW s \in SearchStates(n)
    PROVE  /\ [s EXCEPT !.found = TRUE] \in SearchStates(n)
           /\ [s EXCEPT !.found = TRUE].visited = s.visited
           /\ [s EXCEPT !.found = TRUE].found = TRUE
  BY DEF SearchStates, Nodes

\* What a search answers: a search state in which no fewer nodes are visited.
SearchSpace(n) ==
    {f \in [Nodes(n) -> [0 .. n -> [SearchStates(n) -> SearchStates(n)]]] :
        \A v \in Nodes(n), u \in 0 .. n, s \in SearchStates(n) : s.visited \subseteq f[v][u][s].visited}

LEMMA SpaceFacts ==
    ASSUME NEW n, NEW f \in SearchSpace(n), NEW v \in Nodes(n), NEW u \in 0 .. n, NEW s \in SearchStates(n)
    PROVE  f[v][u][s] \in SearchStates(n) /\ s.visited \subseteq f[v][u][s].visited
<1>1. f[v] \in [0 .. n -> [SearchStates(n) -> SearchStates(n)]]
  BY DEF SearchSpace
<1>2. f[v][u] \in [SearchStates(n) -> SearchStates(n)]
  BY <1>1
<1> QED BY <1>2 DEF SearchSpace

LEMMA BelowFacts ==
    ASSUME NEW n \in Nat, NEW f \in SearchSpace(n), NEW u \in Nodes(n), NEW s \in SearchStates(n)
    PROVE  Below(f, u, s) \in SearchStates(n) /\ s.visited \subseteq Below(f, u, s).visited
<1>1. CASE u \in s.visited
  BY <1>1 DEF Below
<1>2. CASE u \notin s.visited
  <2> DEFINE r == f[u][0][Enter(u, s)]
  <2>1. Enter(u, s) \in SearchStates(n) /\ s.visited \subseteq Enter(u, s).visited
    <3>1. Enter(u, s) \in SearchStates(n) /\ Enter(u, s).visited = s.visited \cup {u}
      BY EnterFacts
    <3> QED BY <3>1
  <2>2. 0 \in 0 .. n
    OBVIOUS
  <2>3. r \in SearchStates(n) /\ s.visited \subseteq r.visited
    BY <2>1, <2>2, SpaceFacts
  <2>4. Below(f, u, s) = Leave(u, r)
    BY <1>2 DEF Below
  <2> HIDE DEF r
  <2>5. Leave(u, r) \in SearchStates(n) /\ Leave(u, r).visited = r.visited
    BY <2>3, LeaveFacts
  <2>6. Enter(u, s).visited \subseteq r.visited
    BY <2>1, <2>2, SpaceFacts DEF r
  <2> QED BY <2>1, <2>4, <2>5, <2>6
<1> QED BY <1>1, <1>2

\* h is as good as f wherever less than k is left of the search.
Agree(h, f, n, k) ==
    \A v \in Nodes(n), u \in 0 .. n, s \in SearchStates(n) : Left(n, u, s) < k => h[v][u][s] = f[v][u][s]

LEMMA TurnFacts ==
    ASSUME NEW g, NEW n, GraphOn(g, n), NEW f \in SearchSpace(n),
           NEW v \in Nodes(n), NEW u \in 0 .. n, NEW s \in SearchStates(n)
    PROVE  /\ SearchTurn(g, n, f, v, u, s) \in SearchStates(n)
           /\ s.visited \subseteq SearchTurn(g, n, f, v, u, s).visited
           /\ \A h : Agree(h, f, n, Left(n, u, s)) => SearchTurn(g, n, h, v, u, s) = SearchTurn(g, n, f, v, u, s)
<1> DEFINE Claim == /\ SearchTurn(g, n, f, v, u, s) \in SearchStates(n)
                    /\ s.visited \subseteq SearchTurn(g, n, f, v, u, s).visited
                    /\ \A h : Agree(h, f, n, Left(n, u, s))
                              => SearchTurn(g, n, h, v, u, s) = SearchTurn(g, n, f, v, u, s)
<1>1. n \in Nat
  BY DEF GraphOn
<1>2. CASE u = n
  <2>1. \A h : SearchTurn(g, n, h, v, u, s) = s
    BY <1>2 DEF SearchTurn
  <2> QED BY <2>1
<1>3. CASE u # n
  <2>1. u \in Nodes(n) /\ u + 1 \in 0 .. n /\ 0 \in 0 .. n
    BY <1>1, <1>3 DEF Nodes
  <2>2. \A r \in SearchStates(n) : s.visited \subseteq r.visited => Left(n, u + 1, r) < Left(n, u, s)
    BY <1>1, <1>3, LeftDecreases
  <2>3. CASE u \notin g[v]
    <3>1. \A h : SearchTurn(g, n, h, v, u, s) = h[v][u + 1][s]
      BY <1>3, <2>3 DEF SearchTurn
    <3>2. f[v][u + 1][s] \in SearchStates(n) /\ s.visited \subseteq f[v][u + 1][s].visited
      BY <2>1, SpaceFacts
    <3>3. \A h : Agree(h, f, n, Left(n, u, s)) => h[v][u + 1][s] = f[v][u + 1][s]
      BY <2>1, <2>2 DEF Agree
    <3> QED BY <3>1, <3>2, <3>3
  <2>4. CASE u \in g[v]
    <3> DEFINE b == Below(f, u, s)
    <3>1. \A h : SearchTurn(g, n, h, v, u, s) = Continue(h, v, u, Below(h, u, s))
      BY <1>3, <2>4 DEF SearchTurn
    <3>2. b \in SearchStates(n) /\ s.visited \subseteq b.visited
      BY <1>1, <2>1, BelowFacts
    <3>3. \A h : Agree(h, f, n, Left(n, u, s)) => Below(h, u, s) = b
      <4> SUFFICES ASSUME NEW h, Agree(h, f, n, Left(n, u, s)) PROVE Below(h, u, s) = b
        OBVIOUS
      <4>1. CASE u \in s.visited
        BY <4>1 DEF Below
      <4>2. CASE u \notin s.visited
        <5>1. Left(n, 0, Enter(u, s)) < Left(n, u, s)
          BY <1>1, <2>1, <4>2, LeftDecreases
        <5>2. Enter(u, s) \in SearchStates(n)
          BY <2>1, EnterFacts
        <5>3. h[u][0][Enter(u, s)] = f[u][0][Enter(u, s)]
          BY <2>1, <5>1, <5>2 DEF Agree
        <5> QED BY <5>3 DEF Below
      <4> QED BY <4>1, <4>2
    <3> HIDE DEF b
    <3>4. /\ Continue(f, v, u, b) \in SearchStates(n)
          /\ s.visited \subseteq Continue(f, v, u, b).visited
      <4>1. CASE b.found \/ u \in b.stack
        <5>1. Continue(f, v, u, b) = [b EXCEPT !.found = TRUE]
          BY <4>1 DEF Continue
        <5> QED BY <3>2, <5>1, FoundFacts
      <4>2. CASE ~(b.found \/ u \in b.stack)
        <5>1. Continue(f, v, u, b) = f[v][u + 1][b]
          BY <4>2 DEF Continue
        <5> QED BY <2>1, <3>2, <5>1, SpaceFacts
      <4> QED BY <4>1, <4>2
    <3>5. \A h : Agree(h, f, n, Left(n, u, s)) => Continue(h, v, u, b) = Continue(f, v, u, b)
      <4> SUFFICES ASSUME NEW h, Agree(h, f, n, Left(n, u, s)) PROVE Continue(h, v, u, b) = Continue(f, v, u, b)
        OBVIOUS
      <4>1. h[v][u + 1][b] = f[v][u + 1][b]
        BY <2>1, <2>2, <3>2 DEF Agree
      <4> QED BY <4>1 DEF Continue
    <3>6. SearchTurn(g, n, f, v, u, s) = Continue(f, v, u, b)
      BY <3>1 DEF b
    <3>7. \A h : Agree(h, f, n, Left(n, u, s)) => SearchTurn(g, n, h, v, u, s) = SearchTurn(g, n, f, v, u, s)
      BY <3>1, <3>3, <3>5, <3>6
    <3> QED BY <3>4, <3>6, <3>7
  <2> QED BY <2>3, <2>4
<1> QED BY <1>1, <1>2, <1>3 DEF GraphOn

\* The search is defined: its answer is settled after as many turns as are left of it.
LEMMA SearchExists ==
    ASSUME NEW g, NEW n, GraphOn(g, n)
    PROVE  \E f \in SearchSpace(n) : IsSearch(f, g, n)
<1> DEFINE X == SearchSpace(n)
           all == n * (n + 1) + n + 2
           next(f) == [v \in Nodes(n) |-> [u \in 0 .. n |-> [s \in SearchStates(n) |-> SearchTurn(g, n, f, v, u, s)]]]
           step == [i \in 0 .. all - 1 |-> [f \in X |-> next(f)]]
           base == [v \in Nodes(n) |-> [u \in 0 .. n |-> [s \in SearchStates(n) |-> s]]]
<1>1. n \in Nat /\ all \in Nat
  BY DEF GraphOn
<1>2. base \in X
  BY DEF SearchSpace
<1>3. ASSUME NEW f \in X
      PROVE  /\ next(f) \in X
             /\ \A v \in Nodes(n), u \in 0 .. n, s \in SearchStates(n) : next(f)[v][u][s] = SearchTurn(g, n, f, v, u, s)
  <2>1. \A v \in Nodes(n), u \in 0 .. n, s \in SearchStates(n) : next(f)[v][u][s] = SearchTurn(g, n, f, v, u, s)
    OBVIOUS
  <2>2. \A v \in Nodes(n), u \in 0 .. n, s \in SearchStates(n) :
            /\ SearchTurn(g, n, f, v, u, s) \in SearchStates(n)
            /\ s.visited \subseteq SearchTurn(g, n, f, v, u, s).visited
    <3> HIDE DEF next
    <3> QED BY TurnFacts
  <2>3. next(f) \in [Nodes(n) -> [0 .. n -> [SearchStates(n) -> SearchStates(n)]]]
    BY <2>2
  <2> HIDE DEF next
  <2> QED BY <2>1, <2>2, <2>3 DEF SearchSpace
<1>4. step \in [0 .. all - 1 -> [X -> X]] /\ \A i \in 0 .. all - 1, f \in X : step[i][f] = next(f)
  <2> HIDE DEF next, all, X
  <2> QED BY <1>3
<1> HIDE DEF step, base
<1>5. PICK h : IsLoop(h, all, X, step, base)
  <2> HIDE DEF all, X
  <2> QED BY <1>1, <1>2, <1>4, LoopExists
<1>6. \A k \in 0 .. all : h[k] \in X
  <2> HIDE DEF all, X
  <2> QED BY <1>5 DEF IsLoop
<1>7. \A k \in 1 .. all : h[k] = next(h[k - 1])
  <2> SUFFICES ASSUME NEW k \in 1 .. all PROVE h[k] = next(h[k - 1])
    OBVIOUS
  <2> HIDE DEF all, X, next
  <2>1. k - 1 \in 0 .. all - 1 /\ k - 1 \in 0 .. all
    BY <1>1
  <2> QED BY <1>4, <1>5, <1>6, <2>1 DEF IsLoop
<1> HIDE DEF next, all, X
<1>8. ASSUME NEW f \in X, NEW e \in X, NEW k \in Nat, Agree(e, f, n, k)
      PROVE  Agree(next(e), next(f), n, k + 1)
  <2> SUFFICES ASSUME NEW v \in Nodes(n), NEW u \in 0 .. n, NEW s \in SearchStates(n), Left(n, u, s) < k + 1
               PROVE  next(e)[v][u][s] = next(f)[v][u][s]
    BY DEF Agree
  <2>1. Left(n, u, s) \in Nat
    BY <1>1, LeftDecreases
  <2>2. Agree(e, f, n, Left(n, u, s))
    <3> SUFFICES ASSUME NEW w \in Nodes(n), NEW x \in 0 .. n, NEW r \in SearchStates(n), Left(n, x, r) < Left(n, u, s)
                 PROVE  e[w][x][r] = f[w][x][r]
      BY DEF Agree
    <3>1. Left(n, x, r) \in Nat
      BY <1>1, LeftDecreases
    <3>2. Left(n, x, r) < k
      BY <2>1, <3>1
    <3> QED BY <1>8, <3>2 DEF Agree
  <2>3. SearchTurn(g, n, e, v, u, s) = SearchTurn(g, n, f, v, u, s)
    BY <2>2, TurnFacts DEF X
  <2> QED BY <1>3, <2>3
<1> DEFINE Settled == {k \in 0 .. all - 1 : Agree(h[k + 1], h[k], n, k)}
<1>9. 0 \in Settled
  <2>1. \A u \in 0 .. n, s \in SearchStates(n) : ~(Left(n, u, s) < 0)
    BY <1>1, LeftDecreases
  <2>2. 0 \in 0 .. all - 1
    BY <1>1 DEF all
  <2> QED BY <2>1, <2>2 DEF Agree
<1>10. ASSUME NEW k \in 0 .. (all - 1) - 1, k \in Settled PROVE k + 1 \in Settled
  <2>1. k \in Nat /\ k + 1 \in 0 .. all - 1 /\ k \in 0 .. all /\ k + 1 \in 1 .. all /\ k + 1 \in 0 .. all
        /\ (k + 1) + 1 \in 1 .. all /\ (k + 1) - 1 = k /\ ((k + 1) + 1) - 1 = k + 1
    BY <1>1
  <2>2. Agree(h[k + 1], h[k], n, k)
    BY <1>10
  <2>3. Agree(next(h[k + 1]), next(h[k]), n, k + 1)
    BY <1>6, <1>8, <2>1, <2>2
  <2>4. h[k + 1] = next(h[k])
    BY <1>7, <2>1
  <2>5. h[(k + 1) + 1] = next(h[k + 1])
    BY <1>7, <2>1
  <2> QED BY <2>1, <2>3, <2>4, <2>5
<1> HIDE DEF Settled
<1>11. all - 1 \in Settled
  <2>1. all - 1 \in Nat /\ all - 1 \in 0 .. all - 1
    BY <1>1 DEF all
  <2>2. \A k \in 0 .. all - 1 : k \in Settled
    BY <1>9, <1>10, <2>1, UpTo
  <2> QED BY <2>1, <2>2
<1> DEFINE f == h[all - 1]
<1>12. f \in X /\ Agree(next(f), f, n, all - 1)
  <2>1. all - 1 \in 0 .. all /\ all \in 1 .. all /\ (all - 1) + 1 = all
    BY <1>1 DEF all
  <2>2. h[(all - 1) + 1] = next(h[all - 1])
    BY <1>7, <2>1
  <2> QED BY <1>6, <1>11, <2>1, <2>2 DEF Settled
<1> HIDE DEF f
<1>13. \A v \in Nodes(n), u \in 0 .. n, s \in SearchStates(n) : next(f)[v][u][s] = f[v][u][s]
  <2> SUFFICES ASSUME NEW v \in Nodes(n), NEW u \in 0 .. n, NEW s \in SearchStates(n)
               PROVE  next(f)[v][u][s] = f[v][u][s]
    OBVIOUS
  <2>1. Left(n, u, s) \in Nat /\ Left(n, u, s) <= n * (n + 1) + n
    BY <1>1, LeftDecreases
  <2>2. Left(n, u, s) < all - 1
    <3>1. n * (n + 1) \in Nat
      BY <1>1
    <3> HIDE DEF Left
    <3> QED BY <1>1, <2>1, <3>1 DEF all
  <2> QED BY <1>12, <2>2 DEF Agree
<1>14. \A v \in Nodes(n), u \in 0 .. n, s \in SearchStates(n) : f[v][u][s] = SearchTurn(g, n, f, v, u, s)
  BY <1>3, <1>12, <1>13
<1>15. IsSearch(f, g, n)
  <2>1. f \in [Nodes(n) -> [0 .. n -> [SearchStates(n) -> SearchStates(n)]]]
    BY <1>12 DEF X, SearchSpace
  <2>2. \A v \in Nodes(n), u \in 0 .. n :
            f[v][u] = [s \in SearchStates(n) |-> SearchTurn(g, n, f, v, u, s)]
    <3> SUFFICES ASSUME NEW v \in Nodes(n), NEW u \in 0 .. n
                 PROVE  f[v][u] = [s \in SearchStates(n) |-> SearchTurn(g, n, f, v, u, s)]
      OBVIOUS
    <3>1. f[v][u] \in [SearchStates(n) -> SearchStates(n)]
      BY <2>1
    <3>2. \A s \in SearchStates(n) : f[v][u][s] = SearchTurn(g, n, f, v, u, s)
      BY <1>14
    <3> QED BY <3>1, <3>2
  <2>3. \A v \in Nodes(n) :
            f[v] = [u \in 0 .. n |-> [s \in SearchStates(n) |-> SearchTurn(g, n, f, v, u, s)]]
    BY <2>1, <2>2
  <2> QED BY <2>1, <2>3 DEF IsSearch
<1> QED BY <1>12, <1>15 DEF X

-----------------------------------------------------------------------------
\* A search that has not found anything: from a node that is done with, which is
\* visited and not on the stack, only such nodes are reached, and there is no cycle
\* among them.
Done(s) == s.visited \ s.stack
SearchInv(g, n, s) ==
    /\ s \in SearchStates(n) /\ ~s.found /\ s.stack \subseteq s.visited
    /\ \A w \in Done(s) : g[w] \subseteq Done(s)
    /\ \A S \in SUBSET Done(s) : S # {} => \E w \in S : g[w] \cap S = {}

\* What may become of a search state s.
Answer(g, n, s, r) ==
    /\ r \in SearchStates(n) /\ s.visited \subseteq r.visited
    /\ r.found => HasCycle(g)
    /\ ~r.found => SearchInv(g, n, r) /\ r.stack = s.stack

\* The loop for v is at u: the stack is a path to v, and the successors so far are done
\* with.  When it is over, all of them are.
AtSuccessor(g, n, v, u, s) ==
    /\ SearchInv(g, n, s) /\ v \in s.stack
    /\ \A w \in s.stack \ {v} : g[w] \cap s.stack # {}
    /\ \A w \in Nodes(n) : w < u /\ w \in g[v] => w \in Done(s)
LoopAnswer(g, n, v, s, r) == Answer(g, n, s, r) /\ (~r.found => g[v] \subseteq Done(r))

LEMMA CallRight ==
    ASSUME NEW g, NEW n, GraphOn(g, n), NEW s, SearchInv(g, n, s), NEW u \in Nodes(n) \ s.visited,
           \A w \in s.stack : g[w] \cap (s.stack \cup {u}) # {}, NEW r,
           AtSuccessor(g, n, u, 0, Enter(u, s)) => LoopAnswer(g, n, u, Enter(u, s), r)
    PROVE  Answer(g, n, s, Leave(u, r)) /\ (~Leave(u, r).found => u \in Done(Leave(u, r)))
<1> DEFINE e == Enter(u, s)
           b == Leave(u, r)
<1>1. s \in SearchStates(n) /\ s.stack \subseteq s.visited /\ ~s.found /\ u \in Nodes(n)
  BY DEF SearchInv
<1>2. /\ e \in SearchStates(n) /\ e.visited = s.visited \cup {u} /\ e.stack = s.stack \cup {u}
      /\ e.found = s.found
  BY <1>1, EnterFacts
<1>3. Done(e) = Done(s) /\ u \notin Done(s)
  BY <1>1, <1>2 DEF Done
<1> HIDE DEF e, b
<1>4. SearchInv(g, n, e)
  <2>1. e.stack \subseteq e.visited /\ ~e.found
    BY <1>1, <1>2
  <2> QED BY <1>2, <1>3, <2>1 DEF SearchInv
<1>5. AtSuccessor(g, n, u, 0, e)
  <2>1. \A w \in Nodes(n) : ~(w < 0)
    BY DEF Nodes, GraphOn
  <2> QED BY <1>2, <1>4, <2>1 DEF AtSuccessor
<1>6. LoopAnswer(g, n, u, e, r)
  BY <1>5 DEF e
<1>7. /\ r \in SearchStates(n) /\ e.visited \subseteq r.visited
      /\ r.found => HasCycle(g)
      /\ ~r.found => SearchInv(g, n, r) /\ r.stack = e.stack /\ g[u] \subseteq Done(r)
  BY <1>6 DEF LoopAnswer, Answer
<1>8. /\ b \in SearchStates(n) /\ b.visited = r.visited /\ b.found = r.found
      /\ ~r.found => b.stack = r.stack \ {u}
  BY <1>7, LeaveFacts DEF b
<1>9. s.visited \subseteq b.visited
  BY <1>2, <1>7, <1>8
<1>10. CASE r.found
  BY <1>7, <1>8, <1>9, <1>10 DEF Answer, b
<1>11. CASE ~r.found
  <2>1. SearchInv(g, n, r) /\ r.stack = s.stack \cup {u} /\ g[u] \subseteq Done(r)
    BY <1>2, <1>7, <1>11
  <2>2. b.stack = s.stack
    BY <1>1, <1>8, <1>11, <2>1
  <2>3. Done(b) = Done(r) \cup {u} /\ u \notin Done(r)
    BY <1>1, <1>2, <1>7, <1>8, <2>1, <2>2 DEF Done
  <2>4. \A w \in Done(b) : g[w] \subseteq Done(b)
    BY <2>1, <2>3 DEF SearchInv
  <2>5. ASSUME NEW S \in SUBSET Done(b), S # {}
        PROVE  \E w \in S : g[w] \cap S = {}
    <3> DEFINE T == S \ {u}
    <3>1. CASE T = {}
      <4>1. S = {u} /\ g[u] \cap {u} = {}
        BY <2>1, <2>3, <2>5, <3>1
      <4> QED BY <4>1
    <3>2. CASE T # {}
      <4>1. T \in SUBSET Done(r)
        BY <2>3
      <4>2. PICK w \in T : g[w] \cap T = {}
        BY <2>1, <3>2, <4>1 DEF SearchInv
      <4>3. u \notin g[w]
        BY <2>1, <2>3, <4>1, <4>2 DEF SearchInv
      <4> QED BY <4>2, <4>3
    <3> QED BY <3>1, <3>2
  <2>6. b.stack \subseteq b.visited
    BY <1>1, <1>9, <2>2
  <2>7. SearchInv(g, n, b)
    BY <1>8, <1>11, <2>4, <2>5, <2>6 DEF SearchInv
  <2> QED BY <1>8, <1>9, <1>11, <2>2, <2>3, <2>7 DEF Answer, b
<1>12. r.found \in BOOLEAN
  BY <1>7, StateFacts
<1> QED BY <1>10, <1>11, <1>12 DEF b

\* A turn of the loop leads to the rest of it, if calls and later turns do as they should.
Answers(g, n, f, k) ==
    \A v \in Nodes(n), u \in 0 .. n, s \in SearchStates(n) :
        Left(n, u, s) < k /\ AtSuccessor(g, n, v, u, s) => LoopAnswer(g, n, v, s, f[v][u][s])

LEMMA TurnRight ==
    ASSUME NEW g, NEW n, GraphOn(g, n), NEW f,
           NEW v \in Nodes(n), NEW u \in 0 .. n, NEW s \in SearchStates(n),
           AtSuccessor(g, n, v, u, s), Answers(g, n, f, Left(n, u, s))
    PROVE  LoopAnswer(g, n, v, s, SearchTurn(g, n, f, v, u, s))
<1>1. n \in Nat /\ g \in [Nodes(n) -> SUBSET Nodes(n)] /\ DOMAIN g = Nodes(n)
  BY DEF GraphOn
<1>2. /\ SearchInv(g, n, s) /\ v \in s.stack /\ s.stack \subseteq s.visited /\ ~s.found
      /\ \A w \in s.stack \ {v} : g[w] \cap s.stack # {}
      /\ \A w \in Nodes(n) : w < u /\ w \in g[v] => w \in Done(s)
  BY DEF AtSuccessor, SearchInv
<1>3. s.visited \in SUBSET Nodes(n) /\ s.stack \in SUBSET Nodes(n)
  BY StateFacts
<1>4. CASE u = n
  <2>1. SearchTurn(g, n, f, v, u, s) = s
    BY <1>4 DEF SearchTurn
  <2>2. g[v] \subseteq Done(s)
    <3>1. \A w \in Nodes(n) : w < n
      BY <1>1 DEF Nodes
    <3> QED BY <1>1, <1>2, <1>4, <3>1
  <2> QED BY <1>2, <2>1, <2>2 DEF LoopAnswer, Answer
<1>5. CASE u # n
  <2>1. u \in Nodes(n) /\ u + 1 \in 0 .. n /\ 0 \in 0 .. n
    BY <1>1, <1>5 DEF Nodes
  \* the rest of the loop from a state in which u has been looked at
  <2>2. ASSUME NEW b, SearchInv(g, n, b), b.stack = s.stack, s.visited \subseteq b.visited,
               u \in g[v] => u \in Done(b)
        PROVE  LoopAnswer(g, n, v, s, f[v][u + 1][b])
    <3>1. b \in SearchStates(n)
      BY <2>2 DEF SearchInv
    <3>2. Left(n, u + 1, b) < Left(n, u, s)
      BY <1>1, <1>5, <2>2, <3>1, LeftDecreases
    <3>3. \A w \in Nodes(n) : w < u + 1 /\ w \in g[v] => w \in Done(b)
      <4> SUFFICES ASSUME NEW w \in Nodes(n), w < u + 1, w \in g[v] PROVE w \in Done(b)
        OBVIOUS
      <4>1. w = u \/ w < u
        BY <1>1 DEF Nodes
      <4>2. Done(s) \subseteq Done(b)
        BY <2>2 DEF Done
      <4> QED BY <1>2, <2>2, <4>1, <4>2
    <3>4. AtSuccessor(g, n, v, u + 1, b)
      BY <1>2, <2>2, <3>3 DEF AtSuccessor
    <3>5. LoopAnswer(g, n, v, b, f[v][u + 1][b])
      BY <2>1, <3>1, <3>2, <3>4 DEF Answers
    <3> QED BY <2>2, <3>5 DEF LoopAnswer, Answer
  <2>3. CASE u \notin g[v]
    <3>1. SearchTurn(g, n, f, v, u, s) = f[v][u + 1][s]
      BY <1>5, <2>3 DEF SearchTurn
    <3> QED BY <1>2, <2>2, <2>3, <3>1
  <2>4. CASE u \in g[v]
    <3> DEFINE b == Below(f, u, s)
    <3>1. SearchTurn(g, n, f, v, u, s) = Continue(f, v, u, b)
      BY <1>5, <2>4 DEF SearchTurn
    <3>2. CASE u \in s.stack
      <4>1. b = s
        BY <1>2, <3>2 DEF Below
      <4>2. Continue(f, v, u, b) = [s EXCEPT !.found = TRUE]
        BY <3>2, <4>1 DEF Continue
      <4>3. \A w \in s.stack : g[w] \cap s.stack # {}
        BY <1>2, <2>4, <3>2
      <4>4. HasCycle(g)
        BY <1>1, <1>2, <1>3, <4>3 DEF HasCycle
      <4>5. /\ [s EXCEPT !.found = TRUE] \in SearchStates(n)
            /\ [s EXCEPT !.found = TRUE].visited = s.visited
            /\ [s EXCEPT !.found = TRUE].found = TRUE
        BY FoundFacts
      <4> QED BY <3>1, <4>2, <4>4, <4>5 DEF LoopAnswer, Answer
    <3>3. CASE u \in s.visited /\ u \notin s.stack
      <4>1. b = s
        BY <3>3 DEF Below
      <4>2. Continue(f, v, u, b) = f[v][u + 1][s]
        BY <1>2, <3>3, <4>1 DEF Continue
      <4>3. u \in Done(s)
        BY <3>3 DEF Done
      <4> QED BY <1>2, <2>2, <3>1, <4>2, <4>3
    <3>4. CASE u \notin s.visited
      <4> DEFINE e == Enter(u, s)
                 r == f[u][0][e]
      <4>1. e \in SearchStates(n) /\ Left(n, 0, e) < Left(n, u, s)
        BY <1>1, <2>1, <3>4, LeftDecreases, EnterFacts
      <4>2. AtSuccessor(g, n, u, 0, e) => LoopAnswer(g, n, u, e, r)
        <5> HIDE DEF e
        <5> QED BY <2>1, <4>1 DEF Answers
      <4>3. \A w \in s.stack : g[w] \cap (s.stack \cup {u}) # {}
        BY <1>2, <2>4
      <4>4. b = Leave(u, r)
        BY <3>4 DEF Below
      <4>5. Answer(g, n, s, b) /\ (~b.found => u \in Done(b))
        <5>1. u \in Nodes(n) \ s.visited
          BY <2>1, <3>4
        <5> HIDE DEF r, b
        <5> QED BY <1>2, <4>2, <4>3, <4>4, <5>1, CallRight DEF e
      <4> HIDE DEF b, r
      <4>6. CASE b.found
        <5>1. Continue(f, v, u, b) = [b EXCEPT !.found = TRUE]
          BY <4>6 DEF Continue
        <5>2. b \in SearchStates(n) /\ s.visited \subseteq b.visited /\ HasCycle(g)
          BY <4>5, <4>6 DEF Answer
        <5>3. /\ [b EXCEPT !.found = TRUE] \in SearchStates(n)
              /\ [b EXCEPT !.found = TRUE].visited = b.visited
              /\ [b EXCEPT !.found = TRUE].found = TRUE
          BY <5>2, FoundFacts
        <5> QED BY <3>1, <5>1, <5>2, <5>3 DEF LoopAnswer, Answer
      <4>7. CASE ~b.found
        <5>1. SearchInv(g, n, b) /\ b.stack = s.stack /\ s.visited \subseteq b.visited /\ u \in Done(b)
          BY <4>5, <4>7 DEF Answer
        <5>2. Continue(f, v, u, b) = f[v][u + 1][b]
          BY <4>7, <5>1 DEF Continue, Done
        <5> QED BY <2>2, <3>1, <5>1, <5>2
      <4>8. b.found \in BOOLEAN
        BY <4>5, StateFacts DEF Answer
      <4> QED BY <4>6, <4>7, <4>8
    <3> QED BY <3>2, <3>3, <3>4
  <2> QED BY <2>3, <2>4
<1> QED BY <1>1, <1>4, <1>5

\* Hence the whole loop does, by induction on what is left of the search.
LEMMA SearchRight ==
    ASSUME NEW g, NEW n, GraphOn(g, n), NEW f, IsSearch(f, g, n),
           NEW v \in Nodes(n), NEW u \in 0 .. n, NEW s \in SearchStates(n), AtSuccessor(g, n, v, u, s)
    PROVE  LoopAnswer(g, n, v, s, f[v][u][s])
<1> DEFINE m == Left(n, u, s) + 1
           S == {k \in 0 .. m : Answers(g, n, f, k)}
<1>1. m \in Nat /\ Left(n, u, s) < m
  <2>1. Left(n, u, s) \in Nat
    BY LeftDecreases DEF GraphOn
  <2> QED BY <2>1
<1>2. 0 \in S
  <2>1. \A x \in 0 .. n, r \in SearchStates(n) : ~(Left(n, x, r) < 0)
    BY LeftDecreases DEF GraphOn
  <2>2. 0 \in 0 .. m
    <3> HIDE DEF m
    <3> QED BY <1>1
  <2> HIDE DEF m
  <2> QED BY <2>1, <2>2 DEF Answers
<1>3. ASSUME NEW k \in 0 .. m - 1, k \in S PROVE k + 1 \in S
  <2> HIDE DEF m
  <2>1. Answers(g, n, f, k) /\ k + 1 \in 0 .. m /\ k \in Nat
    BY <1>1, <1>3
  <2>2. ASSUME NEW w \in Nodes(n), NEW x \in 0 .. n, NEW r \in SearchStates(n),
               Left(n, x, r) < k + 1, AtSuccessor(g, n, w, x, r)
        PROVE  LoopAnswer(g, n, w, r, f[w][x][r])
    <3>1. Left(n, x, r) \in Nat /\ \A y \in 0 .. n, q \in SearchStates(n) : Left(n, y, q) \in Nat
      BY LeftDecreases DEF GraphOn
    <3>2. \A y \in 0 .. n, q \in SearchStates(n) : Left(n, y, q) < Left(n, x, r) => Left(n, y, q) < k
      BY <2>1, <2>2, <3>1
    <3>3. Answers(g, n, f, Left(n, x, r))
      BY <2>1, <3>2 DEF Answers
    <3>4. f[w][x][r] = SearchTurn(g, n, f, w, x, r)
      BY SearchValue
    <3> QED BY <2>2, <3>3, <3>4, TurnRight
  <2>3. Answers(g, n, f, k + 1)
    BY <2>2 DEF Answers
  <2> QED BY <2>1, <2>3
<1> HIDE DEF m, S
<1>4. m \in S
  <2>1. \A k \in 0 .. m : k \in S
    BY <1>1, <1>2, <1>3, UpTo
  <2> QED BY <1>1, <2>1
<1>5. Answers(g, n, f, m)
  BY <1>4 DEF S
<1> QED BY <1>1, <1>5 DEF Answers

\* The loop of detect_deadlock.
RootTurn(g, n, i, s) == IF s.found \/ i \in s.visited THEN s ELSE detect_cycle_util(g, n, i, s)
IsRoots(a, g, n) == a = [i \in 0 .. n |-> IF i = 0 THEN Start ELSE RootTurn(g, n, i - 1, a[i - 1])]

LEMMA RootOperators ==
    \A g, n : detect_deadlock(g, n) = (CHOOSE a : IsRoots(a, g, n))[n].found
  BY DEF detect_deadlock, IsRoots, RootTurn

\* Between its turns, there is a cycle or nothing is left on the stack.
RootStates(g, n) ==
    {s \in SearchStates(n) : /\ s.found => HasCycle(g)
                             /\ ~s.found => SearchInv(g, n, s) /\ s.stack = {}}

LEMMA RootTurnRight ==
    ASSUME NEW g, NEW n, GraphOn(g, n), NEW s \in RootStates(g, n), NEW i \in Nodes(n)
    PROVE  /\ RootTurn(g, n, i, s) \in RootStates(g, n)
           /\ s.visited \subseteq RootTurn(g, n, i, s).visited
           /\ ~RootTurn(g, n, i, s).found => ~s.found /\ i \in RootTurn(g, n, i, s).visited
<1>1. s \in SearchStates(n)
  BY DEF RootStates
<1>2. CASE s.found \/ i \in s.visited
  <2>1. RootTurn(g, n, i, s) = s
    BY <1>2 DEF RootTurn
  <2> QED BY <1>2, <2>1
<1>3. CASE ~(s.found \/ i \in s.visited)
  <2> DEFINE f == CHOOSE h : IsSearch(h, g, n)
             e == Enter(i, s)
             r == f[i][0][e]
             b == Leave(i, r)
  <2>1. IsSearch(f, g, n)
    BY SearchExists
  <2>2. RootTurn(g, n, i, s) = b
    BY <1>3, SearchOperators DEF RootTurn, detect_cycle_util
  <2>3. SearchInv(g, n, s) /\ s.stack = {} /\ i \in Nodes(n) \ s.visited
    BY <1>3 DEF RootStates
  <2>4. e \in SearchStates(n) /\ 0 \in 0 .. n
    BY <1>1, EnterFacts DEF GraphOn
  <2>5. AtSuccessor(g, n, i, 0, e) => LoopAnswer(g, n, i, e, r)
    <3> HIDE DEF f, e
    <3> QED BY <2>1, <2>4, SearchRight
  <2>6. Answer(g, n, s, b) /\ (~b.found => i \in Done(b))
    <3> HIDE DEF r
    <3> QED BY <2>3, <2>5, CallRight
  <2> HIDE DEF b
  <2> QED BY <1>3, <2>2, <2>3, <2>6 DEF Answer, RootStates, Done
<1> QED BY <1>2, <1>3

\* detect_deadlock answers 1 exactly if the graph has a cycle.
THEOREM SearchFindsCycles ==
    ASSUME NEW g, NEW n, GraphOn(g, n)
    PROVE  detect_deadlock(g, n) <=> HasCycle(g)
<1> DEFINE X == RootStates(g, n)
           step == [i \in 0 .. n - 1 |-> [s \in X |-> RootTurn(g, n, i, s)]]
           a == CHOOSE h : IsRoots(h, g, n)
<1>1. n \in Nat /\ DOMAIN g = Nodes(n) /\ Nodes(n) = 0 .. n - 1
  BY DEF GraphOn, Nodes
<1>2. Start \in X
  <2>1. Start \in SearchStates(n) /\ Start.found = FALSE /\ Start.stack = {} /\ Start.visited = {}
    BY DEF Start, SearchStates
  <2>2. Done(Start) = {}
    BY <2>1 DEF Done
  <2>3. SearchInv(g, n, Start)
    BY <2>1, <2>2 DEF SearchInv
  <2> QED BY <2>1, <2>3 DEF RootStates
<1>3. \A i \in 0 .. n - 1, s \in X : RootTurn(g, n, i, s) \in X
  BY <1>1, RootTurnRight
<1>4. IsRoots(a, g, n)
  <2>1. step \in [0 .. n - 1 -> [X -> X]] /\ \A i \in 0 .. n - 1, s \in X : step[i][s] = RootTurn(g, n, i, s)
    <3> HIDE DEF X
    <3> QED BY <1>3
  <2> HIDE DEF step, X
  <2>2. PICK h : IsLoop(h, n, X, step, Start)
    BY <1>1, <1>2, <2>1, LoopExists
  <2>3. \A i \in 0 .. n : h[i] = IF i = 0 THEN Start ELSE RootTurn(g, n, i - 1, h[i - 1])
    <3> SUFFICES ASSUME NEW i \in 0 .. n, i # 0 PROVE h[i] = RootTurn(g, n, i - 1, h[i - 1])
      BY <2>2 DEF IsLoop
    <3>1. i \in 1 .. n /\ i - 1 \in 0 .. n - 1 /\ i - 1 \in 0 .. n
      BY <1>1
    <3> QED BY <2>1, <2>2, <3>1 DEF IsLoop
  <2>4. h = [i \in 0 .. n |-> IF i = 0 THEN Start ELSE RootTurn(g, n, i - 1, h[i - 1])]
    BY <2>2, <2>3 DEF IsLoop
  <2>5. IsRoots(h, g, n)
    BY <2>4 DEF IsRoots
  <2> QED BY <2>5
<1> HIDE DEF a, X
<1>5. /\ a[0] = Start
      /\ \A i \in 0 .. n - 1 : a[i + 1] = RootTurn(g, n, i, a[i])
  <2>1. \A i \in 0 .. n : a[i] = IF i = 0 THEN Start ELSE RootTurn(g, n, i - 1, a[i - 1])
    BY <1>4 DEF IsRoots
  <2>2. 0 \in 0 .. n
    BY <1>1
  <2>3. ASSUME NEW i \in 0 .. n - 1 PROVE a[i + 1] = RootTurn(g, n, i, a[i])
    <3>1. i + 1 \in 0 .. n /\ i + 1 # 0 /\ (i + 1) - 1 = i
      BY <1>1
    <3> QED BY <2>1, <3>1
  <2> QED BY <2>1, <2>2, <2>3
<1> DEFINE S == {i \in 0 .. n : a[i] \in X /\ (~a[i].found => 0 .. i - 1 \subseteq a[i].visited)}
<1>6. 0 \in S
  <2>1. 0 .. 0 - 1 = {} /\ 0 \in 0 .. n
    BY <1>1
  <2> QED BY <1>2, <1>5, <2>1
<1>7. ASSUME NEW i \in 0 .. n - 1, i \in S PROVE i + 1 \in S
  <2>1. a[i] \in X /\ a[i + 1] = RootTurn(g, n, i, a[i]) /\ i + 1 \in 0 .. n
    BY <1>1, <1>5, <1>7
  <2>2. /\ a[i + 1] \in X /\ a[i].visited \subseteq a[i + 1].visited
        /\ ~a[i + 1].found => ~a[i].found /\ i \in a[i + 1].visited
    BY <1>1, <2>1, RootTurnRight DEF X
  <2>3. 0 .. (i + 1) - 1 = (0 .. i - 1) \cup {i}
    BY <1>1
  <2> QED BY <1>7, <2>1, <2>2, <2>3
<1>8. n \in S
  <2> HIDE DEF S
  <2>1. \A i \in 0 .. n : i \in S
    BY <1>1, <1>6, <1>7, UpTo
  <2> QED BY <1>1, <2>1
<1>9. detect_deadlock(g, n) = a[n].found
  BY RootOperators DEF a
<1>10. a[n] \in SearchStates(n) /\ a[n].found \in BOOLEAN
  BY <1>8, StateFacts DEF X, RootStates
<1>11. a[n].found => HasCycle(g)
  BY <1>8 DEF X, RootStates
<1>12. ASSUME ~a[n].found PROVE ~HasCycle(g)
  <2>1. SearchInv(g, n, a[n]) /\ a[n].stack = {} /\ Nodes(n) \subseteq a[n].visited
    BY <1>1, <1>8, <1>12 DEF X, RootStates
  <2>2. \A T \in SUBSET Nodes(n) : T # {} => \E w \in T : g[w] \cap T = {}
    BY <2>1 DEF SearchInv, Done
  <2> QED BY <1>1, <2>2 DEF HasCycle
<1> QED BY <1>9, <1>10, <1>11, <1>12

\* DetectsCycles: whatever waits acquire_lock has recorded, detect_deadlock answers 1
\* exactly if there is a cycle among them.
THEOREM DeadlocksDetected == Spec => []DetectsCycles
<1>1. IInv => DetectsCycles
  <2> SUFFICES ASSUME IInv PROVE detect_deadlock(Edges, MAX_TX) <=> HasCycle(wait_for)
    BY DEF DetectsCycles
  <2>1. /\ wait_for \in [Tx -> SUBSET Tx] /\ DOMAIN wait_for = Tx
        /\ MAX_TX \in Nat /\ Tx \subseteq Nodes(MAX_TX)
    BY MvccAssumption DEF IInv, LockTable, Nodes
  <2>2. DOMAIN Edges = Nodes(MAX_TX) /\ \A v \in Nodes(MAX_TX) : Edges[v] = IF v \in Tx THEN wait_for[v] ELSE {}
    BY DEF Edges, Nodes
  <2>3. GraphOn(Edges, MAX_TX)
    <3>1. \A v \in Nodes(MAX_TX) : (IF v \in Tx THEN wait_for[v] ELSE {}) \in SUBSET Nodes(MAX_TX)
      BY <2>1
    <3> QED BY <2>1, <3>1 DEF GraphOn, Edges, Nodes
  <2>4. detect_deadlock(Edges, MAX_TX) <=> HasCycle(Edges)
    BY <2>3, SearchFindsCycles
  <2>5. ASSUME NEW S \in SUBSET Nodes(MAX_TX), \A v \in S : Edges[v] \cap S # {}
        PROVE  S \in SUBSET Tx /\ \A v \in S : wait_for[v] \cap S # {}
    <3> SUFFICES ASSUME NEW v \in S PROVE v \in Tx /\ wait_for[v] \cap S # {}
      OBVIOUS
    <3> QED BY <2>2, <2>5
  <2>6. ASSUME NEW S \in SUBSET Tx, \A v \in S : wait_for[v] \cap S # {}
        PROVE  S \in SUBSET Nodes(MAX_TX) /\ \A v \in S : Edges[v] \cap S # {}
    BY <2>1, <2>2, <2>6
  <2>7. HasCycle(Edges) => HasCycle(wait_for)
    BY <2>1, <2>2, <2>5 DEF HasCycle
  <2>8. HasCycle(wait_for) => HasCycle(Edges)
    BY <2>1, <2>2, <2>6 DEF HasCycle
  <2> QED BY <2>4, <2>7, <2>8
<1> QED BY InitIInv, NextIInv, <1>1, PTL DEF Spec

=============================================================================
