-------------------------------- MODULE Mvcc --------------------------------
(***************************************************************************)
(* src/transaction_mvcc.c: a store that keeps several versions of each     *)
(* key, with locks held to the end of a transaction, logical timestamps    *)
(* and a wait-for graph.  One action per function of the interface; each   *)
(* call runs with the global mutex held, as in main, so it is one step,    *)
(* and the clients' calls interleave in any order that keeps to the        *)
(* protocol main follows: begin before use, a WRITE lock before a write.   *)
(*                                                                         *)
(* A key without versions is the same as an absent key to every function,  *)
(* so db is a function from keys to version lists.  A list of locks is a   *)
(* set, since every use of it asks for the existence of a lock.            *)
(***************************************************************************)
EXTENDS Integers, Sequences, FiniteSets, WaitForGraph

CONSTANTS MAX_TX,        \* slots of transactions[]
          Tx,            \* the transaction ids in use, indices of transactions[]
          Keys, Values,
          NoValue,       \* NULL, the result of a read that finds no version
          ReuseIds,      \* may begin_tx take the id of a finished transaction?
          MaxTs,         \* bound: global_ts stops here
          MaxVersions    \* bound: versions of one key

ASSUME MvccAssumption ==
    /\ MAX_TX \in Nat
    /\ Tx \subseteq 0 .. MAX_TX - 1
    /\ NoValue \notin Values
    /\ ReuseIds \in BOOLEAN
    /\ MaxTs \in Nat
    /\ MaxVersions \in Nat

VARIABLES versions,    \* versions[k]: the version list of key k, as linked
          active,      \* active[t], start_ts[t], locks[t]: transactions[t]
          start_ts,
          locks,
          global_ts,
          wait_for,    \* wait_for[t]: the transactions u with wait_for[t][u] = 1
          waiting      \* history: the transactions that were refused a lock
                       \* since the last release of locks

vars == <<versions, active, start_ts, locks, global_ts, wait_for, waiting>>

LockType == {"READ", "WRITE"}

Init ==
    /\ versions = [k \in Keys |-> <<>>]
    /\ active = [t \in Tx |-> FALSE]
    /\ start_ts = [t \in Tx |-> 0]
    /\ locks = [t \in Tx |-> {}]
    /\ global_ts = 1
    /\ wait_for = [t \in Tx |-> {}]
    /\ waiting = {}

-----------------------------------------------------------------------------
\* begin_tx.  It overwrites the slot, so the protocol keeps it away from the id
\* of an active transaction.
Begin(t) ==
    /\ ~active[t]
    /\ ReuseIds \/ start_ts[t] = 0
    /\ global_ts < MaxTs
    /\ active' = [active EXCEPT ![t] = TRUE]
    /\ start_ts' = [start_ts EXCEPT ![t] = global_ts]
    /\ global_ts' = global_ts + 1
    /\ locks' = [locks EXCEPT ![t] = {}]
    /\ UNCHANGED <<versions, wait_for, waiting>>

-----------------------------------------------------------------------------
\* The transactions whose locks stand in the way of t's request.
\* Mutant: only the type of the request matters, a reader passes a writer.
ConflictsMutant(t, k, type) ==
    {u \in Tx \ {t} : active[u] /\ \E held \in LockType :
                          <<k, held>> \in locks[u] /\ type = "WRITE"}
Conflicts(t, k, type) ==
    {u \in Tx \ {t} : active[u] /\ \E held \in LockType :
                          <<k, held>> \in locks[u] /\ "WRITE" \in {held, type}}

\* The loop over transactions[] stops at the first conflict.
First(S) == CHOOSE t \in S : \A u \in S : t <= u

\* acquire_lock returning 1.
Grant(t, k, type) ==
    /\ active[t]
    /\ Conflicts(t, k, type) = {}
    /\ locks' = [locks EXCEPT ![t] = @ \cup {<<k, type>>}]
    /\ waiting' = waiting \ {t}
    /\ UNCHANGED <<versions, active, start_ts, global_ts, wait_for>>

\* acquire_lock returning 0: the caller has to wait.
\* Mutant: a refused READ request leaves no edge.
RefuseMutant(t, k, type) ==
    /\ active[t]
    /\ Conflicts(t, k, type) # {}
    /\ wait_for' = IF type = "READ" THEN wait_for
                   ELSE [wait_for EXCEPT ![t] = @ \cup {First(Conflicts(t, k, type))}]
    /\ waiting' = waiting \cup {t}
    /\ UNCHANGED <<versions, active, start_ts, locks, global_ts>>
Refuse(t, k, type) ==
    /\ active[t]
    /\ Conflicts(t, k, type) # {}
    /\ wait_for' = [wait_for EXCEPT ![t] = @ \cup {First(Conflicts(t, k, type))}]
    /\ waiting' = waiting \cup {t}
    /\ UNCHANGED <<versions, active, start_ts, locks, global_ts>>

-----------------------------------------------------------------------------
Version(t, v) == [value |-> v, tx |-> t, committed |-> FALSE, ts |-> 0]

\* mvcc_write pushes a tentative version at the head of the list.  The lock is
\* the caller's duty: the function does not look for one.
\* Mutant: the version goes to the end of the list.
WriteMutant(t, k, v) ==
    /\ active[t]
    /\ <<k, "WRITE">> \in locks[t]
    /\ Len(versions[k]) < MaxVersions
    /\ versions' = [versions EXCEPT ![k] = Append(@, Version(t, v))]
    /\ UNCHANGED <<active, start_ts, locks, global_ts, wait_for, waiting>>
Write(t, k, v) ==
    /\ active[t]
    /\ <<k, "WRITE">> \in locks[t]
    /\ Len(versions[k]) < MaxVersions
    /\ versions' = [versions EXCEPT ![k] = <<Version(t, v)>> \o @]
    /\ UNCHANGED <<active, start_ts, locks, global_ts, wait_for, waiting>>

\* mvcc_read walks the list to the first version that t may see.
Visible(t, ver) ==
    IF ver.committed THEN ver.ts <= start_ts[t] ELSE ver.tx = t

FirstValue(list, Test(_)) ==
    LET found == {n \in DOMAIN list : Test(list[n])}
    IN  IF found = {} THEN NoValue
        ELSE list[CHOOSE n \in found : \A m \in found : n <= m].value

mvcc_read(t, k) ==
    LET VisibleToT(ver) == Visible(t, ver) IN FirstValue(versions[k], VisibleToT)

-----------------------------------------------------------------------------
\* The end of a transaction: release_locks, and the slot is no longer active.
Finish(t) ==
    /\ locks' = [locks EXCEPT ![t] = {}]
    /\ active' = [active EXCEPT ![t] = FALSE]
    /\ waiting' = {}

\* commit_tx stamps every version that carries the id of t.
\* Mutant: the versions get the timestamp at which the transaction began.
StampMutant(t, ver) ==
    IF ver.tx = t THEN [ver EXCEPT !.committed = TRUE, !.ts = start_ts[t]] ELSE ver
Stamp(t, ver) ==
    IF ver.tx = t THEN [ver EXCEPT !.committed = TRUE, !.ts = global_ts] ELSE ver

Commit(t) ==
    /\ active[t]
    /\ versions' = [k \in Keys |-> [n \in DOMAIN versions[k] |-> Stamp(t, versions[k][n])]]
    /\ global_ts' = global_ts + 1
    /\ Finish(t)
    /\ UNCHANGED <<start_ts, wait_for>>

\* abort_tx unlinks every version that carries the id of t, committed or not: place
\* m of the list is taken by the m-th version that stays.  (SelectSeq, but without the
\* recursion in it, which a proof cannot follow.)
Unlink(list, t) ==
    LET kept == {n \in DOMAIN list : list[n].tx # t}
        Place(n) == Cardinality({i \in kept : i <= n})
    IN  [m \in 1 .. Cardinality(kept) |-> list[CHOOSE n \in kept : Place(n) = m]]

Abort(t) ==
    /\ active[t]
    /\ versions' = [k \in Keys |-> Unlink(versions[k], t)]
    /\ Finish(t)
    /\ UNCHANGED <<start_ts, global_ts, wait_for>>

Next ==
    \E t \in Tx :
        \/ Begin(t) \/ Commit(t) \/ Abort(t)
        \/ \E k \in Keys, type \in LockType : Grant(t, k, type) \/ Refuse(t, k, type)
        \/ \E k \in Keys, v \in Values : Write(t, k, v)

Spec == Init /\ [][Next]_vars

-----------------------------------------------------------------------------
Versions == [value : Values, tx : Tx, committed : BOOLEAN, ts : Nat]

TypeOK ==
    /\ versions \in [Keys -> Seq(Versions)]
    /\ active \in [Tx -> BOOLEAN]
    /\ start_ts \in [Tx -> Nat]
    /\ locks \in [Tx -> SUBSET (Keys \X LockType)]
    /\ global_ts \in Nat \ {0}
    /\ wait_for \in [Tx -> SUBSET Tx]
    /\ waiting \subseteq Tx

\* Two transactions never hold conflicting locks: a WRITE lock is the only
\* lock on its key (acquire_lock grants one request at a time from what the
\* other transactions hold then, and locks go only when a transaction ends).
LockExclusion ==
    \A t, u \in Tx : \A k \in Keys : \A held \in LockType :
        /\ active[t] /\ active[u] /\ t # u
        /\ <<k, "WRITE">> \in locks[t]
        => <<k, held>> \notin locks[u]

\* "versions are in newest-first order" (the comment at line 60): the tentative
\* versions of a key come first, all of one active transaction, and below them
\* the commit timestamps never increase, although versions are linked in the
\* order of the writes and stamped in the order of the commits.
NewestFirst ==
    \A k \in Keys : \A n, m \in DOMAIN versions[k] :
        n < m => LET newer == versions[k][n]
                     older == versions[k][m]
                 IN  IF newer.committed
                     THEN older.committed /\ newer.ts >= older.ts
                     ELSE older.committed \/ older.tx = newer.tx

\* The newest committed value of k among the versions stamped up to ts, found
\* from the timestamps alone.
ValueAt(k, ts) ==
    LET seen == {n \in DOMAIN versions[k] :
                     versions[k][n].committed /\ versions[k][n].ts <= ts}
        Newest(ver) == /\ ver.committed /\ ver.ts <= ts
                       /\ \A n \in seen : versions[k][n].ts <= ver.ts
    IN  FirstValue(versions[k], Newest)

TentativeValue(t, k) ==
    LET OwnTentative(ver) == ~ver.committed /\ ver.tx = t
    IN  FirstValue(versions[k], OwnTentative)

\* Version lists, timestamps and locks implement the store of SnapshotStore:
\* a commit becomes visible on all keys in one step, to the transactions that
\* begin later and to no other, and an abort leaves the store as it was.
Store == INSTANCE SnapshotStore
             WITH store <- [k \in Keys |-> ValueAt(k, global_ts)],
                  running <- {t \in Tx : active[t]},
                  snapshot <- [t \in Tx |-> [k \in Keys |-> ValueAt(k, start_ts[t])]],
                  writes <- [t \in Tx |-> [k \in Keys |-> TentativeValue(t, k)]]
ImplementsSnapshotStore == Store!Spec

\* mvcc_read returns what the snapshot of its transaction says: stopping at the
\* first visible version of the list (lines 57 to 68) finds the newest one.
ReadsSnapshot ==
    \A t \in Tx : \A k \in Keys : mvcc_read(t, k) = Store!ReadResult(t, k)

\* Nobody waits for ever unnoticed: once every active transaction has been
\* refused a lock and none has ended since, detect_deadlock finds a cycle,
\* although acquire_lock records one holder only (line 104).
Running == {t \in Tx : active[t]}

StallIsReported == (Running # {} /\ Running \subseteq waiting) => HasCycle(wait_for)

\* detect_deadlock answers 1 exactly when the wait-for graph has a cycle, for
\* every graph that acquire_lock builds and whichever nodes earlier searches of
\* the same call have already visited.  Slots that are not in use have no edges.
Edges == [v \in 0 .. MAX_TX - 1 |-> IF v \in Tx THEN wait_for[v] ELSE {}]

DetectsCycles == detect_deadlock(Edges, MAX_TX) <=> HasCycle(wait_for)

-----------------------------------------------------------------------------
\* "Abort: remove uncommitted versions" (the comment at line 180): the committed
\* versions survive an abort.  Refuted when the slot of a committed transaction
\* is used again, since abort_tx goes by the id alone.
CommittedVersions(k) ==
    {versions[k][n] : n \in {m \in DOMAIN versions[k] : versions[k][m].committed}}

AbortKeepsCommitted ==
    [][\A t \in Tx : Abort(t) => \A k \in Keys : CommittedVersions(k) \subseteq CommittedVersions(k)']_vars

=============================================================================
