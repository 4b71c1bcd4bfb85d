--------------------------- MODULE SnapshotStore ---------------------------
(***************************************************************************)
(* What the multi-version store of src/transaction_mvcc.c promises to its  *)
(* transactions: each one reads from a snapshot of the store taken when it *)
(* began, sees its own writes at once, and installs all of them in one     *)
(* step when it commits; an aborted transaction leaves no trace.           *)
(***************************************************************************)
CONSTANTS Tx, Keys, Values, NoValue

VARIABLES store,      \* store[k]: the committed value of key k
          running,    \* the transactions that have begun and not ended
          snapshot,   \* snapshot[t]: the store as t found it
          writes      \* writes[t][k]: what t will install, or NoValue

storeVars == <<store, running, snapshot, writes>>

Nothing == [k \in Keys |-> NoValue]

Init ==
    /\ store = Nothing
    /\ running = {}
    /\ snapshot = [t \in Tx |-> Nothing]
    /\ writes = [t \in Tx |-> Nothing]

Begin(t) ==
    /\ t \notin running
    /\ running' = running \cup {t}
    /\ snapshot' = [snapshot EXCEPT ![t] = store]
    /\ UNCHANGED <<store, writes>>

Write(t, k, v) ==
    /\ t \in running
    /\ \A u \in Tx \ {t} : writes[u][k] = NoValue
    /\ writes' = [writes EXCEPT ![t][k] = v]
    /\ UNCHANGED <<store, running, snapshot>>

ReadResult(t, k) == IF writes[t][k] # NoValue THEN writes[t][k] ELSE snapshot[t][k]

Commit(t) ==
    /\ t \in running
    /\ running' = running \ {t}
    /\ store' = [k \in Keys |-> IF writes[t][k] # NoValue THEN writes[t][k] ELSE store[k]]
    /\ writes' = [writes EXCEPT ![t] = Nothing]
    /\ UNCHANGED snapshot

Abort(t) ==
    /\ t \in running
    /\ running' = running \ {t}
    /\ writes' = [writes EXCEPT ![t] = Nothing]
    /\ UNCHANGED <<store, snapshot>>

Next ==
    \E t \in Tx :
        \/ Begin(t) \/ Commit(t) \/ Abort(t)
        \/ \E k \in Keys, v \in Values : Write(t, k, v)

Spec == Init /\ [][Next]_storeVars

=============================================================================
