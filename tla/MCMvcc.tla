------------------------------- MODULE MCMvcc -------------------------------
(***************************************************************************)
(* Mvcc for TLC.  Keys and values are interchangeable; the ids of          *)
(* transactions are not, since acquire_lock looks at them in order.        *)
(***************************************************************************)
EXTENDS Mvcc, TLC

Symmetry == Permutations(Keys) \cup Permutations(Values)

\* What a transaction reads depends on its WRITE locks and on who is active: a READ
\* lock keeps others from writing, and a refused request leaves an edge behind,
\* neither of which mvcc_read, mvcc_write, commit_tx or abort_tx look at.  Without
\* them there is room for three transactions and two values.
WriteLocksOnly == locks' \in [Tx -> SUBSET (Keys \X {"WRITE"})] /\ UNCHANGED wait_for
DataSpec == Init /\ [][Next /\ WriteLocksOnly]_vars

=============================================================================
