------------------------------ MODULE LruStore ------------------------------
(***************************************************************************)
(* What src/146.c promises: a map of at most Capacity keys that, when it   *)
(* is full, gives up the key that has not been used for the longest time.  *)
(***************************************************************************)
EXTENDS Integers, Sequences

CONSTANTS Keys, Values, Capacity,
          Miss      \* the result of a get that finds nothing

VARIABLES recent,   \* the entries, the one used last in front
          result    \* what the last operation returned

storeVars == <<recent, result>>

Init == recent = <<>> /\ result = Miss

Entry(k, v) == [key |-> k, value |-> v]
Without(m) == SubSeq(recent, 1, m - 1) \o SubSeq(recent, m + 1, Len(recent))
Has(k) == \E m \in DOMAIN recent : recent[m].key = k

Hit(k) ==
    \E m \in DOMAIN recent :
        /\ recent[m].key = k
        /\ result' = recent[m].value
        /\ recent' = <<recent[m]>> \o Without(m)

Lose(k) ==
    /\ ~Has(k)
    /\ result' = Miss
    /\ UNCHANGED recent

Change(k, v) ==
    \E m \in DOMAIN recent :
        /\ recent[m].key = k
        /\ result' = Miss
        /\ recent' = <<Entry(k, v)>> \o Without(m)

Add(k, v) ==
    /\ ~Has(k)
    /\ result' = Miss
    /\ recent' = <<Entry(k, v)>> \o IF Len(recent) < Capacity THEN recent
                                    ELSE Without(Len(recent))

Free == recent' = <<>> /\ result' = Miss

Next ==
    \/ Free
    \/ \E k \in Keys : Hit(k) \/ Lose(k) \/ \E v \in Values : Change(k, v) \/ Add(k, v)

Spec == Init /\ [][Next]_storeVars

=============================================================================
