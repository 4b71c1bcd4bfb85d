---------------------------- MODULE BoundedFifo ----------------------------
(***************************************************************************)
(* What the queue of src/producer_consumer.c promises to its clients: a    *)
(* first-in first-out channel of bounded capacity.  Producer p hands over  *)
(* its items <<p, 0>>, <<p, 1>>, ... one at a time, each one is delivered  *)
(* at most once, and they leave in the order in which they entered.        *)
(***************************************************************************)
EXTENDS Integers, Sequences

CONSTANTS Producers,           \* the producer threads
          Capacity,            \* the most items the channel holds
          ITEMS_PER_PRODUCER   \* how many items each producer hands over

VARIABLES queue,      \* the items in the channel, oldest first
          sent,       \* sent[p]: how many items p has handed over
          delivered   \* every item that has left, in the order it left

fifoVars == <<queue, sent, delivered>>

Init ==
    /\ queue = <<>>
    /\ sent = [p \in Producers |-> 0]
    /\ delivered = <<>>

Put(p) ==
    /\ sent[p] < ITEMS_PER_PRODUCER
    /\ Len(queue) < Capacity
    /\ queue' = Append(queue, <<p, sent[p]>>)
    /\ sent' = [sent EXCEPT ![p] = @ + 1]
    /\ UNCHANGED delivered

Get ==
    /\ queue # <<>>
    /\ queue' = Tail(queue)
    /\ delivered' = Append(delivered, Head(queue))
    /\ UNCHANGED sent

Next == Get \/ \E p \in Producers : Put(p)

Spec == Init /\ [][Next]_fifoVars

=============================================================================
