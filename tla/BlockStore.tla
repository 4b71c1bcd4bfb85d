----------------------------- MODULE BlockStore ----------------------------
(***************************************************************************)
(* What src/2502.c promises: blocks of cells that do not overlap, each one *)
(* the leftmost that fits when it is asked for, freed together with the    *)
(* other blocks of its owner.                                              *)
(***************************************************************************)
EXTENDS FiniteSetsExt, Integers

CONSTANTS Size, Lengths, Owners

VARIABLES blocks,   \* the blocks in use
          answer    \* of the last call

storeVars == <<blocks, answer>>

Init == blocks = {} /\ answer = 0

Block(start, length, owner) == [start |-> start, length |-> length, owner |-> owner]
Cells(b) == b.start .. b.start + b.length - 1
CellsOf(bs) == UNION {Cells(b) : b \in bs}
Taken == CellsOf(blocks)

Fits(length) == {s \in 0 .. Size - length : (s .. s + length - 1) \cap Taken = {}}

Allocate(length, owner) ==
    IF Fits(length) = {}
    THEN answer' = -1 /\ UNCHANGED blocks
    ELSE /\ answer' = Min(Fits(length))
         /\ blocks' = blocks \cup {Block(answer', length, owner)}

Free(owner) ==
    LET his == {b \in blocks : b.owner = owner}
    IN  /\ blocks' = blocks \ his
        /\ answer' = Cardinality(CellsOf(his))

Close == blocks' = {} /\ answer' = 0

Next == Close \/ \E owner \in Owners : Free(owner) \/ \E length \in Lengths : Allocate(length, owner)

Spec == Init /\ [][Next]_storeVars

=============================================================================
