----------------------------- MODULE Allocator -----------------------------
(***************************************************************************)
(* src/2502.c: an allocator that writes the id of the owner into every     *)
(* cell of a block and keeps nothing else, so that where a block begins    *)
(* and ends is nowhere stored.  The history variable remembers it.         *)
(***************************************************************************)
EXTENDS FiniteSets, Integers

CONSTANTS size,      \* obj->size
          Lengths,   \* the sizes asked for, at least 1
          Ids        \* the values of mID, none of them 0

VARIABLES memory,   \* memory[c]: the id in cell c, or 0; no cells after allocatorFree
          blocks,   \* history: the blocks allocated and not freed
          answer    \* what the last call returned

vars == <<memory, blocks, answer>>

\* allocatorCreate: calloc gives zeroes.
Init ==
    /\ memory = [c \in 0 .. size - 1 |-> 0]
    /\ blocks = {}
    /\ answer = 0

\* count at the end of each turn of the loop of allocatorAllocate, for as long as
\* the loop has not returned.
\* Mutant: count is not set back at a cell in use.
CountMutant ==
    LET at[i \in -1 .. size - 1] ==
            IF i < 0 THEN 0 ELSE at[i - 1] + IF memory[i] = 0 THEN 1 ELSE 0
    IN  at
Count ==
    LET at[i \in -1 .. size - 1] == IF i < 0 \/ memory[i] # 0 THEN 0 ELSE at[i - 1] + 1
    IN  at

usable == DOMAIN memory # {}

Returns(length) == {i \in 0 .. size - 1 : Count[i] = length}

Fill(start, length, id) ==
    memory' = [c \in DOMAIN memory |-> IF c \in start .. start + length - 1 THEN id ELSE memory[c]]

allocatorAllocate(length, id) ==
    /\ usable
    /\ \E i \in Returns(length) :
           /\ \A j \in Returns(length) : i <= j
           /\ answer' = i - length + 1
           /\ Fill(answer', length, id)
           /\ blocks' = blocks \cup {[start |-> answer', length |-> length, owner |-> id]}

Refused(length) ==
    /\ usable
    /\ Returns(length) = {}
    /\ answer' = -1
    /\ UNCHANGED <<memory, blocks>>

allocatorFreeMemory(id) ==
    /\ usable
    /\ memory' = [c \in DOMAIN memory |-> IF memory[c] = id THEN 0 ELSE memory[c]]
    /\ answer' = Cardinality({c \in DOMAIN memory : memory[c] = id})
    /\ blocks' = {b \in blocks : b.owner # id}

allocatorFree ==
    /\ usable
    /\ memory' = [c \in {} |-> 0]
    /\ blocks' = {}
    /\ answer' = 0

Next ==
    \/ allocatorFree
    \/ \E id \in Ids :
           \/ allocatorFreeMemory(id)
           \/ \E length \in Lengths : allocatorAllocate(length, id) \/ Refused(length)

Spec == Init /\ [][Next]_vars

-----------------------------------------------------------------------------
\* The ids in the cells are enough: whatever has been allocated and freed before,
\* in whatever fragments the free cells lie, an allocation gets the leftmost place
\* that no block covers, is refused only when there is none, and a free returns
\* the cells of all blocks of its id, also of adjacent ones.
Store == INSTANCE BlockStore WITH Size <- size, Owners <- Ids
ImplementsBlocks == Store!Spec

=============================================================================
