--------------------------- MODULE FunctionInputs ---------------------------
(***************************************************************************)
(* The functions of ArrayAlgorithms, CountingAlgorithms and                *)
(* TreeAlgorithms, each with any input.  A function has its input and      *)
(* keeps nothing.                                                          *)
(***************************************************************************)
EXTENDS Integers, Sequences

CONSTANTS IntMax, TABLE_SIZE, ULONG_MAX,   \* of ArrayAlgorithms
          MAX_VAL, MOD,                    \* of CountingAlgorithms
          LONG_MAX, Levels,                \* of TreeAlgorithms
          MaxInput                         \* bound: the length of an array, text or list of words in a run

ASSUME InputAssumption ==
    /\ IntMax \in Nat /\ TABLE_SIZE \in Nat \ {0} /\ ULONG_MAX \in Nat
    /\ MAX_VAL \in Nat /\ MOD \in Nat \ {0}
    /\ LONG_MAX \in Nat /\ Levels \in Nat

VARIABLES kind,       \* what the function works on
          input

Arrays == INSTANCE ArrayAlgorithms
Counting == INSTANCE CountingAlgorithms
Trees == INSTANCE TreeAlgorithms

InputInit ==
    \/ kind \in {"array", "text"} /\ input \in Seq(Int)
    \/ kind = "words" /\ input \in Seq(Seq(Int))
    \/ kind = "instructions" /\ input \in Seq(1 .. MAX_VAL)
    \/ kind = "tree" /\ input \in Trees!Tree

InputSpec == InputInit /\ [][FALSE]_<<kind, input>>

\* src/1.c, 217.c, 20.c, 1143.c, 387.c and 49.c return what is asked for: 1.c if there
\* is a pair, 217.c if no difference overflows, and 49.c groups anagrams, and nothing
\* else if no two keys hash alike.
AnswersAreRight ==
    /\ kind = "array" =>
           /\ \A target \in -1 .. 1 : Arrays!PairIsRight(input, target)
           /\ Len(input) < MaxInput - 1 => Arrays!DuplicateIsRight(input)
    /\ kind = "text" =>
           Arrays!BracketsAreRight(input) /\ Arrays!SubsequenceIsRight(input) /\ Arrays!UniqueIsRight(input)
    /\ kind = "words" => Arrays!AnagramsTogether(input)

\* "grouping by sorted key" (49.c:22): words of one group have one key, which is what
\* makes them anagrams.
\* Refuted: a bucket is taken for a group, and keys that hash alike share one.
GroupedBySortedKey == kind = "words" => Arrays!OnlyAnagrams(input)

\* src/1649.c, 315.c and 327.c count what their definitions say, 327.c between
\* bounds that are in order.
CountsAreRight ==
    /\ kind = "instructions" => Counting!CostIsRight(input)
    /\ kind = "array" =>
           /\ Counting!SmallerIsRight(input)
           /\ \A lower \in -1 .. 1, upper \in -1 .. 1 :
                  lower <= upper => Counting!RangesAreRight(input, lower, upper)

\* src/450.c, 98.c, 700.c, 94.c, 104.c, 100.c, 109.c, 1382.c and 876.c agree with each
\* other on every tree, whether it is a search tree or not.
TreesAreRight ==
    kind = "tree" =>
        Trees!TraversalIsRight(input) /\ Trees!SearchIsRight(input) /\ Trees!BuiltIsRight(input)

=============================================================================
