----------------------------- MODULE Structures -----------------------------
(***************************************************************************)
(* The data structures of the repository side by side, each with every     *)
(* sequence of calls of its interface.  They have nothing in common: a     *)
(* behaviour is one of one of them, and the others stay as they were       *)
(* created.                                                                *)
(***************************************************************************)
EXTENDS LRUCache

CONSTANTS MaxNodes, MAX_LEVEL, Top, size, MaxSize,
          Numbers,     \* the numbers for median, skip list and windows, used again and again
          Distinct     \* the numbers for the third maximum, which keeps them once

ASSUME StructuresAssumption ==
    /\ size \in Nat
    /\ Numbers \subseteq Nat \ {0}    \* among them the sizes asked of the allocator
    /\ 0 \notin Values                \* among them its ids
    /\ MaxSize \in Nat /\ MaxNodes \in Nat
    /\ Distinct \subseteq Int
    /\ MAX_LEVEL \in Nat \ {0}
    /\ Top \notin Nodes \cup {Null}

VARIABLES structure,    \* which one the behaviour is of
          mTree, mPc, mX, mY, mZ, mAnswer,
          tTree, tPc, tVal, tX, tY, tZ, tResult, tSeen,
          sVal, sForward, sLevel, sAnswer, sFreed,
          aMemory, aBlocks, aAnswer,
          wNums, wSize, wK, wResult, wDq, wHead, wTail, wI, wPc

Median == INSTANCE MedianFinder
              WITH NoAnswer <- Null, tree <- mTree, pc <- mPc, x <- mX, y <- mY, z <- mZ,
                   answer <- mAnswer
Third == INSTANCE ThirdMax
             WITH Numbers <- Distinct, NoResult <- Null, tree <- tTree, pc <- tPc, val <- tVal,
                  x <- tX, y <- tY, z <- tZ, result <- tResult, seen <- tSeen
Skip == INSTANCE SkipList
            WITH Vals <- Numbers, val <- sVal, forward <- sForward, level <- sLevel,
                 answer <- sAnswer, freed <- sFreed
Alloc == INSTANCE Allocator
             WITH Lengths <- Numbers, Ids <- Values, memory <- aMemory, blocks <- aBlocks,
                  answer <- aAnswer
Window == INSTANCE SlidingWindow
              WITH nums <- wNums, numsSize <- wSize, k <- wK, result <- wResult, dq <- wDq,
                   head <- wHead, tail <- wTail, i <- wI, pc <- wPc

mVars == <<mTree, mPc, mX, mY, mZ, mAnswer>>
tVars == <<tTree, tPc, tVal, tX, tY, tZ, tResult, tSeen>>
sVars == <<sVal, sForward, sLevel, sAnswer, sFreed>>
aVars == <<aMemory, aBlocks, aAnswer>>
wVars == <<wNums, wSize, wK, wResult, wDq, wHead, wTail, wI, wPc>>
structureVars == <<structure, vars, mVars, tVars, sVars, aVars, wVars>>

StructuresInit ==
    /\ structure \in {"lru", "median", "third", "skip", "alloc", "window", "none"}
    /\ Init /\ Median!Init /\ Third!Init /\ Skip!Init /\ Alloc!Init /\ Window!Init

StructuresNext ==
    /\ \/ structure = "lru" /\ Next /\ UNCHANGED <<mVars, tVars, sVars, aVars, wVars>>
       \/ structure = "median" /\ Median!Next /\ UNCHANGED <<vars, tVars, sVars, aVars, wVars>>
       \/ structure = "third" /\ Third!Next /\ UNCHANGED <<vars, mVars, sVars, aVars, wVars>>
       \/ structure = "skip" /\ Skip!Next /\ UNCHANGED <<vars, mVars, tVars, aVars, wVars>>
       \/ structure = "alloc" /\ Alloc!Next /\ UNCHANGED <<vars, mVars, tVars, sVars, wVars>>
       \/ structure = "window" /\ Window!Next /\ UNCHANGED <<vars, mVars, tVars, sVars, aVars>>
    /\ UNCHANGED structure

StructuresSpec == StructuresInit /\ [][StructuresNext]_structureVars

-----------------------------------------------------------------------------
\* src/295.c, 414.c, 1206.c, 2502.c, 239.c: see MedianFinder, ThirdMax, SkipList,
\* Allocator and SlidingWindow.
RedBlack == Median!RedBlack
ImplementsMedianStore == Median!ImplementsMedianStore
TreeSound == Third!TreeSound
ThirdMaxIsRight == Third!ThirdMaxIsRight
LevelsNested == Skip!LevelsNested
ImplementsBag == Skip!ImplementsBag
ImplementsBlocks == Alloc!ImplementsBlocks
WindowsAreMaxima == Window!WindowsAreMaxima

=============================================================================
