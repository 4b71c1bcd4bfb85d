---------------------------- MODULE MCStructures ----------------------------
(* The sequential code for TLC: the data structures of Structures, and the    *)
(* functions that only return something, by every input.  A behaviour of a    *)
(* function is its input, with the structures as they were created.           *)
EXTENDS Structures, FunctionInputs, TLC

allVars == <<structureVars, kind, input>>

\* Differences of 4 overflow where the largest int is 3; the words are anagrams of
\* each other, have keys that hash alike, or have nothing in common.  The last two are
\* "saw" and "fig", whose keys hash alike in a table of 1007 buckets.
Ints == {-2, -1, 1, 2}
Words ==
    {<<97>>, <<97, 98>>, <<98, 97>>, <<98, 99>>, <<98, 98>>, <<98, 98, 97>>, <<98, 97, 98>>,
     <<115, 97, 119>>, <<102, 105, 103>>}
Inputs ==
    CASE kind = "array" -> SeqOf(Ints, MaxInput - 1)
      [] kind = "text" -> SeqOf(Ints, MaxInput)
      [] kind = "words" -> SeqOf(Words, MaxInput \div 2)
      [] kind = "instructions" -> SeqOf(1 .. MAX_VAL, MaxInput - 2)
      [] kind = "tree" -> UNION {Trees!TreesOf(n, 1 .. 4) : n \in 0 .. 4}
      [] OTHER -> {<<>>}

\* What the behaviour is not of begins in one way only, and so does the number of the
\* third maximum, which is set before it is read.
MCInit ==
    /\ StructuresInit
    /\ tVal = CHOOSE n \in Distinct : TRUE
    /\ structure # "window" => wSize = 1 /\ wNums[0] = CHOOSE n \in Numbers : TRUE
    /\ kind \in IF structure = "none" THEN {"array", "text", "words", "instructions", "tree"} ELSE {"none"}
    /\ input \in Inputs

MCNext == StructuresNext /\ UNCHANGED <<kind, input>>

MCSpec == MCInit /\ [][MCNext]_allVars

\* Node numbers say only in which order nodes were allocated: two states whose
\* trees look the same, with the same nodes marked by x, y and z, are one state.
Shape(t, marks) ==
    LET seen[n \in 0 .. MaxNodes] ==
            IF n = 0 THEN <<>>
            ELSE LET l == t.child["left"][n]
                     r == t.child["right"][n]
                 IN  <<t.val[n], t.size[n], n \in t.red, {i \in DOMAIN marks : marks[i] = n},
                       l # 0 /\ t.parent[l] # n, r # 0 /\ t.parent[r] # n,
                       seen[l], seen[r]>>
        root == t.root
    IN  <<seen[root], root # 0 /\ t.parent[root] # 0, t.count,
          {i \in DOMAIN marks : marks[i] = 0},
          {<<t.val[marks[i]], t.size[marks[i]]>> : i \in {j \in DOMAIN marks : marks[j] # 0}}>>

View ==
    <<structure, kind, input, vars, sVars, aVars, wVars,
      Shape(mTree, <<mX, mY, mZ>>), mPc, mAnswer,
      Shape(tTree, <<tX, tY, tZ>>), tPc, tVal, tResult, tSeen>>

Symmetry == Permutations(Values) \cup Permutations(Nodes)

=============================================================================
