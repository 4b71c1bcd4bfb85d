-------------------------- MODULE ArrayAlgorithms --------------------------
(***************************************************************************)
(* src/1.c, 217.c, 20.c, 387.c, 1143.c and 49.c: functions on an array or  *)
(* on texts.  Arrays and texts are sequences, so positions count from 1.   *)
(***************************************************************************)
EXTENDS FiniteSetsExt, Functions, Integers, SequencesExt

CONSTANTS IntMax,       \* of 217.c: an int is at least -IntMax - 1 and at most IntMax
          TABLE_SIZE,   \* of 49.c: 1007
          ULONG_MAX     \* of 49.c: the largest unsigned long

-----------------------------------------------------------------------------
\* 1.c: the first j for each i, and of those the last i, as break leaves only the
\* inner loop.  NoPair stands for the two ints that malloc left as they were.
NoPair == <<>>
twoSum(nums, target) ==
    LET Second(i) == {j \in i + 1 .. Len(nums) : nums[i] + nums[j] = target}
        First == {i \in DOMAIN nums : Second(i) # {}}
    IN  IF First = {} THEN NoPair ELSE <<Max(First), Min(Second(Max(First)))>>

-----------------------------------------------------------------------------
\* 217.c.  The difference of two ints wraps.  qsort sorts if cmp orders the
\* numbers; if it does not, they come out in any order.
cmp(a, b) ==
    LET width == 2 * IntMax + 2
    IN  ((a - b + IntMax + 1) % width) - IntMax - 1

Orders(nums) ==
    \A i, j \in DOMAIN nums : cmp(nums[i], nums[j]) < 0 <=> nums[i] < nums[j]

Sorted(nums) ==
    {s \in {[i \in DOMAIN nums |-> nums[p[i]]] :
               p \in {q \in [DOMAIN nums -> DOMAIN nums] : IsInjective(q)}} :
        Orders(nums) => \A i \in 2 .. Len(s) : cmp(s[i - 1], s[i]) <= 0}

\* The answers that are possible.
containsDuplicate(nums) ==
    IF Len(nums) <= 1 THEN {FALSE}
    ELSE {\E i \in 2 .. Len(s) : s[i] = s[i - 1] : s \in Sorted(nums)}

-----------------------------------------------------------------------------
\* 20.c.  A kind of bracket is a number: positive where it opens, negative where
\* it closes.  The stack when the loop is over, or Invalid when it returns false.
Invalid == <<0>>
isValid(s) ==
    LET stack[i \in 0 .. Len(s)] ==
            IF i = 0 THEN <<>>
            ELSE LET before == stack[i - 1]
                 IN  IF before = Invalid THEN Invalid
                     ELSE IF s[i] > 0 THEN Append(before, s[i])
                     ELSE IF before = <<>> \/ Last(before) # -s[i] THEN Invalid
                     ELSE Front(before)
    IN  stack[Len(s)] = <<>>

-----------------------------------------------------------------------------
\* 387.c
firstUniqChar(s) ==
    LET freq == [c \in ToSet(s) |-> Cardinality({i \in DOMAIN s : s[i] = c})]
        unique == {i \in DOMAIN s : freq[s[i]] = 1}
    IN  IF unique = {} THEN -1 ELSE Min(unique)

-----------------------------------------------------------------------------
\* 1143.c
\* Mutant: equal characters lengthen the subsequence of one shorter text only.
longestCommonSubsequenceMutant(text1, text2) ==
    LET dp[p \in (0 .. Len(text1)) \X (0 .. Len(text2))] ==
            LET i == p[1]
                j == p[2]
            IN  IF i = 0 \/ j = 0 THEN 0
                ELSE IF text1[i] = text2[j] THEN 1 + dp[<<i - 1, j>>]
                ELSE Max({dp[<<i - 1, j>>], dp[<<i, j - 1>>]})
    IN  dp[<<Len(text1), Len(text2)>>]
longestCommonSubsequence(text1, text2) ==
    LET dp[p \in (0 .. Len(text1)) \X (0 .. Len(text2))] ==
            LET i == p[1]
                j == p[2]
            IN  IF i = 0 \/ j = 0 THEN 0
                ELSE IF text1[i] = text2[j] THEN 1 + dp[<<i - 1, j - 1>>]
                ELSE Max({dp[<<i - 1, j>>], dp[<<i, j - 1>>]})
    IN  dp[<<Len(text1), Len(text2)>>]

-----------------------------------------------------------------------------
\* 49.c.  A word is a sequence of characters.  hashValue is unsigned and wraps.
hash(key) ==
    LET value[n \in 0 .. Len(key)] ==
            IF n = 0 THEN 5381 ELSE (33 * value[n - 1] + key[n]) % (ULONG_MAX + 1)
    IN  value[Len(key)] % TABLE_SIZE

\* The inner loop for place i, after the turns up to j; the outer one, after the turns
\* up to i.
Exchange(t, i, j) == IF t[i] > t[j] THEN [t EXCEPT ![i] = t[j], ![j] = t[i]] ELSE t
settle(t, i) ==
    LET after[j \in i .. Len(t)] == IF j = i THEN t ELSE Exchange(after[j - 1], i, j)
    IN  after[Len(t)]
sortString(s) ==
    LET after[i \in 0 .. Len(s)] == IF i = 0 THEN s ELSE settle(after[i - 1], i)
    IN  after[Len(s)]

\* The table after the first insertions; a bucket holds its words the newest first.
\* A bucket with a word in it is a group of the result.
groupAnagrams(strs) ==
    LET hashTable[n \in 0 .. Len(strs)] ==
            IF n = 0 THEN [b \in 0 .. TABLE_SIZE - 1 |-> <<>>]
            ELSE [hashTable[n - 1] EXCEPT ![hash(sortString(strs[n]))] = <<strs[n]>> \o @]
    IN  {bucket \in Range(hashTable[Len(strs)]) : bucket # <<>>}

-----------------------------------------------------------------------------
\* If there is a pair with the sum, a pair with the sum is what comes back.
PairIsRight(nums, target) ==
    (\E i, j \in DOMAIN nums : i < j /\ nums[i] + nums[j] = target) =>
        LET pair == twoSum(nums, target)
        IN  pair[1] < pair[2] /\ nums[pair[1]] + nums[pair[2]] = target

\* A duplicate is never made up, and never missed among numbers whose differences
\* do not overflow.
DuplicateIsRight(nums) ==
    LET has == ~IsInjective(nums)
    IN  \A answer \in containsDuplicate(nums) :
            /\ answer => has
            /\ (\A a, b \in ToSet(nums) : a - b \in -IntMax - 1 .. IntMax) => (answer <=> has)

\* Brackets are valid exactly if pairs can be taken out of the middle until no
\* bracket is left.
Pairs(t) == {i \in 2 .. Len(t) : t[i - 1] > 0 /\ t[i] = -t[i - 1]}
WithoutPair(t, i) == [n \in 1 .. Len(t) - 2 |-> IF n < i - 1 THEN t[n] ELSE t[n + 2]]
Balanced(s) ==
    LET rests[n \in 0 .. Len(s)] ==
            IF n = 0 THEN {s} ELSE UNION {{WithoutPair(t, i) : i \in Pairs(t)} : t \in rests[n - 1]}
    IN  \E n \in 0 .. Len(s) : <<>> \in rests[n]
BracketsAreRight(s) == isValid(s) <=> Balanced(s)

\* The table gives the length of the longest text that is in both: how many equal
\* characters can be paired without one pair crossing another.
Alignments(text1, text2) ==
    LET equal == {p \in (DOMAIN text1) \X (DOMAIN text2) : text1[p[1]] = text2[p[2]]}
    IN  {M \in SUBSET equal : \A p, q \in M : p # q => (p[1] < q[1] /\ p[2] < q[2]) \/ (q[1] < p[1] /\ q[2] < p[2])}
SubsequenceIsRight(s) ==
    \A cut \in 0 .. Len(s) :
        LET text1 == SubSeq(s, 1, cut)
            text2 == SubSeq(s, cut + 1, Len(s))
            length == longestCommonSubsequence(text1, text2)
        IN  /\ \E M \in Alignments(text1, text2) : Cardinality(M) = length
            /\ \A M \in Alignments(text1, text2) : Cardinality(M) <= length

\* The position is that of the first character which is nowhere else.
UniqueIsRight(s) ==
    LET Once(i) == \A j \in DOMAIN s \ {i} : s[j] # s[i]
    IN  IF \E i \in DOMAIN s : Once(i)
        THEN Once(firstUniqChar(s)) /\ \A i \in 1 .. firstUniqChar(s) - 1 : ~Once(i)
        ELSE firstUniqChar(s) = -1

Times(c, s) == Cardinality({i \in DOMAIN s : s[i] = c})
Anagrams(u, w) == \A c \in ToSet(u) \cup ToSet(w) : Times(c, u) = Times(c, w)

\* A group has no two words that are not anagrams of each other.
OnlyAnagrams(strs) == \A g \in groupAnagrams(strs) : \A u, w \in ToSet(g) : Anagrams(u, w)

\* Different keys of the array have different hashes.
KeysApart(strs) ==
    \A u, w \in ToSet(strs) :
        hash(sortString(u)) = hash(sortString(w)) => sortString(u) = sortString(w)

\* Every word of the array is in one group and in no other, as often as in the array,
\* and no other word is; anagrams are in one group, and, as long as keys do not collide,
\* only they are.
AnagramsTogether(strs) ==
    LET groups == groupAnagrams(strs)
    IN  /\ \A w \in ToSet(strs) : \E g \in groups :
               Times(w, g) = Times(w, strs) /\ \A h \in groups \ {g} : w \notin ToSet(h)
        /\ \A g, h \in groups : \A u \in ToSet(g), w \in ToSet(h) :
               u \in ToSet(strs) /\ (Anagrams(u, w) => g = h)
        /\ KeysApart(strs) => OnlyAnagrams(strs)

=============================================================================
