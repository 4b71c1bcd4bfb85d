--------------------------- MODULE CountingProofs ---------------------------
(***************************************************************************)
(* Proofs about the programs that count, for any number of threads,        *)
(* children and turns, any file and any array: the chunks of the word      *)
(* count cover the file and every word of it is counted once, no increment *)
(* of the counter programs is lost, what each program prints is right, and *)
(* so is what the functions of 1649.c, 315.c and 327.c return, and what    *)
(* the functions on trees do with any tree.                                *)
(***************************************************************************)
EXTENDS MCCounting, FunctionInputs, FiniteSetTheorems, SequenceTheorems, WellFoundedInduction, TLAPS

\* A created thread has the chunk that main computes for it.
IInv ==
    /\ filesize \in Nat
    /\ data \in [0 .. filesize - 1 -> BOOLEAN]
    /\ i \in 0 .. MAX_THREADS
    /\ start \in [Threads -> 0 .. filesize] /\ end \in [Threads -> 0 .. filesize]
    /\ \A t \in Threads : t < i => start[t] = StartOf(t) /\ end[t] = EndOf(t)

-----------------------------------------------------------------------------
\* A nonempty set of numbers has a smallest element.
LEMMA SmallestOf ==
    ASSUME NEW S \in SUBSET Nat, S # {}
    PROVE  \E m \in S : \A n \in S : m <= n
<1>1. PICK m \in S : \A n \in S : ~(<<n, m>> \in OpToRel(<, Nat))
  BY NatLessThanWellFounded, WFMin
<1>2. \A a, b \in Nat : a < b => <<a, b>> \in OpToRel(<, Nat)
  BY DEF OpToRel
<1>3. \A n \in S : ~(n < m)
  BY <1>1, <1>2
<1> QED BY <1>3

\* Both while loops of main end, at a position that is not inside a word.
LEMMA AfterWordProperties ==
    ASSUME filesize \in Nat, NEW p \in 0 .. filesize
    PROVE  IsWordEnd(p, AfterWord(p))
<1> DEFINE Ends == {q \in p .. filesize : q < filesize => ~data[q]}
<1>1. filesize \in Ends /\ Ends \in SUBSET Nat
  OBVIOUS
<1>2. PICK m \in Ends : \A n \in Ends : m <= n
  BY <1>1, SmallestOf
<1>3. IsWordEnd(p, m)
  BY <1>2 DEF IsWordEnd
<1> QED BY <1>2, <1>3 DEF AfterWord

\* The further one starts, the further one gets.
LEMMA AfterWordMonotonic ==
    ASSUME filesize \in Nat, NEW p \in 0 .. filesize, NEW q \in 0 .. filesize, p <= q
    PROVE  AfterWord(p) <= AfterWord(q)
<1>1. IsWordEnd(p, AfterWord(p)) /\ IsWordEnd(q, AfterWord(q))
  BY AfterWordProperties
<1> HIDE DEF AfterWord
<1> QED BY <1>1 DEF IsWordEnd

\* The cuts of the division lie in the file.
LEMMA Division ==
    ASSUME filesize \in Nat
    PROVE  /\ chunks \in Nat
           /\ MAX_THREADS * chunks <= filesize
           /\ filesize >= MAX_THREADS => chunks > 0
  BY WordCountAssumption DEF chunks

LEMMA Cuts ==
    ASSUME filesize \in Nat, NEW t \in 0 .. MAX_THREADS
    PROVE  t * chunks \in 0 .. filesize
<1>1. chunks \in Nat /\ MAX_THREADS * chunks <= filesize /\ MAX_THREADS \in Nat
  BY Division, WordCountAssumption
<1>2. \A c \in Nat : t * c \in Nat /\ t * c <= MAX_THREADS * c
  BY <1>1
<1> QED BY <1>1, <1>2

\* The chunk of a thread, and where it ends, in one form: the cut of number t
\* moved to the end of the word it falls into, for every t but the first.
LEMMA ChunkCuts ==
    ASSUME filesize \in Nat, filesize >= MAX_THREADS
    PROVE  /\ StartOf(0) = 0
           /\ \A t \in 1 .. MAX_THREADS - 1 : StartOf(t) = AfterWord(t * chunks)
           /\ \A t \in 0 .. MAX_THREADS - 2 : EndOf(t) = AfterWord((t + 1) * chunks)
           /\ EndOf(MAX_THREADS - 1) = filesize
<1>1. chunks \in Nat \ {0} /\ MAX_THREADS \in Nat \ {0}
  BY Division, WordCountAssumption
<1>2. \A t \in Nat \ {0} : t * chunks > 0
  BY <1>1
<1>3. AfterWord(filesize) = filesize
  <2>1. IsWordEnd(filesize, AfterWord(filesize))
    BY AfterWordProperties
  <2> HIDE DEF AfterWord
  <2> QED BY <2>1 DEF IsWordEnd
<1> QED BY <1>1, <1>2, <1>3 DEF StartOf, EndOf

LEMMA ChunkTypes ==
    ASSUME filesize \in Nat, NEW t \in Threads
    PROVE  StartOf(t) \in 0 .. filesize /\ EndOf(t) \in 0 .. filesize
<1>1. t * chunks \in 0 .. filesize /\ (t + 1) * chunks \in 0 .. filesize
  BY Cuts, WordCountAssumption DEF Threads
<1>2. \A p \in 0 .. filesize : AfterWord(p) \in 0 .. filesize
  BY AfterWordProperties DEF IsWordEnd
<1> HIDE DEF AfterWord
<1> QED BY <1>1, <1>2 DEF StartOf, EndOf

LEMMA InitIInv == Init => IInv
  BY WordCountAssumption DEF Init, IInv, Threads

LEMMA NextIInv == IInv /\ [Next]_vars => IInv'
<1> SUFFICES ASSUME IInv, [Next]_vars PROVE IInv'
  OBVIOUS
<1>1. CASE Create
  <2>1. i \in Threads /\ UNCHANGED file
    BY <1>1, WordCountAssumption DEF Create, IInv, Threads
  <2>2. \A t \in Threads : StartOf(t)' = StartOf(t) /\ EndOf(t)' = EndOf(t)
    BY <2>1 DEF file, StartOf, EndOf, AfterWord, IsWordEnd, chunks
  <2>3. StartOf(i) \in 0 .. filesize /\ EndOf(i) \in 0 .. filesize
    BY <2>1, ChunkTypes DEF IInv
  <2>4. /\ start' = [start EXCEPT ![i] = StartOf(i)]
        /\ end' = [end EXCEPT ![i] = EndOf(i)]
        /\ i' = i + 1
    BY <1>1 DEF Create
  <2> HIDE DEF StartOf, EndOf
  <2> QED BY <2>1, <2>2, <2>3, <2>4, WordCountAssumption DEF IInv, file, Threads
<1>2. CASE UNCHANGED <<file, args, i>>
  <2>1. \A t \in Threads : StartOf(t)' = StartOf(t) /\ EndOf(t)' = EndOf(t)
    BY <1>2 DEF file, StartOf, EndOf, AfterWord, IsWordEnd, chunks
  <2> QED BY <1>2, <2>1 DEF IInv, file, args
<1>3. ASSUME NEW t \in Threads, Thread(t) PROVE UNCHANGED <<file, args, i>>
  BY <1>3 DEF Thread, CountWords, Lock, Add
<1>4. PrintTotal \/ UNCHANGED vars => UNCHANGED <<file, args, i>>
  BY DEF PrintTotal, vars
<1> QED BY <1>1, <1>2, <1>3, <1>4 DEF Next, Ended

-----------------------------------------------------------------------------
LEMMA CoverFromInv == IInv => ChunksCoverFile
<1> SUFFICES ASSUME IInv, filesize >= MAX_THREADS
             PROVE  /\ i > 0 => start[0] = 0
                    /\ \A t \in 1 .. i - 1 : start[t] = end[t - 1]
                    /\ i = MAX_THREADS => end[MAX_THREADS - 1] = filesize
  BY DEF ChunksCoverFile
<1>1. \A t \in Threads : t < i => start[t] = StartOf(t) /\ end[t] = EndOf(t)
  BY DEF IInv
<1>2. MAX_THREADS \in Nat \ {0} /\ i \in 0 .. MAX_THREADS /\ filesize \in Nat
  BY WordCountAssumption DEF IInv
<1>3. i > 0 => start[0] = 0
  BY <1>1, <1>2, ChunkCuts DEF Threads
<1>4. ASSUME NEW t \in 1 .. i - 1 PROVE start[t] = end[t - 1]
  <2>1. start[t] = StartOf(t) /\ end[t - 1] = EndOf(t - 1)
    BY <1>1, <1>2 DEF Threads
  <2>2. StartOf(t) = AfterWord(t * chunks)
    BY <1>2, ChunkCuts
  <2>3. EndOf(t - 1) = AfterWord(((t - 1) + 1) * chunks)
    BY <1>2, ChunkCuts
  <2>4. (t - 1) + 1 = t
    BY <1>2
  <2> QED BY <2>1, <2>2, <2>3, <2>4
<1>5. i = MAX_THREADS => end[MAX_THREADS - 1] = filesize
  BY <1>1, <1>2, ChunkCuts DEF Threads
<1> QED BY <1>3, <1>4, <1>5

\* In every file of at least MAX_THREADS characters, and for every number of
\* threads, the chunks follow one another from the first character to the last.
THEOREM ChunksCover == Spec => []ChunksCoverFile
<1> QED BY InitIInv, NextIInv, CoverFromInv, PTL DEF Spec

LEMMA WordsFromInv == IInv => EveryWordOnce
<1> SUFFICES ASSUME IInv, i = MAX_THREADS, filesize >= MAX_THREADS
             PROVE  /\ \A p \in WordStarts(0, filesize) :
                           \E t \in Threads :
                               /\ p \in WordStarts(start[t], end[t])
                               /\ \A u \in Threads \ {t} : p \notin WordStarts(start[u], end[u])
                    /\ \A t \in Threads : WordStarts(start[t], end[t]) \subseteq WordStarts(0, filesize)
  BY DEF EveryWordOnce
<1>1. MAX_THREADS \in Nat \ {0} /\ filesize \in Nat
  BY WordCountAssumption DEF IInv
<1>2. /\ start[0] = 0
      /\ \A t \in 1 .. MAX_THREADS - 1 : start[t] = end[t - 1]
      /\ end[MAX_THREADS - 1] = filesize
  BY <1>1, CoverFromInv DEF ChunksCoverFile
<1>3. start \in [Threads -> 0 .. filesize] /\ end \in [Threads -> 0 .. filesize]
  BY DEF IInv
<1>4. \A t \in Threads : start[t] = StartOf(t) /\ end[t] = EndOf(t)
  BY <1>1 DEF IInv, Threads
<1>5. ASSUME NEW t \in Threads, NEW u \in Threads, t < u
      PROVE  end[t] <= start[u]
  <2>1. /\ end[t] = AfterWord((t + 1) * chunks)
        /\ start[u] = AfterWord(u * chunks)
    BY <1>1, <1>4, <1>5, ChunkCuts DEF Threads
  <2>2. (t + 1) * chunks \in 0 .. filesize /\ u * chunks \in 0 .. filesize
    BY <1>1, <1>5, Cuts DEF Threads
  <2>3. (t + 1) * chunks <= u * chunks
    <3>1. chunks \in Nat /\ t + 1 \in Nat /\ u \in Nat /\ t + 1 <= u
      BY <1>1, <1>5, Division DEF Threads
    <3> QED BY <3>1
  <2> QED BY <1>1, <2>1, <2>2, <2>3, AfterWordMonotonic
<1>6. \A t \in Threads \ {0} : start[t] < filesize => ~data[start[t]]
  <2> SUFFICES ASSUME NEW t \in Threads \ {0}, start[t] < filesize
               PROVE  ~data[start[t]]
    OBVIOUS
  <2>1. start[t] = AfterWord(t * chunks)
    BY <1>1, <1>4, ChunkCuts DEF Threads
  <2>2. IsWordEnd(t * chunks, start[t])
    BY <1>1, <2>1, Cuts, AfterWordProperties DEF Threads
  <2> QED BY <2>2 DEF IsWordEnd
<1>7. ASSUME NEW t \in Threads
      PROVE  WordStarts(start[t], end[t]) \subseteq WordStarts(0, filesize)
  BY SMTT(20), <1>1, <1>2, <1>3, <1>6 DEF WordStarts, Threads
<1>8. ASSUME NEW p \in WordStarts(0, filesize)
      PROVE  \E t \in Threads :
                 /\ p \in WordStarts(start[t], end[t])
                 /\ \A u \in Threads \ {t} : p \notin WordStarts(start[u], end[u])
  <2> DEFINE Beyond == {t \in Threads : p < end[t]}
  <2>1. p \in 0 .. filesize - 1 /\ data[p] /\ (p > 0 => ~data[p - 1])
    BY <1>1 DEF WordStarts
  <2>2. MAX_THREADS - 1 \in Beyond /\ Beyond \in SUBSET Nat
    BY <1>1, <1>2, <2>1 DEF Threads
  <2>3. PICK t \in Beyond : \A u \in Beyond : t <= u
    BY <2>2, SmallestOf
  <2>4. start[t] <= p
    <3>1. CASE t = 0
      BY <1>2, <2>1, <3>1
    <3>2. CASE t # 0
      <4>1. t - 1 \in Threads /\ start[t] = end[t - 1] /\ t - 1 \notin Beyond
        BY <1>1, <1>2, <2>3, <3>2 DEF Threads
      <4> QED BY <1>3, <2>1, <4>1
    <3> QED BY <3>1, <3>2
  <2>5. p \in WordStarts(start[t], end[t])
    BY <1>3, <2>1, <2>3, <2>4 DEF WordStarts
  <2>6. ASSUME NEW u \in Threads \ {t} PROVE p \notin WordStarts(start[u], end[u])
    <3>1. p \in start[t] .. end[t] - 1
      BY <2>5 DEF WordStarts
    <3>2. end[u] <= start[t] \/ end[t] <= start[u]
      BY <1>1, <1>5 DEF Threads
    <3> QED BY <1>3, <3>1, <3>2 DEF WordStarts
  <2> QED BY <2>5, <2>6
<1> QED BY <1>7, <1>8

\* In every file of at least MAX_THREADS characters, and for every number of
\* threads, each word is counted by exactly one of them and nothing else is.
THEOREM WordsOnce == Spec => []EveryWordOnce
<1> QED BY InitIInv, NextIInv, WordsFromInv, PTL DEF Spec

-----------------------------------------------------------------------------
\* What a thread counts, as it follows from the file alone.
Chunk(t) == WordStarts(StartOf(t), EndOf(t))
Finished == {t \in Threads : pc[t] = "done"}
Counted == UNION {Chunk(t) : t \in Finished}

\* The files whose total is right.
Regular == filesize >= MAX_THREADS \/ filesize = 0 \/ ~data[0]

\* In a regular file of fewer characters than threads, the last thread has all.
LEMMA SmallFile ==
    ASSUME filesize \in Nat, filesize < MAX_THREADS, Regular
    PROVE  /\ Chunk(MAX_THREADS - 1) = WordStarts(0, filesize)
           /\ \A t \in Threads \ {MAX_THREADS - 1} : Chunk(t) = {}
<1>1. chunks = 0 /\ MAX_THREADS \in Nat \ {0}
  BY WordCountAssumption DEF chunks
<1>2. AfterWord(filesize) = filesize
  <2>1. IsWordEnd(filesize, AfterWord(filesize))
    BY AfterWordProperties
  <2> HIDE DEF AfterWord
  <2> QED BY <2>1 DEF IsWordEnd
<1>3. AfterWord(0) = 0
  <2>1. IsWordEnd(0, AfterWord(0))
    BY AfterWordProperties
  <2> HIDE DEF AfterWord
  <2> QED BY <1>1, <2>1 DEF IsWordEnd, Regular
<1> HIDE DEF AfterWord
<1>4. \A t \in Threads : t * chunks = 0 /\ (t + 1) * chunks = 0
  BY <1>1 DEF Threads
<1>5. \A t \in Threads : StartOf(t) = 0
  BY <1>4 DEF StartOf
<1>6. \A t \in Threads \ {MAX_THREADS - 1} : EndOf(t) = 0
  BY <1>3, <1>4 DEF EndOf
<1>7. EndOf(MAX_THREADS - 1) = filesize /\ MAX_THREADS - 1 \in Threads
  BY <1>1, <1>2 DEF EndOf, Threads
<1>8. WordStarts(0, 0) = {}
  BY DEF WordStarts
<1> HIDE DEF StartOf, EndOf
<1> QED BY <1>5, <1>6, <1>7, <1>8 DEF Chunk

\* In a larger one the chunks follow one another, and all but the first begin behind
\* a word.
LEMMA LargeFile ==
    ASSUME filesize \in Nat, filesize >= MAX_THREADS
    PROVE  /\ \A t, u \in Threads : t < u => EndOf(t) <= StartOf(u)
           /\ \A t \in Threads \ {0} : /\ StartOf(t) = EndOf(t - 1)
                                       /\ StartOf(t) < filesize => ~data[StartOf(t)]
<1>1. MAX_THREADS \in Nat \ {0}
  BY WordCountAssumption
<1>2. /\ \A t \in Threads \ {0} : t * chunks \in 0 .. filesize /\ StartOf(t) = AfterWord(t * chunks)
      /\ \A t \in Threads : t + 1 \in Threads =>
             (t + 1) * chunks \in 0 .. filesize /\ EndOf(t) = AfterWord((t + 1) * chunks)
  BY <1>1, Cuts, ChunkCuts DEF Threads
<1> HIDE DEF StartOf, EndOf
<1>3. ASSUME NEW t \in Threads, NEW u \in Threads, t < u
      PROVE  EndOf(t) <= StartOf(u)
  <2>1. t + 1 \in Threads /\ u # 0
    BY <1>1, <1>3 DEF Threads
  <2>2. (t + 1) * chunks <= u * chunks
    <3>1. chunks \in Nat /\ t + 1 \in Nat /\ u \in Nat /\ t + 1 <= u
      BY <1>1, <1>3, Division DEF Threads
    <3> QED BY <3>1
  <2> QED BY <1>2, <2>1, <2>2, AfterWordMonotonic
<1>4. ASSUME NEW t \in Threads \ {0}
      PROVE  StartOf(t) = EndOf(t - 1) /\ (StartOf(t) < filesize => ~data[StartOf(t)])
  <2>1. t - 1 \in Threads /\ (t - 1) + 1 = t
    BY <1>1 DEF Threads
  <2>2. IsWordEnd(t * chunks, AfterWord(t * chunks))
    BY <1>2, AfterWordProperties
  <2> HIDE DEF AfterWord
  <2> QED BY <1>2, <2>1, <2>2 DEF IsWordEnd
<1> QED BY <1>3, <1>4

\* No word start is in two chunks.
LEMMA ChunksApart ==
    ASSUME filesize \in Nat, Regular, NEW t \in Threads, NEW u \in Threads, t # u
    PROVE  Chunk(t) \cap Chunk(u) = {}
<1>1. CASE filesize < MAX_THREADS
  BY <1>1, SmallFile
<1>2. CASE filesize >= MAX_THREADS
  <2>1. EndOf(t) <= StartOf(u) \/ EndOf(u) <= StartOf(t)
    BY <1>2, LargeFile, WordCountAssumption DEF Threads
  <2>2. /\ StartOf(t) \in Nat /\ EndOf(t) \in Nat
        /\ StartOf(u) \in Nat /\ EndOf(u) \in Nat
    BY ChunkTypes
  <2> HIDE DEF StartOf, EndOf
  <2> QED BY <2>1, <2>2 DEF Chunk, WordStarts
<1> QED BY <1>1, <1>2, WordCountAssumption

\* And every one is in some chunk.
LEMMA ChunksTogether ==
    ASSUME filesize \in Nat, Regular
    PROVE  UNION {Chunk(t) : t \in Threads} = WordStarts(0, filesize)
<1>1. MAX_THREADS \in Nat \ {0} /\ MAX_THREADS - 1 \in Threads
  BY WordCountAssumption DEF Threads
<1>2. CASE filesize < MAX_THREADS
  <2>1. \A t \in Threads : Chunk(t) \subseteq WordStarts(0, filesize)
    BY <1>2, SmallFile
  <2> QED BY <1>1, <1>2, <2>1, SmallFile
<1>3. CASE filesize >= MAX_THREADS
  <2>1. StartOf(0) = 0 /\ EndOf(MAX_THREADS - 1) = filesize
    BY <1>3, ChunkCuts
  <2>2. \A t \in Threads : StartOf(t) \in 0 .. filesize /\ EndOf(t) \in 0 .. filesize
    BY ChunkTypes
  <2>3. \A t \in Threads \ {0} : /\ StartOf(t) = EndOf(t - 1)
                                 /\ StartOf(t) < filesize => ~data[StartOf(t)]
    BY <1>3, LargeFile
  <2> HIDE DEF StartOf, EndOf
  <2>4. ASSUME NEW t \in Threads PROVE Chunk(t) \subseteq WordStarts(0, filesize)
    BY <1>1, <2>1, <2>2, <2>3 DEF WordStarts, Chunk, Threads
  <2>5. ASSUME NEW p \in WordStarts(0, filesize) PROVE \E t \in Threads : p \in Chunk(t)
    <3> DEFINE Beyond == {t \in Threads : p < EndOf(t)}
    <3>1. p \in 0 .. filesize - 1 /\ data[p] /\ (p > 0 => ~data[p - 1])
      BY DEF WordStarts
    <3>2. MAX_THREADS - 1 \in Beyond /\ Beyond \in SUBSET Nat
      BY <1>1, <2>1, <3>1 DEF Threads
    <3>3. PICK t \in Beyond : \A u \in Beyond : t <= u
      BY <3>2, SmallestOf
    <3>4. StartOf(t) <= p
      <4>1. CASE t = 0
        BY <2>1, <3>1, <4>1
      <4>2. CASE t # 0
        <5>1. t - 1 \in Threads /\ StartOf(t) = EndOf(t - 1) /\ t - 1 \notin Beyond
          BY <1>1, <2>3, <3>3, <4>2 DEF Threads
        <5> QED BY <2>2, <3>1, <5>1
      <4> QED BY <4>1, <4>2
    <3>5. p \in Chunk(t)
      BY <2>2, <3>1, <3>3, <3>4 DEF WordStarts, Chunk
    <3> QED BY <3>3, <3>5
  <2> QED BY <2>4, <2>5
<1> QED BY <1>1, <1>2, <1>3

-----------------------------------------------------------------------------
\* The mutex and what has been added under it.
MutexInv == \A t \in Threads : /\ pc[t] = "add" <=> mutex = t
                               /\ pc[t] = "add" => total[t] = word_count
CountInv == \A t \in Threads : /\ pc[t] # "new" <=> t < i
                               /\ pc[t] \in {"lock", "add", "done"} => count[t] = Cardinality(Chunk(t))
PrintInv == printed => i = MAX_THREADS /\ Joined
AddedInv == Regular => word_count = Cardinality(Counted)
TInv == IInv /\ TypeOK /\ MutexInv /\ CountInv /\ PrintInv /\ AddedInv

LEMMA ChunkFinite ==
    ASSUME filesize \in Nat, NEW t \in Threads
    PROVE  IsFiniteSet(Chunk(t)) /\ Cardinality(Chunk(t)) \in Nat
<1>1. StartOf(t) \in Int /\ EndOf(t) - 1 \in Int
  BY ChunkTypes
<1> DEFINE all == StartOf(t) .. EndOf(t) - 1
<1>2. Chunk(t) \in SUBSET all
  BY DEF Chunk, WordStarts
<1>3. IsFiniteSet(all)
  BY <1>1, FS_Interval
<1> QED BY <1>2, <1>3, FS_Subset, FS_CardinalityType

LEMMA CountedFinite == ASSUME filesize \in Nat PROVE IsFiniteSet(Counted)
<1> DEFINE all == 0 .. filesize
<1>1. IsFiniteSet(all)
  BY FS_Interval
<1>2. \A t \in Threads : Chunk(t) \subseteq all
  <2> SUFFICES ASSUME NEW t \in Threads PROVE Chunk(t) \subseteq all
    OBVIOUS
  <2>1. StartOf(t) \in 0 .. filesize /\ EndOf(t) \in 0 .. filesize
    BY ChunkTypes
  <2> HIDE DEF StartOf, EndOf
  <2> QED BY <2>1 DEF Chunk, WordStarts
<1>3. Counted \in SUBSET all
  BY <1>2 DEF Counted, Finished
<1> QED BY <1>1, <1>3, FS_Subset

\* While the file stays, so does what is to be counted.
LEMMA SameFile ==
    ASSUME UNCHANGED file
    PROVE  /\ Regular' = Regular
           /\ WordStarts(0, filesize)' = WordStarts(0, filesize)
           /\ \A t \in Threads : Chunk(t)' = Chunk(t)
  BY DEF file, Regular, WordStarts, Chunk, StartOf, EndOf, AfterWord, IsWordEnd, chunks

LEMMA SameCounted ==
    ASSUME UNCHANGED file, Finished' = Finished PROVE Counted' = Counted
<1>1. \A t \in Threads : Chunk(t)' = Chunk(t)
  BY SameFile
<1> QED BY <1>1 DEF Counted, Finished

LEMMA InitTInv == Init => TInv
<1> SUFFICES ASSUME Init PROVE TInv
  OBVIOUS
<1>1. IInv
  BY InitIInv
<1>2. TypeOK
  <2>1. filesize \in FileSizes /\ data \in [0 .. filesize - 1 -> BOOLEAN] /\ printed \in BOOLEAN
    BY DEF Init
  <2>2. /\ i \in 0 .. MAX_THREADS
        /\ start \in [Threads -> 0 .. filesize] /\ end \in [Threads -> 0 .. filesize]
    BY WordCountAssumption DEF Init
  <2>3. /\ pc \in [Threads -> ControlPoints] /\ mutex \in Threads \cup {Nobody}
        /\ count \in [Threads -> Nat] /\ total \in [Threads -> Nat] /\ word_count \in Nat
    BY DEF Init, ControlPoints
  <2> QED BY <2>1, <2>2, <2>3 DEF TypeOK
<1>3. MutexInv /\ PrintInv
  BY WordCountAssumption DEF Init, MutexInv, PrintInv, Threads
<1>4. CountInv
  BY WordCountAssumption DEF Init, CountInv, Threads
<1>5. Counted = {} /\ word_count = 0
  BY DEF Init, Counted, Finished
<1> QED BY <1>1, <1>2, <1>3, <1>4, <1>5, FS_EmptySet DEF TInv, AddedInv

LEMMA CreateTInv == ASSUME TInv, IInv', Create PROVE TInv'
<1>1. /\ i \in Threads /\ i' = i + 1 /\ pc' = [pc EXCEPT ![i] = "count"] /\ pc[i] = "new"
      /\ UNCHANGED <<file, count, total, word_count, mutex, printed>>
  BY WordCountAssumption DEF Create, TInv, IInv, CountInv, Threads
<1>2. TypeOK'
  BY <1>1, WordCountAssumption DEF TInv, TypeOK, IInv, ControlPoints, file, Threads
<1>3. MutexInv'
  BY <1>1 DEF TInv, TypeOK, MutexInv
<1>4. CountInv'
  <2>1. \A t \in Threads : Chunk(t)' = Chunk(t)
    BY <1>1, SameFile
  <2> SUFFICES ASSUME NEW t \in Threads
               PROVE  /\ pc'[t] # "new" <=> t < i'
                      /\ pc'[t] \in {"lock", "add", "done"} => count'[t] = Cardinality(Chunk(t))
    BY <2>1 DEF CountInv
  <2>2. t \in Int /\ i \in Int
    BY <1>1, WordCountAssumption DEF Threads
  <2> QED BY <1>1, <2>2 DEF TInv, TypeOK, CountInv
<1>5. PrintInv'
  BY <1>1 DEF TInv, PrintInv, Joined
<1>6. AddedInv'
  <2>1. Finished' = Finished
    BY <1>1 DEF Finished, TInv, TypeOK
  <2> QED BY <1>1, <2>1, SameFile, SameCounted DEF TInv, AddedInv
<1> QED BY <1>2, <1>3, <1>4, <1>5, <1>6 DEF TInv

LEMMA CountWordsTInv ==
    ASSUME TInv, IInv', NEW t \in Threads, CountWords(t) PROVE TInv'
<1>1. /\ pc[t] = "count" /\ pc' = [pc EXCEPT ![t] = "lock"]
      /\ UNCHANGED <<file, i, args, total, word_count, mutex, printed>>
  BY DEF CountWords
<1>2. count' = [count EXCEPT ![t] = Cardinality(Chunk(t))]
  <2>1. t < i
    BY <1>1 DEF TInv, CountInv
  <2>2. start[t] = StartOf(t) /\ end[t] = EndOf(t)
    BY <2>1 DEF TInv, IInv
  <2> QED BY <2>2 DEF CountWords, Chunk
<1>3. Cardinality(Chunk(t)) \in Nat
  BY ChunkFinite DEF TInv, IInv
<1>4. \A u \in Threads : Chunk(u)' = Chunk(u)
  BY <1>1, SameFile
<1>5. TypeOK'
  BY <1>1, <1>2, <1>3 DEF TInv, TypeOK, ControlPoints, file, args
<1>6. MutexInv' /\ PrintInv'
  BY <1>1 DEF TInv, TypeOK, MutexInv, PrintInv, Joined
<1>7. CountInv'
  <2> SUFFICES ASSUME NEW u \in Threads
               PROVE  /\ pc'[u] # "new" <=> u < i'
                      /\ pc'[u] \in {"lock", "add", "done"} => count'[u] = Cardinality(Chunk(u))
    BY <1>4 DEF CountInv
  <2> QED BY <1>1, <1>2 DEF TInv, TypeOK, CountInv
<1>8. AddedInv'
  <2>1. Finished' = Finished
    BY <1>1 DEF Finished, TInv, TypeOK
  <2> QED BY <1>1, <2>1, SameFile, SameCounted DEF TInv, AddedInv
<1> QED BY <1>5, <1>6, <1>7, <1>8 DEF TInv

LEMMA LockTInv ==
    ASSUME TInv, IInv', NEW t \in Threads, Lock(t) PROVE TInv'
<1>1. /\ pc[t] = "lock" /\ mutex = Nobody /\ mutex' = t
      /\ total' = [total EXCEPT ![t] = word_count]
      /\ pc' = [pc EXCEPT ![t] = "add"]
      /\ UNCHANGED <<file, i, args, count, word_count, printed>>
  BY DEF Lock
<1>2. \A u \in Threads : Chunk(u)' = Chunk(u)
  BY <1>1, SameFile
<1>3. TypeOK'
  BY <1>1 DEF TInv, TypeOK, ControlPoints, file, args
<1>4. MutexInv'
  <2>1. \A u \in Threads : u # Nobody
    BY WordCountAssumption DEF Threads
  <2> QED BY <1>1, <2>1 DEF TInv, TypeOK, MutexInv
<1>5. PrintInv'
  BY <1>1 DEF TInv, PrintInv, Joined
<1>6. CountInv'
  <2> SUFFICES ASSUME NEW u \in Threads
               PROVE  /\ pc'[u] # "new" <=> u < i'
                      /\ pc'[u] \in {"lock", "add", "done"} => count'[u] = Cardinality(Chunk(u))
    BY <1>2 DEF CountInv
  <2> QED BY <1>1 DEF TInv, TypeOK, CountInv
<1>7. AddedInv'
  <2>1. Finished' = Finished
    BY <1>1 DEF Finished, TInv, TypeOK
  <2> QED BY <1>1, <2>1, SameFile, SameCounted DEF TInv, AddedInv
<1> QED BY <1>3, <1>4, <1>5, <1>6, <1>7 DEF TInv

\* What the thread adds is disjoint from what has been added before.
LEMMA AddTInv ==
    ASSUME TInv, IInv', NEW t \in Threads, Add(t) PROVE TInv'
<1>1. /\ pc[t] = "add" /\ mutex' = Nobody /\ word_count' = total[t] + count[t]
      /\ pc' = [pc EXCEPT ![t] = "done"]
      /\ UNCHANGED <<file, i, args, count, total, printed>>
  BY DEF Add
<1>2. \A u \in Threads : Chunk(u)' = Chunk(u)
  BY <1>1, SameFile
<1>3. TypeOK'
  BY <1>1 DEF TInv, TypeOK, ControlPoints, file, args
<1>4. MutexInv'
  <2>1. \A u \in Threads : u # Nobody
    BY WordCountAssumption DEF Threads
  <2>2. \A u \in Threads \ {t} : pc[u] # "add"
    BY <1>1 DEF TInv, MutexInv
  <2> QED BY <1>1, <2>1, <2>2 DEF TInv, TypeOK, MutexInv
<1>5. PrintInv'
  BY <1>1 DEF TInv, PrintInv, Joined
<1>6. CountInv'
  <2> SUFFICES ASSUME NEW u \in Threads
               PROVE  /\ pc'[u] # "new" <=> u < i'
                      /\ pc'[u] \in {"lock", "add", "done"} => count'[u] = Cardinality(Chunk(u))
    BY <1>2 DEF CountInv
  <2> QED BY <1>1 DEF TInv, TypeOK, CountInv
<1>7. AddedInv'
  <2> SUFFICES ASSUME Regular PROVE word_count' = Cardinality(Counted')
    BY <1>1, SameFile DEF AddedInv
  <2>1. filesize \in Nat
    BY DEF TInv, IInv
  <2>2. t \notin Finished /\ Finished' = Finished \cup {t} /\ Finished \subseteq Threads
    BY <1>1 DEF Finished, TInv, TypeOK
  <2>3. Counted' = Counted \cup Chunk(t)
    BY <1>2, <2>2 DEF Counted
  <2>4. Counted \cap Chunk(t) = {}
    <3>1. \A u \in Finished : Chunk(u) \cap Chunk(t) = {}
      BY <2>1, <2>2, ChunksApart
    <3> QED BY <3>1 DEF Counted
  <2>5. /\ IsFiniteSet(Counted) /\ Cardinality(Counted) \in Nat
        /\ IsFiniteSet(Chunk(t)) /\ Cardinality(Chunk(t)) \in Nat
    BY <2>1, CountedFinite, ChunkFinite, FS_CardinalityType
  <2>6. Cardinality(Counted \cup Chunk(t)) = Cardinality(Counted) + Cardinality(Chunk(t)) - Cardinality({})
    BY <2>4, <2>5, FS_Union
  <2>7. word_count' = Cardinality(Counted) + Cardinality(Chunk(t))
    BY <1>1 DEF TInv, MutexInv, CountInv, AddedInv
  <2> QED BY <2>3, <2>5, <2>6, <2>7, FS_EmptySet
<1> QED BY <1>3, <1>4, <1>5, <1>6, <1>7 DEF TInv

LEMMA NextTInv == TInv /\ [Next]_vars => TInv'
<1> SUFFICES ASSUME TInv, [Next]_vars PROVE TInv'
  OBVIOUS
<1>1. IInv'
  BY NextIInv DEF TInv
<1>2. CASE Create
  BY <1>1, <1>2, CreateTInv
<1>3. CASE PrintTotal
  <2>1. /\ i = MAX_THREADS /\ Joined /\ printed'
        /\ UNCHANGED <<file, i, args, pc, count, total, word_count, mutex>>
    BY <1>3 DEF PrintTotal
  <2>2. \A t \in Threads : Chunk(t)' = Chunk(t)
    BY <2>1, SameFile
  <2>3. TypeOK' /\ MutexInv' /\ PrintInv'
    BY <2>1 DEF TInv, TypeOK, MutexInv, PrintInv, Joined, file, args
  <2>4. CountInv'
    BY <2>1, <2>2 DEF TInv, CountInv
  <2>5. AddedInv'
    BY <2>1, SameFile, SameCounted DEF TInv, AddedInv, Finished
  <2> QED BY <1>1, <2>3, <2>4, <2>5 DEF TInv
<1>4. ASSUME NEW t \in Threads, Thread(t) PROVE TInv'
  BY <1>1, <1>4, CountWordsTInv, LockTInv, AddTInv DEF Thread
<1>5. CASE UNCHANGED vars
  <2>1. UNCHANGED <<file, i, args, pc, count, total, word_count, mutex, printed>>
    BY <1>5 DEF vars
  <2>2. \A t \in Threads : Chunk(t)' = Chunk(t)
    BY <2>1, SameFile
  <2>3. TypeOK' /\ MutexInv' /\ PrintInv'
    BY <2>1 DEF TInv, TypeOK, MutexInv, PrintInv, Joined, file, args
  <2>4. CountInv'
    BY <2>1, <2>2 DEF TInv, CountInv
  <2>5. AddedInv'
    BY <2>1, SameFile, SameCounted DEF TInv, AddedInv, Finished
  <2> QED BY <1>1, <2>3, <2>4, <2>5 DEF TInv
<1> QED BY <1>2, <1>3, <1>4, <1>5 DEF Next, Ended

LEMMA TotalFromInv == TInv => TotalIsRight
<1> SUFFICES ASSUME TInv, printed, Regular
             PROVE  word_count = Cardinality(WordStarts(0, filesize))
  BY DEF TotalIsRight, Words, Regular
<1>1. Finished = Threads
  BY DEF TInv, PrintInv, Joined, Finished
<1>2. Counted = WordStarts(0, filesize)
  BY <1>1, ChunksTogether DEF TInv, IInv, Counted
<1> QED BY <1>2 DEF TInv, AddedInv

\* The cuts lie in the file, and the mutex belongs to a thread or to nobody.
THEOREM TypeCorrect == Spec => []TypeOK
<1>1. TInv => TypeOK
  BY DEF TInv
<1> QED BY <1>1, InitTInv, NextTInv, PTL DEF Spec

\* Whatever the file and the number of threads, and in whatever order they come to
\* the mutex, main prints the number of words, but for a file that begins with a
\* word and has fewer characters than there are threads.
THEOREM TotalCorrect == Spec => []TotalIsRight
<1> QED BY InitTInv, NextTInv, TotalFromInv, PTL DEF Spec

-----------------------------------------------------------------------------
\* The shared counters.
SharedTypes ==
    /\ sPc \in {"fork", "wait", "done", "died"}
    /\ sI \in 0 .. WorkerCount
    /\ sChild \in [Shared!Workers -> {"none", "new", "attached", "failed", "exited", "reaped"}]
    /\ sLost \subseteq Shared!Workers
    /\ sJ \in [Shared!Workers -> 0 .. Turns]
    /\ sCounter = sJ
    /\ sRemoved = (sPc = "done")

\* How far a child has got with its loop, by what it is doing.  A child that has been
\* waited for tells only by lost how it ended.
HowFar(w) ==
    /\ sChild[w] \in {"none", "new", "attached", "exited"} => w \notin sLost
    /\ sChild[w] = "failed" => w \in sLost
    /\ w \in sLost \/ sChild[w] \in {"none", "new"} => sJ[w] = 0
    /\ sChild[w] \in {"exited", "reaped"} /\ w \notin sLost => sJ[w] = Turns

\* The parent has waited for as many children as it has counted in the second loop.
Reaped == {w \in Shared!Workers : sChild[w] = "reaped"}
ParentInv ==
    /\ sPc = "fork" => Reaped = {} /\ \A w \in sI .. WorkerCount - 1 : sChild[w] = "none"
    /\ sPc \in {"wait", "done"} => Cardinality(Reaped) = sI
    /\ sPc = "done" => sI = WorkerCount /\ sPrinted = sCounter

SInv == SharedTypes /\ (\A w \in Shared!Workers : HowFar(w)) /\ ParentInv

-----------------------------------------------------------------------------
LEMMA ReapedFinite ==
    /\ IsFiniteSet(Shared!Workers) /\ Cardinality(Shared!Workers) = WorkerCount
    /\ IsFiniteSet(Reaped)
<1> USE CountingAssumption
<1>1. IsFiniteSet(0 .. WorkerCount - 1) /\ Cardinality(0 .. WorkerCount - 1) = WorkerCount
  BY FS_Interval
<1> QED BY <1>1, FS_Subset DEF Shared!Workers, Reaped

\* When the parent has waited as often as it has forked, nobody is left.
LEMMA AllReaped ==
    ASSUME Cardinality(Reaped) = WorkerCount PROVE Reaped = Shared!Workers
  BY ReapedFinite, FS_Subset DEF Reaped

LEMMA InitSInv == ASSUME Shared!Init PROVE SInv
<1> USE CountingAssumption
<1>1. SharedTypes
  <2>1. sJ = [w \in Shared!Workers |-> 0] /\ sJ \in [Shared!Workers -> 0 .. Turns]
    BY DEF Shared!Init
  <2>2. sChild \in [Shared!Workers -> {"none"}]
    BY DEF Shared!Init
  <2>3. sChild \in [Shared!Workers -> {"none", "new", "attached", "failed", "exited", "reaped"}]
    BY <2>2
  <2>4. sRemoved = (sPc = "done")
    BY DEF Shared!Init
  <2>5. sCounter = sJ /\ sI \in 0 .. WorkerCount /\ sLost \subseteq Shared!Workers /\ sPc = "fork"
    BY DEF Shared!Init
  <2> QED BY <2>1, <2>3, <2>4, <2>5 DEF SharedTypes
<1>2. \A w \in Shared!Workers : HowFar(w)
  BY DEF Shared!Init, HowFar
<1>3. ParentInv
  BY DEF Shared!Init, ParentInv, Reaped, Shared!Workers
<1> QED BY <1>1, <1>2, <1>3 DEF SInv

LEMMA ParentStep == ASSUME SInv, Shared!Parent PROVE SInv'
<1> USE CountingAssumption DEF SInv
<1>1. CASE Shared!Fork
  <2>1. sI \in Shared!Workers /\ sChild[sI] = "none"
    BY <1>1 DEF Shared!Fork, SharedTypes, ParentInv, Shared!Workers
  <2>2. SharedTypes'
    <3>1. sI' \in 0 .. WorkerCount
      BY <1>1 DEF Shared!Fork, SharedTypes
    <3>2. sChild' \in [Shared!Workers -> {"none", "new", "attached", "failed", "exited", "reaped"}]
      BY <1>1, <2>1 DEF Shared!Fork, SharedTypes
    <3> QED BY <1>1, <3>1, <3>2 DEF Shared!Fork, SharedTypes
  <2>3. \A w \in Shared!Workers : HowFar(w)'
    BY <1>1, <2>1 DEF Shared!Fork, SharedTypes, HowFar
  <2>4. \A w \in sI' .. WorkerCount - 1 : sChild'[w] = "none"
    BY <1>1 DEF Shared!Fork, SharedTypes, ParentInv, Shared!Workers
  <2>5. Reaped' = {}
    BY <1>1 DEF Shared!Fork, SharedTypes, ParentInv, Reaped
  <2> QED BY <1>1, <2>2, <2>3, <2>4, <2>5 DEF Shared!Fork, ParentInv
<1>2. CASE Shared!ForkFails
  BY <1>2 DEF Shared!ForkFails, SharedTypes, HowFar, ParentInv
<1>3. CASE Shared!StartWaiting
  <2>1. Reaped' = {} /\ Cardinality(Reaped') = 0
    BY <1>3, FS_EmptySet DEF Shared!StartWaiting, ParentInv, Reaped
  <2> QED BY <1>3, <2>1 DEF Shared!StartWaiting, SharedTypes, HowFar, ParentInv
<1>4. CASE Shared!Wait
  <2>1. PICK w \in Shared!Workers : /\ sChild[w] \in {"failed", "exited"}
                                    /\ sChild' = [sChild EXCEPT ![w] = "reaped"]
    BY <1>4 DEF Shared!Wait
  <2>2. Reaped' = Reaped \cup {w} /\ w \notin Reaped
    BY <2>1 DEF SharedTypes, Reaped
  <2>3. Cardinality(Reaped') = sI + 1
    BY <1>4, <2>2, ReapedFinite, FS_AddElement DEF Shared!Wait, ParentInv
  <2>4. SharedTypes'
    BY <1>4, <2>1 DEF Shared!Wait, SharedTypes
  <2>5. \A v \in Shared!Workers : HowFar(v)'
    BY <1>4, <2>1 DEF Shared!Wait, SharedTypes, HowFar
  <2> QED BY <1>4, <2>3, <2>4, <2>5 DEF Shared!Wait, ParentInv
<1>5. CASE Shared!PrintCounters
  BY <1>5 DEF Shared!PrintCounters, SharedTypes, HowFar, ParentInv, Reaped
<1> QED BY <1>1, <1>2, <1>3, <1>4, <1>5 DEF Shared!Parent

\* A child that runs has not been waited for, so that after the last wait no child
\* takes a step.
LEMMA ChildStep ==
    ASSUME SInv, NEW w \in Shared!Workers, Shared!Child(w)
    PROVE  SInv'
<1> USE CountingAssumption DEF SInv
<1>1. sChild[w] \in {"new", "attached"} /\ UNCHANGED <<sPc, sI, sRemoved, sPrinted>>
  BY DEF Shared!Child, Shared!Attach, Shared!AttachFails, Shared!Increment, Shared!Exit
<1>2. sChild' \in [Shared!Workers -> {"none", "new", "attached", "failed", "exited", "reaped"}]
  BY DEF Shared!Child, Shared!Attach, Shared!AttachFails, Shared!Increment, Shared!Exit, SharedTypes
<1>3. \A v \in Shared!Workers : \/ v # w /\ sChild'[v] = sChild[v]
                                \/ v = w /\ sChild'[v] \in {"attached", "failed", "exited"}
  BY DEF Shared!Child, Shared!Attach, Shared!AttachFails, Shared!Increment, Shared!Exit, SharedTypes
<1>4. SharedTypes'
  BY <1>1, <1>2 DEF Shared!Child, Shared!Attach, Shared!AttachFails, Shared!Increment, Shared!Exit, SharedTypes
<1>5. \A v \in Shared!Workers : HowFar(v)'
  <2>1. CASE Shared!Attach(w)
    BY <2>1 DEF Shared!Attach, SharedTypes, HowFar
  <2>2. CASE Shared!AttachFails(w)
    BY <2>2 DEF Shared!AttachFails, SharedTypes, HowFar
  <2>3. CASE Shared!Increment(w)
    BY <2>3 DEF Shared!Increment, SharedTypes, HowFar
  <2>4. CASE Shared!Exit(w)
    BY <2>4 DEF Shared!Exit, SharedTypes, HowFar
  <2> QED BY <2>1, <2>2, <2>3, <2>4 DEF Shared!Child
<1>6. Reaped' = Reaped
  BY <1>1, <1>3 DEF Reaped
<1>7. sPc # "done"
  BY <1>1, AllReaped DEF ParentInv, Reaped
<1>8. sPc = "fork" => \A v \in sI .. WorkerCount - 1 : sChild'[v] = "none"
  BY <1>1, <1>3 DEF ParentInv, SharedTypes, Shared!Workers
<1> QED BY <1>1, <1>4, <1>5, <1>6, <1>7, <1>8 DEF ParentInv

LEMMA NextSInv == ASSUME SInv, [Shared!Next]_sVars PROVE SInv'
<1>1. CASE UNCHANGED sVars
  BY <1>1 DEF sVars, SInv, SharedTypes, HowFar, ParentInv, Reaped
<1> QED BY <1>1, ParentStep, ChildStep DEF Shared!Next

LEMMA WorkersFromInv == SInv => Shared!WorkersExact
<1> SUFFICES ASSUME SInv, sPc = "done" PROVE Shared!WorkersExact
  BY DEF SInv, SharedTypes, Shared!WorkersExact
<1>1. \A w \in Shared!Workers : sChild[w] = "reaped"
  BY AllReaped DEF SInv, ParentInv, Reaped
<1> QED BY <1>1 DEF SInv, SharedTypes, ParentInv, HowFar, Shared!WorkersExact

\* In every reachable state, for any number of children and increments, what has been
\* printed is right, and the segment is not removed while a child runs.
THEOREM WorkersCorrect == Shared!Spec => []Shared!WorkersExact
<1>1. SInv /\ [Shared!Next]_(Shared!vars) => SInv'
  BY NextSInv DEF sVars, Shared!vars
<1> QED BY <1>1, InitSInv, WorkersFromInv, PTL DEF Shared!Spec

-----------------------------------------------------------------------------
\* The counter benchmark.
BenchTypes ==
    /\ bWorker \in {"mutex", "atomic", "none"}
    /\ bI \in 0 .. WorkerCount
    /\ bPc \in [Bench!Threads -> {"new", "loop", "add", "unlock", "returned"}]
    /\ bTurn \in [Bench!Threads -> 0 .. Turns]
    /\ bOld \in [Bench!Threads -> Nat]
    /\ bMutex \in Bench!Threads \cup {Nobody}
    /\ bMutexCounter \in Nat /\ bAtomicCounter \in Nat

\* Where a thread of the benchmark is, by its control point.  The mutex is held by
\* the thread between its lock and its unlock, and what that thread has read is
\* still the counter.
BenchThread(t) ==
    /\ bPc[t] \in {"add", "unlock"} <=> bMutex = t
    /\ bMutex = t => bWorker = "mutex" /\ bTurn[t] < Turns
    /\ bPc[t] = "add" => bOld[t] = bMutexCounter
    /\ bPc[t] = "new" => bTurn[t] = 0
    /\ bPc[t] = "returned" => bTurn[t] = Turns
    /\ t >= bI => bPc[t] = "new"

\* The turns of the workers that are in the counter: those behind a thread, and the
\* one it is in when it has added and not yet unlocked.
TurnsOf == Bench!Threads \X (0 .. Turns - 1)
Done(turn, point) ==
    {p \in TurnsOf : p[2] < turn[p[1]] \/ (p[2] = turn[p[1]] /\ point[p[1]] = "unlock")}

CounterInv ==
    /\ bWorker = "mutex" => bMutexCounter = Cardinality(Done(bTurn, bPc))
    /\ bWorker = "atomic" => bAtomicCounter = Cardinality(Done(bTurn, bPc))
    /\ \A w \in {"mutex", "atomic"} : bPrinted[w] \in {-1, WorkerCount * Turns}
    /\ DOMAIN bPrinted = {"mutex", "atomic"}

BInv == BenchTypes /\ (\A t \in Bench!Threads : BenchThread(t)) /\ CounterInv

LEMMA DoneFinite ==
    /\ IsFiniteSet(TurnsOf) /\ Cardinality(TurnsOf) = WorkerCount * Turns
    /\ \A turn, point : /\ IsFiniteSet(Done(turn, point))
                        /\ Cardinality(Done(turn, point)) \in Nat
<1>1. /\ IsFiniteSet(0 .. WorkerCount - 1) /\ Cardinality(0 .. WorkerCount - 1) = WorkerCount
      /\ IsFiniteSet(0 .. Turns - 1) /\ Cardinality(0 .. Turns - 1) = Turns
  <2>1. /\ WorkerCount - 1 \in Int /\ Turns - 1 \in Int /\ 0 \in Int
        /\ WorkerCount \in Nat /\ Turns \in Nat
    BY CountingAssumption
  <2> QED BY <2>1, FS_Interval
<1>2. IsFiniteSet(TurnsOf) /\ Cardinality(TurnsOf) = WorkerCount * Turns
  <2> DEFINE S == 0 .. WorkerCount - 1
             T == 0 .. Turns - 1
  <2>1. IsFiniteSet(S) /\ IsFiniteSet(T) /\ Cardinality(S) = WorkerCount /\ Cardinality(T) = Turns
    BY <1>1
  <2>2. TurnsOf = S \X T
    BY DEF TurnsOf, Bench!Threads
  <2> HIDE DEF S, T
  <2>3. IsFiniteSet(S \X T) /\ Cardinality(S \X T) = Cardinality(S) * Cardinality(T)
    BY <2>1, FS_Product
  <2> QED BY <2>1, <2>2, <2>3
<1>3. ASSUME NEW turn, NEW point
      PROVE  IsFiniteSet(Done(turn, point)) /\ Cardinality(Done(turn, point)) \in Nat
  <2>1. Done(turn, point) \in SUBSET TurnsOf
    BY DEF Done
  <2> QED BY <1>2, <2>1, FS_Subset, FS_CardinalityType
<1> QED BY <1>2, <1>3

\* One more turn of one thread is one more turn in all.
LEMMA DoneMore ==
    ASSUME NEW turn, NEW point, NEW turn2, NEW point2, NEW p \in TurnsOf,
           p \notin Done(turn, point),
           \A q \in TurnsOf : q \in Done(turn2, point2) <=> q \in Done(turn, point) \/ q = p
    PROVE  Cardinality(Done(turn2, point2)) = Cardinality(Done(turn, point)) + 1
<1>1. Done(turn2, point2) = Done(turn, point) \cup {p}
  BY DEF Done
<1> DEFINE D == Done(turn, point)
<1>2. IsFiniteSet(D) /\ p \notin D
  BY DoneFinite
<1> HIDE DEF D
<1>3. Cardinality(D \cup {p}) = Cardinality(D) + 1
  BY <1>2, FS_AddElement
<1> QED BY <1>1, <1>3 DEF D

\* When every thread has returned, all turns are in the counter; when none has begun,
\* no turn is.
LEMMA DoneAll ==
    ASSUME NEW turn, NEW point, \A t \in Bench!Threads : turn[t] = Turns
    PROVE  Cardinality(Done(turn, point)) = WorkerCount * Turns
<1>1. Done(turn, point) = TurnsOf
  BY CountingAssumption DEF Done, TurnsOf
<1> QED BY <1>1, DoneFinite

LEMMA DoneNone ==
    ASSUME NEW turn, NEW point, \A t \in Bench!Threads : turn[t] = 0 /\ point[t] # "unlock"
    PROVE  Cardinality(Done(turn, point)) = 0
<1>1. Done(turn, point) = {}
  BY CountingAssumption DEF Done, TurnsOf
<1> QED BY <1>1, FS_EmptySet

LEMMA InitBInv == ASSUME Bench!Init PROVE BInv
<1>1. BenchTypes
  <2>1. bOld = [t \in Bench!Threads |-> 0] /\ bOld \in [Bench!Threads -> Nat]
    BY DEF Bench!Init
  <2>2. bTurn = [t \in Bench!Threads |-> 0] /\ bTurn \in [Bench!Threads -> 0 .. Turns]
    BY CountingAssumption DEF Bench!Init
  <2> QED BY <2>1, <2>2, CountingAssumption DEF Bench!Init, BenchTypes
<1>2. \A t \in Bench!Threads : BenchThread(t)
  BY CountingAssumption DEF Bench!Init, BenchThread, Bench!Threads
<1>3. Cardinality(Done(bTurn, bPc)) = 0
  BY DoneNone DEF Bench!Init
<1> QED BY <1>1, <1>2, <1>3 DEF Bench!Init, BInv, CounterInv

\* main: the threads it waits for have counted all turns, and the next ones none.
LEMMA BenchMainStep == ASSUME BInv, Bench!Main PROVE BInv'
<1> USE DEF BInv
<1>1. WorkerCount \in Nat /\ Turns \in Nat /\ WorkerCount * Turns \in Nat
  BY CountingAssumption
<1>2. CASE Bench!Create
  <2>1. bI \in Bench!Threads /\ bPc[bI] = "new" /\ bI' = bI + 1
    BY <1>1, <1>2 DEF Bench!Create, BenchTypes, BenchThread, Bench!Threads
  <2>2. /\ bPc' = [bPc EXCEPT ![bI] = "loop"]
        /\ UNCHANGED <<bWorker, bTurn, bOld, bMutex, bMutexCounter, bAtomicCounter, bPrinted>>
    BY <1>2 DEF Bench!Create, Bench!counters
  <2>3. BenchTypes'
    BY <1>1, <2>1, <2>2 DEF BenchTypes, Bench!Threads
  <2>4. ASSUME NEW t \in Bench!Threads PROVE BenchThread(t)'
    <3>1. BenchThread(t)
      OBVIOUS
    <3> QED BY <1>1, <2>1, <2>2, <3>1 DEF BenchTypes, BenchThread, Bench!Threads
  <2>5. Done(bTurn', bPc') = Done(bTurn, bPc)
    BY <2>1, <2>2 DEF Done, TurnsOf, BenchTypes
  <2> QED BY <2>2, <2>3, <2>4, <2>5 DEF CounterInv
<1>3. ASSUME Bench!Joined PROVE Cardinality(Done(bTurn, bPc)) = WorkerCount * Turns
  <2>1. \A t \in Bench!Threads : bTurn[t] = Turns
    BY <1>3 DEF Bench!Joined, BenchThread
  <2> QED BY <2>1, DoneAll
<1>4. ASSUME Bench!Joined PROVE bMutex = Nobody
  BY <1>4 DEF Bench!Joined, BenchTypes, BenchThread
<1>5. CASE Bench!PrintMutex
  <2>1. /\ bWorker = "mutex" /\ Bench!Joined
        /\ bPrinted' = [bPrinted EXCEPT !["mutex"] = bMutexCounter]
        /\ bWorker' = "atomic" /\ bI' = 0 /\ bAtomicCounter' = 0
        /\ bPc' = [t \in Bench!Threads |-> "new"]
        /\ bTurn' = [t \in Bench!Threads |-> 0]
        /\ UNCHANGED <<bOld, bMutex, bMutexCounter>>
    BY <1>5 DEF Bench!PrintMutex, Bench!NewThreads
  <2>2. BenchTypes'
    BY <1>1, <2>1 DEF BenchTypes
  <2>3. \A t \in Bench!Threads : BenchThread(t)'
    BY <1>4, <2>1, CountingAssumption DEF BenchThread, Bench!Threads
  <2>4. Cardinality(Done(bTurn', bPc')) = 0
    BY <2>1, DoneNone
  <2>5. CounterInv'
    BY <1>3, <2>1, <2>4 DEF CounterInv
  <2> QED BY <2>2, <2>3, <2>5
<1>6. CASE Bench!PrintAtomic
  <2>1. /\ bWorker = "atomic" /\ Bench!Joined
        /\ bPrinted' = [bPrinted EXCEPT !["atomic"] = bAtomicCounter]
        /\ bWorker' = "none"
        /\ UNCHANGED <<bI, bPc, bTurn, bOld, bMutex, bMutexCounter, bAtomicCounter>>
    BY <1>6 DEF Bench!PrintAtomic, Bench!counters
  <2>2. BenchTypes'
    BY <2>1 DEF BenchTypes
  <2>3. \A t \in Bench!Threads : BenchThread(t)'
    BY <1>4, <2>1, CountingAssumption DEF BenchThread, Bench!Threads
  <2>4. CounterInv'
    BY <1>3, <2>1 DEF CounterInv
  <2> QED BY <2>2, <2>3, <2>4
<1> QED BY <1>2, <1>5, <1>6 DEF Bench!Main

\* A thread: only its holder adds under the mutex, and its turn is counted then, or
\* with the fetch-and-add.
LEMMA BenchThreadStep ==
    ASSUME BInv, NEW t \in Bench!Threads, Bench!Thread(t)
    PROVE  BInv'
<1> USE CountingAssumption DEF BInv
<1>1. t \in Nat /\ t # Nobody /\ BenchThread(t) /\ UNCHANGED <<bI, bPrinted>>
  BY DEF Bench!Threads, Bench!Thread, Bench!Lock, Bench!Add, Bench!Unlock, Bench!FetchAdd, Bench!Return
<1>2. CASE Bench!Lock(t)
  <2>1. /\ bWorker = "mutex" /\ bPc[t] = "loop" /\ bTurn[t] < Turns /\ bMutex = Nobody
        /\ bMutex' = t
        /\ bOld' = [bOld EXCEPT ![t] = bMutexCounter]
        /\ bPc' = [bPc EXCEPT ![t] = "add"]
        /\ UNCHANGED <<bWorker, bI, bTurn, bMutexCounter, bAtomicCounter, bPrinted>>
    BY <1>2 DEF Bench!Lock, Bench!counters
  <2>2. BenchTypes'
    BY <2>1 DEF BenchTypes
  <2>3. ASSUME NEW u \in Bench!Threads PROVE BenchThread(u)'
    <3>1. BenchThread(u) /\ u # Nobody
      BY DEF Bench!Threads
    <3> QED BY <1>1, <2>1, <3>1 DEF BenchTypes, BenchThread
  <2>4. Done(bTurn', bPc') = Done(bTurn, bPc)
    BY <2>1 DEF Done, TurnsOf, BenchTypes
  <2> QED BY <2>1, <2>2, <2>3, <2>4 DEF CounterInv
<1>3. CASE Bench!Add(t)
  <2>1. /\ bPc[t] = "add"
        /\ bMutexCounter' = bOld[t] + 1
        /\ bPc' = [bPc EXCEPT ![t] = "unlock"]
        /\ UNCHANGED <<bWorker, bI, bTurn, bOld, bMutex, bAtomicCounter, bPrinted>>
    BY <1>3 DEF Bench!Add
  <2>2. bMutex = t /\ bWorker = "mutex" /\ bTurn[t] < Turns /\ bOld[t] = bMutexCounter
    BY <1>1, <2>1 DEF BenchThread
  <2>3. BenchTypes'
    BY <2>1 DEF BenchTypes
  <2>4. ASSUME NEW u \in Bench!Threads PROVE BenchThread(u)'
    <3>1. BenchThread(u)
      OBVIOUS
    <3> QED BY <1>1, <2>1, <2>2, <3>1 DEF BenchTypes, BenchThread
  <2>5. Cardinality(Done(bTurn', bPc')) = Cardinality(Done(bTurn, bPc)) + 1
    <3>1. <<t, bTurn[t]>> \in TurnsOf /\ <<t, bTurn[t]>> \notin Done(bTurn, bPc)
      BY <2>1, <2>2 DEF Done, TurnsOf, BenchTypes
    <3>2. ASSUME NEW q \in TurnsOf
          PROVE  q \in Done(bTurn', bPc') <=> q \in Done(bTurn, bPc) \/ q = <<t, bTurn[t]>>
      BY <2>1 DEF Done, TurnsOf, BenchTypes
    <3> QED BY <3>1, <3>2, DoneMore
  <2> QED BY <2>1, <2>2, <2>3, <2>4, <2>5 DEF CounterInv
<1>4. CASE Bench!Unlock(t)
  <2>1. /\ bPc[t] = "unlock"
        /\ bMutex' = Nobody
        /\ bTurn' = [bTurn EXCEPT ![t] = @ + 1]
        /\ bPc' = [bPc EXCEPT ![t] = "loop"]
        /\ UNCHANGED <<bWorker, bI, bOld, bMutexCounter, bAtomicCounter, bPrinted>>
    BY <1>4 DEF Bench!Unlock, Bench!counters
  <2>2. bMutex = t /\ bWorker = "mutex" /\ bTurn[t] < Turns
    BY <1>1, <2>1 DEF BenchThread
  <2>3. BenchTypes'
    BY <2>1, <2>2 DEF BenchTypes
  <2>4. ASSUME NEW u \in Bench!Threads PROVE BenchThread(u)'
    <3>1. BenchThread(u) /\ u # Nobody
      BY DEF Bench!Threads
    <3> QED BY <1>1, <2>1, <2>2, <3>1 DEF BenchTypes, BenchThread
  <2>5. Done(bTurn', bPc') = Done(bTurn, bPc)
    <3>1. \A q \in TurnsOf : q \in Done(bTurn', bPc') <=> q \in Done(bTurn, bPc)
      BY <2>1 DEF Done, TurnsOf, BenchTypes
    <3> QED BY <3>1 DEF Done
  <2> QED BY <2>1, <2>3, <2>4, <2>5 DEF CounterInv
<1>5. CASE Bench!FetchAdd(t)
  <2>1. /\ bWorker = "atomic" /\ bPc[t] = "loop" /\ bTurn[t] < Turns
        /\ bAtomicCounter' = bAtomicCounter + 1
        /\ bTurn' = [bTurn EXCEPT ![t] = @ + 1]
        /\ UNCHANGED <<bWorker, bI, bPc, bOld, bMutex, bMutexCounter, bPrinted>>
    BY <1>5 DEF Bench!FetchAdd
  <2>2. BenchTypes'
    BY <2>1 DEF BenchTypes
  <2>3. ASSUME NEW u \in Bench!Threads PROVE BenchThread(u)'
    <3>1. BenchThread(u)
      OBVIOUS
    <3> QED BY <1>1, <2>1, <3>1 DEF BenchTypes, BenchThread
  <2>4. Cardinality(Done(bTurn', bPc')) = Cardinality(Done(bTurn, bPc)) + 1
    <3>1. <<t, bTurn[t]>> \in TurnsOf /\ <<t, bTurn[t]>> \notin Done(bTurn, bPc)
      BY <2>1 DEF Done, TurnsOf, BenchTypes
    <3>2. ASSUME NEW q \in TurnsOf
          PROVE  q \in Done(bTurn', bPc') <=> q \in Done(bTurn, bPc) \/ q = <<t, bTurn[t]>>
      BY <2>1 DEF Done, TurnsOf, BenchTypes
    <3> QED BY <3>1, <3>2, DoneMore
  <2> QED BY <2>1, <2>2, <2>3, <2>4 DEF CounterInv
<1>6. CASE Bench!Return(t)
  <2>1. /\ bPc[t] = "loop" /\ bTurn[t] = Turns
        /\ bPc' = [bPc EXCEPT ![t] = "returned"]
        /\ UNCHANGED <<bWorker, bI, bTurn, bOld, bMutex, bMutexCounter, bAtomicCounter, bPrinted>>
    BY <1>6 DEF Bench!Return, Bench!counters
  <2>2. BenchTypes'
    BY <2>1 DEF BenchTypes
  <2>3. ASSUME NEW u \in Bench!Threads PROVE BenchThread(u)'
    <3>1. BenchThread(u)
      OBVIOUS
    <3> QED BY <1>1, <2>1, <3>1 DEF BenchTypes, BenchThread
  <2>4. Done(bTurn', bPc') = Done(bTurn, bPc)
    BY <2>1 DEF Done, TurnsOf, BenchTypes
  <2> QED BY <2>1, <2>2, <2>3, <2>4 DEF CounterInv
<1> QED BY <1>2, <1>3, <1>4, <1>5, <1>6 DEF Bench!Thread

LEMMA NextBInv == ASSUME BInv, [Bench!Next]_bVars PROVE BInv'
<1>1. CASE UNCHANGED bVars
  BY <1>1 DEF bVars, BInv, BenchTypes, BenchThread, CounterInv, Done
<1> QED BY <1>1, BenchMainStep, BenchThreadStep DEF Bench!Next

LEMMA CountersFromInv == BInv => Bench!CountersExact
  BY CountingAssumption
     DEF BInv, BenchTypes, BenchThread, CounterInv, Bench!CountersExact, Bench!Threads

\* For any number of threads and turns, both counters are printed with no increment
\* lost, and the mutex is free when the second benchmark begins.
THEOREM CountersCorrect == Bench!Spec => []Bench!CountersExact
<1>1. BInv /\ [Bench!Next]_(Bench!vars) => BInv'
  BY NextBInv DEF bVars, Bench!vars
<1> QED BY <1>1, InitBInv, CountersFromInv, PTL DEF Bench!Spec

-----------------------------------------------------------------------------
\* The three programs together, as the run checks them: a step is one of one program
\* or leaves each as it is.
AllInv == IInv /\ TInv /\ SInv /\ BInv

LEMMA InitAll == MCInit => AllInv
  BY InitIInv, InitTInv, InitSInv, InitBInv DEF MCInit, AllInv

LEMMA NextAll == AllInv /\ [MCNext]_allVars => AllInv'
<1> SUFFICES ASSUME AllInv, [MCNext]_allVars PROVE AllInv'
  OBVIOUS
<1>1. [Next]_vars /\ [Bench!Next]_bVars /\ [Shared!Next]_sVars
  <2>1. ASSUME NEW w \in AnyWorker, WorkerStep(w)
        PROVE  [Next]_vars /\ [Bench!Next]_bVars /\ [Shared!Next]_sVars
    <3>1. w \in Nat
      BY WordCountAssumption, CountingAssumption DEF AnyWorker
    <3> QED BY <2>1, <3>1, WordCountAssumption, CountingAssumption
            DEF WorkerStep, Next, Threads, Bench!Next, Bench!Threads, Shared!Next, Shared!Workers
  <2>2. MainStep => [Next]_vars /\ [Bench!Next]_bVars /\ [Shared!Next]_sVars
    BY DEF MainStep, Next, Bench!Next, Shared!Next
  <2>3. UNCHANGED allVars => UNCHANGED vars /\ UNCHANGED bVars /\ UNCHANGED sVars
    BY DEF allVars
  <2> QED BY <2>1, <2>2, <2>3 DEF MCNext
<1> QED BY <1>1, NextIInv, NextTInv, NextSInv, NextBInv DEF AllInv

\* Whichever of the programs runs, with any number of threads, children and turns and
\* on any file, it prints all that was counted, and each of it once.
THEOREM AllTotalsRight == MCSpec => []TotalsRight
<1>1. AllInv => TotalsRight
  BY TotalFromInv, WorkersFromInv, CountersFromInv DEF AllInv, TotalsRight
<1> QED BY <1>1, InitAll, NextAll, PTL DEF MCSpec

-----------------------------------------------------------------------------
\* What holds for a number whenever it holds for all smaller ones holds for all.
LEMMA FromSmaller ==
    ASSUME NEW S, \A n \in Nat : (\A m \in 0 .. n - 1 : m \in S) => n \in S
    PROVE  \A n \in Nat : n \in S
<1> SUFFICES ASSUME NEW n \in Nat, n \notin S PROVE FALSE
  OBVIOUS
<1> DEFINE T == Nat \ S
<1>1. n \in T /\ T \in SUBSET Nat
  OBVIOUS
<1>2. PICK m \in T : \A k \in T : m <= k
  <2> HIDE DEF T
  <2> QED BY <1>1, SmallestOf
<1>3. \A k \in 0 .. m - 1 : k \in S
  <2> SUFFICES ASSUME NEW k \in 0 .. m - 1, k \notin S PROVE FALSE
    OBVIOUS
  <2>1. k \in T /\ k < m
    BY <1>2
  <2> QED BY <1>2, <2>1
<1> QED BY <1>2, <1>3

\* A recursion that looks only at what is smaller by some measure has a solution: step[x]
\* says what the value at x is when g are the values everywhere.
LooksBelow(S, X, m, step) ==
    /\ m \in [S -> Nat] /\ step \in [S -> [[S -> X] -> X]]
    /\ \A x \in S : \A g, h \in [S -> X] :
           (\A y \in S : m[y] < m[x] => g[y] = h[y]) => step[x][g] = step[x][h]
Solves(S, X, m, step, n, g) ==
    n \in Nat /\ g \in [S -> X] /\ \A x \in S : m[x] < n => g[x] = step[x][g]

LEMMA SolutionsAgree ==
    ASSUME NEW S, NEW X, NEW m, NEW step, LooksBelow(S, X, m, step),
           NEW a, NEW g, Solves(S, X, m, step, a, g), NEW b, NEW h, Solves(S, X, m, step, b, h)
    PROVE  \A x \in S : m[x] < a /\ m[x] < b => g[x] = h[x]
<1> USE DEF LooksBelow, Solves
<1> DEFINE T == {n \in Nat : \A x \in S : m[x] = n /\ m[x] < a /\ m[x] < b => g[x] = h[x]}
<1>1. ASSUME NEW n \in Nat, \A k \in 0 .. n - 1 : k \in T PROVE n \in T
  <2> SUFFICES ASSUME NEW x \in S, m[x] = n, m[x] < a, m[x] < b PROVE g[x] = h[x]
    OBVIOUS
  <2>1. ASSUME NEW y \in S, m[y] < m[x] PROVE g[y] = h[y]
    <3>1. m[y] \in 0 .. n - 1 /\ m[y] < a /\ m[y] < b
      BY <2>1
    <3>2. m[y] \in T
      BY <1>1, <3>1
    <3> QED BY <3>1, <3>2
  <2>2. step[x][g] = step[x][h]
    BY <2>1 DEF LooksBelow
  <2> QED BY <2>2 DEF Solves
<1> HIDE DEF T
<1>2. \A n \in Nat : n \in T
  BY <1>1, FromSmaller
<1> QED BY <1>2 DEF T

LEMMA SolutionExists ==
    ASSUME NEW S, NEW X, X # {}, NEW m, NEW step, LooksBelow(S, X, m, step)
    PROVE  \E g \in [S -> X] : \A x \in S : g[x] = step[x][g]
<1> USE DEF LooksBelow
<1> DEFINE T == {n \in Nat : \E g \in [S -> X] : Solves(S, X, m, step, n, g)}
<1>1. ASSUME NEW n \in Nat, \A k \in 0 .. n - 1 : k \in T PROVE n \in T
  <2>1. CASE n = 0
    <3>1. PICK y : y \in X
      OBVIOUS
    <3>2. [x \in S |-> y] \in [S -> X] /\ Solves(S, X, m, step, 0, [x \in S |-> y])
      BY <3>1 DEF Solves
    <3> QED BY <2>1, <3>2
  <2>2. CASE n # 0
    <3>1. n - 1 \in T /\ n - 1 \in Nat
      BY <1>1, <2>2
    <3>2. PICK g \in [S -> X] : Solves(S, X, m, step, n - 1, g)
      BY <3>1
    <3> DEFINE h == [x \in S |-> IF m[x] < n - 1 THEN g[x] ELSE step[x][g]]
    <3>3. h \in [S -> X]
      OBVIOUS
    <3>4. ASSUME NEW x \in S, m[x] < n PROVE h[x] = step[x][h]
      <4>1. \A y \in S : m[y] < m[x] => h[y] = g[y]
        <5> SUFFICES ASSUME NEW y \in S, m[y] < m[x] PROVE h[y] = g[y]
          OBVIOUS
        <5>1. m[y] < n - 1
          BY <3>4
        <5> QED BY <5>1
      <4>2. step[x][h] = step[x][g]
        <5> HIDE DEF h
        <5> QED BY <3>3, <4>1 DEF LooksBelow
      <4>3. h[x] = step[x][g]
        BY <3>2 DEF Solves
      <4> QED BY <4>2, <4>3
    <3>5. Solves(S, X, m, step, n, h)
      <4> HIDE DEF h, LooksBelow
      <4> QED BY <3>3, <3>4 DEF Solves
    <3> HIDE DEF h
    <3> QED BY <3>3, <3>5
  <2> QED BY <2>1, <2>2
<1> HIDE DEF T
<1>2. \A n \in Nat : n \in T
  BY <1>1, FromSmaller
<1> DEFINE G == [n \in Nat |-> CHOOSE g \in [S -> X] : Solves(S, X, m, step, n, g)]
<1>3. ASSUME NEW n \in Nat PROVE G[n] \in [S -> X] /\ Solves(S, X, m, step, n, G[n])
  <2>1. \E g \in [S -> X] : Solves(S, X, m, step, n, g)
    BY <1>2 DEF T
  <2> QED BY <2>1
<1> HIDE DEF G
<1> DEFINE g == [x \in S |-> G[m[x] + 1][x]]
<1>4. g \in [S -> X]
  <2> SUFFICES ASSUME NEW x \in S PROVE G[m[x] + 1][x] \in X
    OBVIOUS
  <2>1. m[x] + 1 \in Nat
    OBVIOUS
  <2> QED BY <1>3, <2>1
<1>5. ASSUME NEW x \in S PROVE g[x] = step[x][g]
  <2> DEFINE h == G[m[x] + 1]
  <2>1. m[x] \in Nat /\ m[x] + 1 \in Nat /\ m[x] < m[x] + 1
    OBVIOUS
  <2>2. h \in [S -> X] /\ Solves(S, X, m, step, m[x] + 1, h)
    BY <1>3, <2>1
  <2> HIDE DEF h
  <2>3. ASSUME NEW y \in S, m[y] < m[x] PROVE g[y] = h[y]
    <3>1. m[y] \in Nat /\ m[y] + 1 \in Nat /\ m[y] < m[y] + 1 /\ m[y] < m[x] + 1
      BY <2>3
    <3>2. G[m[y] + 1] \in [S -> X] /\ Solves(S, X, m, step, m[y] + 1, G[m[y] + 1])
      BY <1>3, <3>1
    <3> DEFINE f == G[m[y] + 1]
    <3>3. g[y] = f[y] /\ Solves(S, X, m, step, m[y] + 1, f)
      BY <3>2
    <3> HIDE DEF f, g
    <3>4. f[y] = h[y]
      <4> HIDE DEF LooksBelow
      <4> QED BY <2>1, <2>2, <3>1, <3>3, SolutionsAgree
    <3> QED BY <3>3, <3>4
  <2>4. step[x][g] = step[x][h]
    <3> HIDE DEF g
    <3> QED BY <1>4, <2>2, <2>3 DEF LooksBelow
  <2>5. h[x] = step[x][h]
    BY <2>1, <2>2 DEF Solves
  <2> QED BY <2>4, <2>5 DEF h
<1> HIDE DEF g
<1> QED BY <1>4, <1>5

-----------------------------------------------------------------------------
\* src/1649.c: the lowest bit of an odd number is 1, that of an even one twice that of its half.
LEMMA LowBitIs ==
    \A n \in Nat \ {0} :
        /\ Counting!LowBit(n) \in 1 .. n
        /\ Counting!LowBit(n) = IF n % 2 = 1 THEN 1 ELSE 2 * Counting!LowBit(n \div 2)
<1> DEFINE S == Nat \ {0}
           m == [n \in S |-> n]
           step == [n \in S |-> [g \in [S -> Nat] |-> IF n % 2 = 1 THEN 1 ELSE 2 * g[n \div 2]]]
           Is(h) == h = [n \in S |-> IF n % 2 = 1 THEN 1 ELSE 2 * h[n \div 2]]
           lowest == CHOOSE h : Is(h)
<1>1. \A n \in S : n % 2 # 1 => n \div 2 \in S /\ n \div 2 < n
  OBVIOUS
<1>2. step \in [S -> [[S -> Nat] -> Nat]]
  <2> SUFFICES ASSUME NEW n \in S, NEW g \in [S -> Nat]
               PROVE  (IF n % 2 = 1 THEN 1 ELSE 2 * g[n \div 2]) \in Nat
    OBVIOUS
  <2>1. CASE n % 2 # 1
    <3>1. g[n \div 2] \in Nat
      BY <1>1, <2>1
    <3> QED BY <3>1
  <2> QED BY <2>1
<1>3. LooksBelow(S, Nat, m, step)
  <2> SUFFICES ASSUME NEW n \in S, NEW g \in [S -> Nat], NEW h \in [S -> Nat],
                      \A y \in S : m[y] < m[n] => g[y] = h[y]
               PROVE  step[n][g] = step[n][h]
    <3>1. m \in [S -> Nat]
      OBVIOUS
    <3> HIDE DEF m, step
    <3> QED BY <1>2, <3>1 DEF LooksBelow
  <2>1. CASE n % 2 # 1
    <3>1. g[n \div 2] = h[n \div 2]
      BY <1>1, <2>1
    <3> QED BY <2>1, <3>1
  <2> QED BY <2>1
<1>4. PICK h \in [S -> Nat] : \A n \in S : h[n] = step[n][h]
  <2> DEFINE X == Nat
  <2>1. X # {}
    OBVIOUS
  <2>2. LooksBelow(S, X, m, step)
    BY <1>3
  <2>3. \E h \in [S -> X] : \A n \in S : h[n] = step[n][h]
    <3> HIDE DEF S, m, step, X
    <3> QED BY <2>1, <2>2, SolutionExists
  <2> QED BY <2>3
<1>5. Is(h)
  BY <1>4
<1>6. Is(lowest)
  <2> HIDE DEF Is
  <2> QED BY <1>5
<1>7. \A n \in S : Counting!LowBit(n) = lowest[n]
  BY DEF Counting!LowBit
<1>8. \A n \in S : lowest[n] = IF n % 2 = 1 THEN 1 ELSE 2 * lowest[n \div 2]
  <2> HIDE DEF lowest
  <2> QED BY <1>6
<1> DEFINE T == {n \in Nat : n # 0 => lowest[n] \in 1 .. n}
<1>9. ASSUME NEW n \in Nat, \A k \in 0 .. n - 1 : k \in T PROVE n \in T
  <2> HIDE DEF lowest
  <2>1. CASE n # 0 /\ n % 2 # 1
    <3>1. n \in S /\ n \div 2 \in 0 .. n - 1 /\ n \div 2 # 0 /\ n = 2 * (n \div 2)
      BY <2>1
    <3>2. lowest[n \div 2] \in 1 .. n \div 2
      BY <1>9, <3>1
    <3>3. lowest[n] = 2 * lowest[n \div 2]
      BY <1>8, <2>1, <3>1
    <3> QED BY <3>1, <3>2, <3>3
  <2>2. CASE n # 0 /\ n % 2 = 1
    BY <1>8, <2>2
  <2> QED BY <2>1, <2>2
<1>10. \A n \in Nat : n \in T
  <2> HIDE DEF T
  <2> QED BY <1>9, FromSmaller
<1>11. ASSUME NEW n \in S PROVE n % 2 # 1 => Counting!LowBit(n \div 2) = lowest[n \div 2]
  BY <1>1, <1>7
<1> HIDE DEF lowest
<1> QED BY <1>7, <1>8, <1>10, <1>11

\* The instructions that bit[p] counts.
Covered(p) == p - Counting!LowBit(p) + 1 .. p

\* One step up from n: the same sums cover it, but for the one at n itself.
LEMMA CoveredAbove ==
    ASSUME NEW n \in Nat \ {0}, NEW p \in Nat \ {0}, p # n
    PROVE  n \in Covered(p) <=> n + Counting!LowBit(n) \in Covered(p)
<1> DEFINE Low(k) == Counting!LowBit(k)
           T == {k \in Nat : k # 0 => \A q \in Nat \ {0} : q # k =>
                    (q - Low(q) < k /\ k <= q <=> q - Low(q) < k + Low(k) /\ k + Low(k) <= q)}
<1>1. \A k \in Nat \ {0} : /\ Low(k) \in 1 .. k
                           /\ k % 2 = 1 => Low(k) = 1
                           /\ k % 2 # 1 => Low(k) = 2 * Low(k \div 2)
  BY LowBitIs
<1> HIDE DEF Low
<1>2. ASSUME NEW k \in Nat, \A h \in 0 .. k - 1 : h \in T PROVE k \in T
  <2> SUFFICES ASSUME k # 0, NEW q \in Nat \ {0}, q # k
               PROVE  q - Low(q) < k /\ k <= q <=> q - Low(q) < k + Low(k) /\ k + Low(k) <= q
    OBVIOUS
  <2>1. ASSUME NEW h \in Nat \ {0}, h % 2 # 1
        PROVE  h \div 2 \in Nat \ {0} /\ h = 2 * (h \div 2) /\ Low(h \div 2) \in Nat
    <3>1. h \div 2 \in Nat \ {0} /\ h = 2 * (h \div 2)
      BY <2>1
    <3> QED BY <1>1, <3>1
  <2>2. CASE k % 2 = 1
    <3>1. Low(k) = 1
      BY <1>1, <2>2
    <3>2. CASE q % 2 = 1
      <4>1. Low(q) = 1
        BY <1>1, <3>2
      <4> QED BY <2>2, <3>1, <3>2, <4>1
    <3>3. CASE q % 2 # 1
      <4>1. Low(q) = 2 * Low(q \div 2)
        BY <1>1, <3>3
      <4> QED BY <2>1, <2>2, <3>1, <3>3, <4>1
    <3> QED BY <3>2, <3>3
  <2>3. CASE k % 2 # 1
    <3>1. Low(k) = 2 * Low(k \div 2)
      BY <1>1, <2>3
    <3>2. CASE q % 2 = 1
      <4>1. Low(q) = 1
        BY <1>1, <3>2
      <4> QED BY <2>1, <2>3, <3>1, <3>2, <4>1
    <3>3. CASE q % 2 # 1
      <4> DEFINE a == k \div 2
                 b == q \div 2
      <4>1. a \in Nat \ {0} /\ k = 2 * a /\ Low(a) \in Nat /\ b \in Nat \ {0} /\ q = 2 * b /\ Low(b) \in Nat
        BY <2>1, <2>3, <3>3
      <4>2. Low(q) = 2 * Low(b)
        BY <1>1, <3>3
      <4>3. a \in 0 .. k - 1 /\ b # a
        BY <4>1
      <4> HIDE DEF a, b
      <4>4. b - Low(b) < a /\ a <= b <=> b - Low(b) < a + Low(a) /\ a + Low(a) <= b
        BY <1>2, <4>1, <4>3
      <4>5. Low(k) = 2 * Low(a)
        BY <3>1 DEF a
      <4> QED BY <4>1, <4>2, <4>4, <4>5
    <3> QED BY <3>2, <3>3
  <2> QED BY <2>2, <2>3
<1> HIDE DEF T
<1>3. n \in T
  BY <1>2, FromSmaller
<1>4. n \in Nat /\ p \in Nat /\ Low(n) \in Nat /\ Low(p) \in Nat
  BY <1>1
<1>5. \A x \in Nat : x \in p - Low(p) + 1 .. p <=> p - Low(p) < x /\ x <= p
  BY <1>4
<1>6. n + Low(n) \in Nat
  BY <1>4
<1> QED BY <1>3, <1>5, <1>6 DEF T, Covered, Low

LEMMA UpdateIs ==
    ASSUME NEW bit \in [1 .. MAX_VAL -> Int], NEW x \in Nat \ {0}, NEW v \in Int
    PROVE  Counting!update(bit, x, v) =
               [p \in 1 .. MAX_VAL |-> IF x \in Covered(p) THEN bit[p] + v ELSE bit[p]]
<1> DEFINE S == Nat \ {0}
           X == [1 .. MAX_VAL -> Int]
           Low(n) == Counting!LowBit(n)
           m == [n \in S |-> IF n > MAX_VAL THEN 0 ELSE MAX_VAL + 1 - n]
           step == [n \in S |-> [g \in [S -> X] |->
                       IF n > MAX_VAL THEN bit ELSE [g[n + Low(n)] EXCEPT ![n] = @ + v]]]
           Is(h) == h = [n \in S |-> IF n > MAX_VAL THEN bit ELSE [h[n + Low(n)] EXCEPT ![n] = @ + v]]
           after == CHOOSE h : Is(h)
<1>1. MAX_VAL \in Nat
  BY InputAssumption
<1>2. \A n \in S : Low(n) \in Nat \ {0} /\ n + Low(n) \in S
  <2> SUFFICES ASSUME NEW n \in S PROVE Low(n) \in Nat \ {0} /\ n + Low(n) \in S
    OBVIOUS
  <2>1. Low(n) \in 1 .. n
    BY LowBitIs
  <2> QED BY <2>1
<1> HIDE DEF Low
<1>3. \A n \in S : n <= MAX_VAL => m[n + Low(n)] < m[n]
  <2> SUFFICES ASSUME NEW n \in S, n <= MAX_VAL PROVE m[n + Low(n)] < m[n]
    OBVIOUS
  <2>1. n \in Nat /\ Low(n) \in Nat \ {0} /\ n + Low(n) \in S
    BY <1>2
  <2> QED BY <1>1, <2>1
<1>4. m \in [S -> Nat]
  <2> SUFFICES ASSUME NEW n \in S, n <= MAX_VAL PROVE MAX_VAL + 1 - n \in Nat
    BY <1>1
  <2> QED BY <1>1
<1>5. ASSUME NEW n \in S, NEW w \in X PROVE [w EXCEPT ![n] = @ + v] \in X
  <2> SUFFICES ASSUME NEW p \in 1 .. MAX_VAL PROVE [w EXCEPT ![n] = @ + v][p] \in Int
    OBVIOUS
  <2>1. CASE p = n
    BY <2>1
  <2>2. CASE p # n
    BY <2>2
  <2> QED BY <2>1, <2>2
<1>6. step \in [S -> [[S -> X] -> X]]
  <2> SUFFICES ASSUME NEW n \in S, NEW g \in [S -> X]
               PROVE  (IF n > MAX_VAL THEN bit ELSE [g[n + Low(n)] EXCEPT ![n] = @ + v]) \in X
    OBVIOUS
  <2>1. g[n + Low(n)] \in X
    BY <1>2
  <2>2. [g[n + Low(n)] EXCEPT ![n] = @ + v] \in X
    BY <1>5, <2>1
  <2> QED BY <2>2
<1>7. LooksBelow(S, X, m, step)
  <2> SUFFICES ASSUME NEW n \in S, NEW g \in [S -> X], NEW h \in [S -> X],
                      \A y \in S : m[y] < m[n] => g[y] = h[y]
               PROVE  step[n][g] = step[n][h]
    <3> HIDE DEF m, step, X
    <3> QED BY <1>4, <1>6 DEF LooksBelow
  <2>1. CASE n <= MAX_VAL
    <3>1. g[n + Low(n)] = h[n + Low(n)]
      BY <1>2, <1>3, <2>1
    <3> QED BY <3>1
  <2>2. CASE ~(n <= MAX_VAL)
    <3>1. n > MAX_VAL
      BY <1>1, <2>2
    <3> QED BY <3>1
  <2> QED BY <2>1, <2>2
<1>8. X # {}
  OBVIOUS
<1>9. PICK h \in [S -> X] : \A n \in S : h[n] = step[n][h]
  <2> HIDE DEF S, m, step, X
  <2> QED BY <1>7, <1>8, SolutionExists
<1>10. Is(h)
  BY <1>9
<1>11. Is(after)
  <2> HIDE DEF Is
  <2> QED BY <1>10
<1>12. Counting!update(bit, x, v) = after[x]
  BY DEF Counting!update, Low
<1>13. \A n \in S : after[n] = IF n > MAX_VAL THEN bit ELSE [after[n + Low(n)] EXCEPT ![n] = @ + v]
  <2> HIDE DEF after
  <2> QED BY <1>11
<1> HIDE DEF after
<1> DEFINE Added(n) == [p \in 1 .. MAX_VAL |-> IF n \in Covered(p) THEN bit[p] + v ELSE bit[p]]
           T == {k \in Nat : \A n \in S : m[n] = k => after[n] = Added(n)}
<1>14. ASSUME NEW k \in Nat, \A j \in 0 .. k - 1 : j \in T PROVE k \in T
  <2> SUFFICES ASSUME NEW n \in S, m[n] = k PROVE after[n] = Added(n)
    OBVIOUS
  <2>1. CASE n > MAX_VAL
    <3>1. after[n] = bit
      BY <1>13, <2>1
    <3>2. ASSUME NEW p \in 1 .. MAX_VAL PROVE n \notin Covered(p)
      BY <1>1, <2>1 DEF Covered
    <3>3. Added(n) = [p \in 1 .. MAX_VAL |-> bit[p]]
      BY <3>2
    <3> QED BY <3>1, <3>3
  <2>2. CASE ~(n > MAX_VAL)
    <3>1. n \in Nat \ {0} /\ n \in 1 .. MAX_VAL /\ n <= MAX_VAL /\ n + Low(n) \in S /\ Low(n) \in Nat \ {0}
      <4>1. n \in Nat \ {0}
        OBVIOUS
      <4>2. n <= MAX_VAL /\ n \in 1 .. MAX_VAL
        <5> HIDE DEF m
        <5> QED BY <1>1, <2>2, <4>1
      <4> HIDE DEF m
      <4> QED BY <1>2, <4>1, <4>2
    <3>2. m[n + Low(n)] \in 0 .. k - 1
      <4>1. m[n + Low(n)] < k /\ m[n + Low(n)] \in Nat
        BY <1>3, <1>4, <3>1
      <4> HIDE DEF m
      <4> QED BY <4>1
    <3>3. after[n + Low(n)] = Added(n + Low(n))
      <4> HIDE DEF Added, m
      <4> QED BY <1>14, <3>1, <3>2
    <3>4. after[n] = [Added(n + Low(n)) EXCEPT ![n] = @ + v]
      <4> HIDE DEF Added
      <4> QED BY <1>13, <2>2, <3>1, <3>3
    <3>5. ASSUME NEW p \in 1 .. MAX_VAL PROVE after[n][p] = Added(n)[p]
      <4>1. p \in Nat \ {0}
        OBVIOUS
      <4>2. CASE p = n
        <5>1. Low(n) \in 1 .. n
          BY LowBitIs DEF Low
        <5>2. n \in Covered(p) /\ n + Low(n) \notin Covered(p)
          BY <4>2, <3>1, <5>1 DEF Covered, Low
        <5>3. after[n][p] = Added(n + Low(n))[p] + v
          <6> HIDE DEF Added
          <6>1. DOMAIN Added(n + Low(n)) = 1 .. MAX_VAL
            BY DEF Added
          <6> QED BY <3>4, <4>2, <6>1
        <5> QED BY <5>2, <5>3
      <4>3. CASE p # n
        <5>1. n \in Covered(p) <=> n + Low(n) \in Covered(p)
          BY <3>1, <4>1, <4>3, CoveredAbove DEF Low
        <5>2. after[n][p] = Added(n + Low(n))[p]
          <6> HIDE DEF Added
          <6>1. DOMAIN Added(n + Low(n)) = 1 .. MAX_VAL
            BY DEF Added
          <6> QED BY <3>4, <4>3, <6>1
        <5> QED BY <5>1, <5>2
      <4> QED BY <4>2, <4>3
    <3>6. after[n] = [p \in 1 .. MAX_VAL |-> after[n][p]]
      <4>1. after[n] \in X
        <5>1. Added(n + Low(n)) \in X
          OBVIOUS
        <5> HIDE DEF Added, X
        <5> QED BY <1>5, <3>1, <3>4, <5>1
      <4> QED BY <4>1
    <3> QED BY <3>5, <3>6
  <2> QED BY <2>1, <2>2
<1>15. \A k \in Nat : k \in T
  <2> HIDE DEF T
  <2> QED BY <1>14, FromSmaller
<1>16. x \in S /\ m[x] \in Nat
  BY <1>4
<1>17. after[x] = Added(x)
  <2> HIDE DEF m, Added
  <2> QED BY <1>15, <1>16
<1> QED BY <1>12, <1>17

LEMMA QueryIs ==
    ASSUME NEW bit \in [1 .. MAX_VAL -> Int]
    PROVE  /\ \A n \in 0 .. MAX_VAL : Counting!query(bit, n) \in Int
           /\ Counting!query(bit, 0) = 0
           /\ \A n \in 1 .. MAX_VAL :
                  Counting!query(bit, n) = bit[n] + Counting!query(bit, n - Counting!LowBit(n))
<1> DEFINE S == 0 .. MAX_VAL
           Low(n) == Counting!LowBit(n)
           m == [n \in S |-> n]
           step == [n \in S |-> [g \in [S -> Int] |-> IF n = 0 THEN 0 ELSE bit[n] + g[n - Low(n)]]]
           Is(h) == h = [n \in S |-> IF n = 0 THEN 0 ELSE bit[n] + h[n - Low(n)]]
           res == CHOOSE h : Is(h)
<1>1. MAX_VAL \in Nat
  BY InputAssumption
<1>2. \A n \in S : n # 0 => n \in 1 .. MAX_VAL /\ Low(n) \in 1 .. n /\ n - Low(n) \in S /\ n - Low(n) < n
  <2> SUFFICES ASSUME NEW n \in S, n # 0
               PROVE  n \in 1 .. MAX_VAL /\ Low(n) \in 1 .. n /\ n - Low(n) \in S /\ n - Low(n) < n
    OBVIOUS
  <2>1. n \in Nat \ {0}
    OBVIOUS
  <2>2. Low(n) \in 1 .. n
    BY <2>1, LowBitIs
  <2> QED BY <1>1, <2>1, <2>2
<1> HIDE DEF Low
<1>3. step \in [S -> [[S -> Int] -> Int]]
  <2> SUFFICES ASSUME NEW n \in S, NEW g \in [S -> Int], n # 0 PROVE bit[n] + g[n - Low(n)] \in Int
    OBVIOUS
  <2>1. bit[n] \in Int /\ g[n - Low(n)] \in Int
    BY <1>2
  <2> QED BY <2>1
<1>4. LooksBelow(S, Int, m, step)
  <2> SUFFICES ASSUME NEW n \in S, NEW g \in [S -> Int], NEW h \in [S -> Int],
                      \A y \in S : m[y] < m[n] => g[y] = h[y]
               PROVE  step[n][g] = step[n][h]
    <3>1. m \in [S -> Nat]
      BY <1>1
    <3> HIDE DEF m, step, S
    <3> QED BY <1>3, <3>1 DEF LooksBelow
  <2>1. n # 0 => g[n - Low(n)] = h[n - Low(n)]
    BY <1>2
  <2> QED BY <2>1
<1>5. PICK h \in [S -> Int] : \A n \in S : h[n] = step[n][h]
  <2> DEFINE X == Int
  <2>1. X # {} /\ LooksBelow(S, X, m, step)
    BY <1>4
  <2>2. \E h \in [S -> X] : \A n \in S : h[n] = step[n][h]
    <3> HIDE DEF S, m, step, X
    <3> QED BY <2>1, SolutionExists
  <2> QED BY <2>2
<1>6. Is(h)
  BY <1>5
<1>7. Is(res)
  <2> HIDE DEF Is
  <2> QED BY <1>6
<1>8. \A n \in S : Counting!query(bit, n) = res[n]
  BY DEF Counting!query, Low
<1>9. \A n \in S : res[n] = IF n = 0 THEN 0 ELSE bit[n] + res[n - Low(n)]
  <2> HIDE DEF res
  <2> QED BY <1>7
<1> HIDE DEF res
<1> DEFINE T == {n \in Nat : n \in S => res[n] \in Int}
<1>10. ASSUME NEW n \in Nat, \A k \in 0 .. n - 1 : k \in T PROVE n \in T
  <2> SUFFICES ASSUME n \in S PROVE res[n] \in Int
    OBVIOUS
  <2>1. CASE n # 0
    <3>1. bit[n] \in Int /\ n - Low(n) \in S /\ n - Low(n) \in 0 .. n - 1
      BY <1>2, <2>1
    <3>2. res[n - Low(n)] \in Int
      BY <1>10, <3>1
    <3> QED BY <1>9, <2>1, <3>1, <3>2
  <2>2. CASE n = 0
    BY <1>9, <2>2
  <2> QED BY <2>1, <2>2
<1>11. \A n \in Nat : n \in T
  <2> HIDE DEF T
  <2> QED BY <1>10, FromSmaller
<1>12. \A n \in S : Counting!query(bit, n) \in Int
  BY <1>8, <1>11
<1>13. Counting!query(bit, 0) = 0
  BY <1>1, <1>8, <1>9
<1>14. \A n \in 1 .. MAX_VAL : Counting!query(bit, n) = bit[n] + Counting!query(bit, n - Low(n))
  <2> SUFFICES ASSUME NEW n \in 1 .. MAX_VAL
               PROVE  Counting!query(bit, n) = bit[n] + Counting!query(bit, n - Low(n))
    OBVIOUS
  <2>1. n \in S /\ n # 0 /\ n - Low(n) \in S
    BY <1>2
  <2> QED BY <1>8, <1>9, <2>1
<1> QED BY <1>12, <1>13, <1>14 DEF Low

-----------------------------------------------------------------------------
\* Of the first k instructions of s, those in A; and the tree that has them all.
FirstIn(s, k, A) == {h \in 1 .. k : s[h] \in A}
HasSums(bit, s, k) ==
    /\ bit \in [1 .. MAX_VAL -> Int]
    /\ \A p \in 1 .. MAX_VAL : bit[p] = Cardinality(FirstIn(s, k, Covered(p)))

LEMMA FirstFinite ==
    ASSUME NEW s, NEW k \in Nat, NEW A
    PROVE  IsFiniteSet(FirstIn(s, k, A)) /\ Cardinality(FirstIn(s, k, A)) \in 0 .. k
<1>1. IsFiniteSet(1 .. k) /\ Cardinality(1 .. k) = k
  BY FS_Interval
<1>2. FirstIn(s, k, A) \in SUBSET (1 .. k)
  BY DEF FirstIn
<1>3. IsFiniteSet(FirstIn(s, k, A)) /\ Cardinality(FirstIn(s, k, A)) <= k
  BY <1>1, <1>2, FS_Subset
<1>4. Cardinality(FirstIn(s, k, A)) \in Nat
  BY <1>3, FS_CardinalityType
<1> QED BY <1>3, <1>4

\* The sums along the way down from n are those of all instructions up to n.
LEMMA QueryCounts ==
    ASSUME NEW s \in Seq(1 .. MAX_VAL), NEW k \in 0 .. Len(s), NEW bit, HasSums(bit, s, k),
           NEW n \in 0 .. MAX_VAL
    PROVE  Counting!query(bit, n) = Cardinality(FirstIn(s, k, 1 .. n))
<1> DEFINE Low(x) == Counting!LowBit(x)
           Up(x) == FirstIn(s, k, 1 .. x)
           T == {x \in Nat : x <= MAX_VAL => Counting!query(bit, x) = Cardinality(Up(x))}
<1>1. MAX_VAL \in Nat /\ k \in Nat /\ bit \in [1 .. MAX_VAL -> Int] /\ Len(s) \in Nat
      /\ \A h \in 1 .. k : s[h] \in 1 .. MAX_VAL
  BY InputAssumption DEF HasSums
<1>2. ASSUME NEW x \in Nat, \A y \in 0 .. x - 1 : y \in T PROVE x \in T
  <2> SUFFICES ASSUME x <= MAX_VAL PROVE Counting!query(bit, x) = Cardinality(Up(x))
    OBVIOUS
  <2>1. CASE x = 0
    <3>1. Up(x) = {}
      BY <1>1, <2>1 DEF FirstIn
    <3>2. Cardinality(Up(x)) = 0
      BY <3>1, FS_EmptySet
    <3> QED BY <1>1, <2>1, <3>2, QueryIs
  <2>2. CASE x # 0
    <3>1. x \in Nat \ {0} /\ x \in 1 .. MAX_VAL
      BY <1>1, <2>2
    <3>2. Low(x) \in 1 .. x
      BY <3>1, LowBitIs
    <3> DEFINE y == x - Low(x)
    <3>3. y \in 0 .. x - 1 /\ y \in Nat /\ y <= MAX_VAL /\ y < x
      BY <1>1, <3>1, <3>2
    <3>4. Counting!query(bit, x) = bit[x] + Counting!query(bit, y)
      BY <1>1, <3>1, QueryIs
    <3>5. Covered(x) = y + 1 .. x
      BY DEF Covered
    <3> HIDE DEF y
    <3>6. Counting!query(bit, y) = Cardinality(Up(y))
      BY <1>2, <3>3
    <3>7. bit[x] = Cardinality(FirstIn(s, k, Covered(x)))
      BY <3>1 DEF HasSums
    <3>8. Up(x) = Up(y) \cup FirstIn(s, k, Covered(x)) /\ Up(y) \cap FirstIn(s, k, Covered(x)) = {}
      <4>1. \A h \in 1 .. k : /\ s[h] \in 1 .. x <=> s[h] \in 1 .. y \/ s[h] \in Covered(x)
                             /\ ~(s[h] \in 1 .. y /\ s[h] \in Covered(x))
        <5> SUFFICES ASSUME NEW h \in 1 .. k
                     PROVE  /\ s[h] \in 1 .. x <=> s[h] \in 1 .. y \/ s[h] \in Covered(x)
                            /\ ~(s[h] \in 1 .. y /\ s[h] \in Covered(x))
          OBVIOUS
        <5>1. s[h] \in Nat
          BY <1>1
        <5> QED BY <3>3, <3>5, <5>1
      <4> QED BY <4>1 DEF FirstIn
    <3>9. IsFiniteSet(Up(y)) /\ IsFiniteSet(FirstIn(s, k, Covered(x)))
          /\ Cardinality(Up(y)) \in Nat /\ Cardinality(FirstIn(s, k, Covered(x))) \in Nat
      BY <1>1, FirstFinite
    <3>10. Cardinality(Up(x)) = Cardinality(Up(y)) + Cardinality(FirstIn(s, k, Covered(x)))
      <4> HIDE DEF Up
      <4>1. Cardinality(Up(y) \cup FirstIn(s, k, Covered(x)))
                = Cardinality(Up(y)) + Cardinality(FirstIn(s, k, Covered(x)))
                      - Cardinality(Up(y) \cap FirstIn(s, k, Covered(x)))
        BY <3>9, FS_Union
      <4>2. Cardinality(Up(y) \cap FirstIn(s, k, Covered(x))) = 0
        BY <3>8, FS_EmptySet
      <4> QED BY <3>8, <3>9, <4>1, <4>2
    <3> QED BY <3>4, <3>6, <3>7, <3>9, <3>10
  <2> QED BY <2>1, <2>2
<1>3. \A x \in Nat : x \in T
  <2> HIDE DEF T
  <2> QED BY <1>2, FromSmaller
<1> QED BY <1>1, <1>3

LEMMA UpdateCounts ==
    ASSUME NEW s \in Seq(1 .. MAX_VAL), NEW k \in 1 .. Len(s), NEW bit, HasSums(bit, s, k - 1)
    PROVE  HasSums(Counting!update(bit, s[k], 1), s, k)
<1> DEFINE after == Counting!update(bit, s[k], 1)
<1>1. k \in Nat /\ k - 1 \in Nat /\ s[k] \in Nat \ {0} /\ bit \in [1 .. MAX_VAL -> Int]
  BY InputAssumption DEF HasSums
<1>2. after = [p \in 1 .. MAX_VAL |-> IF s[k] \in Covered(p) THEN bit[p] + 1 ELSE bit[p]]
  <2>1. \A x \in Nat \ {0}, v \in Int :
            Counting!update(bit, x, v) = [p \in 1 .. MAX_VAL |-> IF x \in Covered(p) THEN bit[p] + v ELSE bit[p]]
    BY <1>1, UpdateIs
  <2>2. s[k] \in Nat \ {0} /\ 1 \in Int
    BY <1>1
  <2> QED BY <2>1, <2>2
<1> HIDE DEF after
<1>3. after \in [1 .. MAX_VAL -> Int]
  BY <1>1, <1>2
<1>4. ASSUME NEW p \in 1 .. MAX_VAL PROVE after[p] = Cardinality(FirstIn(s, k, Covered(p)))
  <2> DEFINE F == FirstIn(s, k - 1, Covered(p))
  <2>1. IsFiniteSet(F) /\ bit[p] = Cardinality(F) /\ k \notin F
    <3>1. k \notin 1 .. k - 1
      BY <1>1
    <3>2. k \notin F
      BY <3>1 DEF FirstIn
    <3>3. bit[p] = Cardinality(F)
      BY DEF HasSums
    <3>4. IsFiniteSet(F)
      BY <1>1, FirstFinite
    <3> HIDE DEF F
    <3> QED BY <3>2, <3>3, <3>4
  <2>2. 1 .. k = (1 .. k - 1) \cup {k}
    BY <1>1
  <2>3. CASE s[k] \in Covered(p)
    <3>1. FirstIn(s, k, Covered(p)) = F \cup {k}
      BY <2>2, <2>3 DEF FirstIn
    <3> HIDE DEF F
    <3> QED BY <1>2, <2>1, <2>3, <3>1, FS_AddElement
  <2>4. CASE s[k] \notin Covered(p)
    <3>1. FirstIn(s, k, Covered(p)) = F
      BY <2>2, <2>4 DEF FirstIn
    <3> HIDE DEF F
    <3> QED BY <1>2, <2>1, <2>4, <3>1
  <2> QED BY <2>3, <2>4
<1> QED BY <1>3, <1>4 DEF HasSums, after

LEMMA SumMod ==
    ASSUME NEW M \in Nat \ {0}, NEW a \in Nat, NEW b \in Nat
    PROVE  ((a % M) + b) % M = (a + b) % M
<1> DEFINE q == a \div M
           r == a % M
           u == (r + b) \div M
           w == (r + b) % M
           z == (a + b) \div M
           y == (a + b) % M
<1>1. q \in Nat /\ r \in 0 .. M - 1 /\ a = M * q + r
  OBVIOUS
<1>2. r + b \in Nat /\ u \in Nat /\ w \in 0 .. M - 1 /\ r + b = M * u + w
  BY <1>1
<1>3. z \in Nat /\ y \in 0 .. M - 1 /\ a + b = M * z + y
  OBVIOUS
<1> HIDE DEF q, r, u, w, z, y
<1>4. M * (q + u) = M * q + M * u
  BY <1>1, <1>2
<1>5. M * (q + u) + w = M * z + y
  BY <1>1, <1>2, <1>3, <1>4
<1> DEFINE d == q + u
<1>6. d \in Nat /\ M * d + w = M * z + y
  BY <1>1, <1>2, <1>5
<1> HIDE DEF d
<1>7. w = y
  <2>1. CASE d < z
    <3>1. z - d \in Nat \ {0} /\ M * z = M * d + M * (z - d)
      BY <1>3, <1>6, <2>1
    <3>2. M * (z - d) >= M
      BY <3>1
    <3> QED BY <1>2, <1>3, <1>6, <3>1, <3>2
  <2>2. CASE z < d
    <3>1. d - z \in Nat \ {0} /\ M * d = M * z + M * (d - z)
      BY <1>3, <1>6, <2>2
    <3>2. M * (d - z) >= M
      BY <3>1
    <3> QED BY <1>2, <1>3, <1>6, <3>1, <3>2
  <2>3. CASE d = z
    BY <1>2, <1>3, <1>6, <2>3
  <2> QED BY <1>3, <1>6, <2>1, <2>2, <2>3
<1> QED BY <1>7 DEF w, y, r

LEMMA MinOfTwo ==
    ASSUME NEW a \in Int, NEW b \in Int
    PROVE  Counting!Min({a, b}) = IF a <= b THEN a ELSE b
<1> DEFINE c == IF a <= b THEN a ELSE b
           Least(x) == x \in {a, b} /\ \A y \in {a, b} : x =< y
<1>1. Least(c)
  OBVIOUS
<1>2. \A x : Least(x) => x = c
  OBVIOUS
<1>3. Counting!Min({a, b}) = CHOOSE x \in {a, b} : \A y \in {a, b} : x =< y
  BY DEF Counting!Min
<1>4. Least(Counting!Min({a, b}))
  BY <1>1, <1>3
<1> QED BY <1>2, <1>4

-----------------------------------------------------------------------------
\* What one instruction does, and the states after each of them.
Instructed(b, s, k) ==
    [bit |-> Counting!update(b.bit, s[k], 1),
     cost |-> (b.cost + Counting!Min({Counting!query(b.bit, s[k] - 1),
                                      k - 1 - Counting!query(b.bit, s[k])})) % MOD]
HasCosts(s, h) ==
    /\ h[0] = [bit |-> [p \in 1 .. MAX_VAL |-> 0], cost |-> 0]
    /\ \A k \in 1 .. Len(s) : h[k] = Instructed(h[k - 1], s, k)
    /\ \A k \in 0 .. Len(s) : h[k] \in [bit : [1 .. MAX_VAL -> Int], cost : Int]

LEMMA InstructedType ==
    ASSUME NEW s \in Seq(1 .. MAX_VAL), NEW k \in 1 .. Len(s),
           NEW b \in [bit : [1 .. MAX_VAL -> Int], cost : Int]
    PROVE  Instructed(b, s, k) \in [bit : [1 .. MAX_VAL -> Int], cost : Int]
<1> DEFINE x == s[k]
           v == 1
           l == Counting!query(b.bit, x - 1)
           g == k - 1 - Counting!query(b.bit, x)
<1>1. x \in 1 .. MAX_VAL /\ x \in Nat \ {0} /\ x \in 0 .. MAX_VAL /\ x - 1 \in 0 .. MAX_VAL /\ v \in Int
      /\ b.bit \in [1 .. MAX_VAL -> Int] /\ b.cost \in Int /\ MOD \in Nat \ {0} /\ k \in Int
  <2>1. MAX_VAL \in Nat /\ MOD \in Nat \ {0}
    BY InputAssumption
  <2>2. x \in 1 .. MAX_VAL /\ k \in Int
    <3>1. s[k] \in 1 .. MAX_VAL
      BY ElementOfSeq
    <3>2. k \in Int
      OBVIOUS
    <3> QED BY <3>1, <3>2
  <2>3. b.bit \in [1 .. MAX_VAL -> Int] /\ b.cost \in Int
    OBVIOUS
  <2> HIDE DEF x
  <2>4. x \in Nat \ {0} /\ x \in 0 .. MAX_VAL /\ x - 1 \in 0 .. MAX_VAL
    BY <2>1, <2>2
  <2> QED BY <2>1, <2>2, <2>3, <2>4
<1> HIDE DEF x, v
<1>2. l \in Int /\ Counting!query(b.bit, x) \in Int
  BY <1>1, QueryIs
<1>3. g \in Int
  BY <1>1, <1>2
<1> HIDE DEF l, g
<1>4. Counting!Min({l, g}) \in Int
  BY <1>2, <1>3, MinOfTwo
<1>5. (b.cost + Counting!Min({l, g})) % MOD \in Int
  BY <1>1, <1>4
<1>6. Counting!update(b.bit, x, v) \in [1 .. MAX_VAL -> Int]
  <2> DEFINE bit == b.bit
  <2>1. Counting!update(bit, x, v) = [p \in 1 .. MAX_VAL |-> IF x \in Covered(p) THEN bit[p] + v ELSE bit[p]]
    <3> HIDE DEF bit
    <3>1. bit \in [1 .. MAX_VAL -> Int]
      BY <1>1 DEF bit
    <3>2. \A y \in Nat \ {0}, z \in Int :
              Counting!update(bit, y, z) = [p \in 1 .. MAX_VAL |-> IF y \in Covered(p) THEN bit[p] + z ELSE bit[p]]
      BY <3>1, UpdateIs
    <3> QED BY <1>1, <3>2
  <2>2. \A p \in 1 .. MAX_VAL : bit[p] \in Int /\ bit[p] + v \in Int
    <3>1. bit \in [1 .. MAX_VAL -> Int]
      BY <1>1
    <3> HIDE DEF bit
    <3> QED BY <1>1, <3>1
  <2> QED BY <2>1, <2>2
<1>7. Instructed(b, s, k) = [bit |-> Counting!update(b.bit, x, v), cost |-> (b.cost + Counting!Min({l, g})) % MOD]
  BY DEF Instructed, x, v, l, g
<1> QED BY <1>5, <1>6, <1>7

LEMMA CostsExist == ASSUME NEW s \in Seq(1 .. MAX_VAL) PROVE \E h : HasCosts(s, h) /\ Counting!createSortedArray(s) = h[Len(s)].cost
<1> DEFINE S == 0 .. Len(s)
           X == [bit : [1 .. MAX_VAL -> Int], cost : Int]
           base == [bit |-> [p \in 1 .. MAX_VAL |-> 0], cost |-> 0]
           m == [k \in S |-> k]
           step == [k \in S |-> [g \in [S -> X] |-> IF k = 0 THEN base ELSE Instructed(g[k - 1], s, k)]]
           Is(h) == h = [k \in S |-> IF k = 0 THEN base ELSE Instructed(h[k - 1], s, k)]
           after == CHOOSE h : Is(h)
<1>1. Len(s) \in Nat /\ \A k \in S : k # 0 => k \in 1 .. Len(s) /\ k - 1 \in S /\ k - 1 < k
  OBVIOUS
<1>2. base \in X
  OBVIOUS
<1>3. step \in [S -> [[S -> X] -> X]]
  <2> SUFFICES ASSUME NEW k \in S, NEW g \in [S -> X], k # 0 PROVE Instructed(g[k - 1], s, k) \in X
    BY <1>2
  <2>1. g[k - 1] \in X
    BY <1>1
  <2> QED BY <1>1, <2>1, InstructedType
<1>4. LooksBelow(S, X, m, step)
  <2> SUFFICES ASSUME NEW k \in S, NEW g \in [S -> X], NEW h \in [S -> X],
                      \A y \in S : m[y] < m[k] => g[y] = h[y]
               PROVE  step[k][g] = step[k][h]
    <3>1. m \in [S -> Nat]
      OBVIOUS
    <3> HIDE DEF m, step, S, X
    <3> QED BY <1>3, <3>1 DEF LooksBelow
  <2>1. k # 0 => g[k - 1] = h[k - 1]
    BY <1>1
  <2> QED BY <2>1
<1>5. PICK h \in [S -> X] : \A k \in S : h[k] = step[k][h]
  <2>1. X # {}
    BY <1>2
  <2> HIDE DEF S, m, step, X
  <2> QED BY <1>4, <2>1, SolutionExists
<1>6. Is(h)
  <2>1. ASSUME NEW k \in S PROVE h[k] = IF k = 0 THEN base ELSE Instructed(h[k - 1], s, k)
    <3>1. h[k] = step[k][h]
      BY <1>5
    <3>2. step[k][h] = IF k = 0 THEN base ELSE Instructed(h[k - 1], s, k)
      <4> HIDE DEF base, X
      <4> QED OBVIOUS
    <3> QED BY <3>1, <3>2
  <2>2. h = [k \in S |-> h[k]]
    BY <1>5
  <2> HIDE DEF base, S, X
  <2> QED BY <2>1, <2>2
<1>7. Is(after)
  <2> HIDE DEF Is
  <2> QED BY <1>6
<1>8. Counting!createSortedArray(s) = after[Len(s)].cost
  BY DEF Counting!createSortedArray, Instructed
<1>9. \A k \in S : after[k] = IF k = 0 THEN base ELSE Instructed(after[k - 1], s, k)
  <2> HIDE DEF after, base
  <2> QED BY <1>7
<1> HIDE DEF after
<1> DEFINE T == {k \in S : after[k] \in X}
<1>10. \A k \in Nat : k \in {j \in Nat : j \in S => after[j] \in X}
  <2> DEFINE U == {j \in Nat : j \in S => after[j] \in X}
  <2>1. ASSUME NEW n \in Nat, \A k \in 0 .. n - 1 : k \in U PROVE n \in U
    <3> SUFFICES ASSUME n \in S PROVE after[n] \in X
      OBVIOUS
    <3>1. CASE n = 0
      <4> HIDE DEF base, X
      <4> QED BY <1>2, <1>9, <3>1
    <3>2. CASE n # 0
      <4>1. n \in 1 .. Len(s) /\ n - 1 \in S /\ n - 1 \in 0 .. n - 1
        BY <1>1, <3>2
      <4>2. after[n - 1] \in X
        <5> HIDE DEF X
        <5> QED BY <2>1, <4>1
      <4>3. Instructed(after[n - 1], s, n) \in X
        BY <4>1, <4>2, InstructedType
      <4> HIDE DEF X, base
      <4> QED BY <1>9, <3>2, <4>3
    <3> QED BY <3>1, <3>2
  <2> HIDE DEF U
  <2>2. \A n \in Nat : n \in U
    BY <2>1, FromSmaller
  <2> QED BY <2>2 DEF U
<1>11. HasCosts(s, after)
  <2>1. after[0] = base
    <3> HIDE DEF base
    <3> QED BY <1>1, <1>9
  <2>2. \A k \in 1 .. Len(s) : after[k] = Instructed(after[k - 1], s, k)
    <3> HIDE DEF base
    <3> QED BY <1>1, <1>9
  <2>3. \A k \in 0 .. Len(s) : after[k] \in X
    <3> HIDE DEF X
    <3> QED BY <1>1, <1>10
  <2> QED BY <2>1, <2>2, <2>3 DEF HasCosts
<1> QED BY <1>8, <1>11

LEMMA SameCount == \A A : Counting!Cardinality(A) = Cardinality(A)
BY DEF Counting!Cardinality, Cardinality

\* src/1649.c: the cost is the sum of what the definition asks for, modulo MOD.
LEMMA CostCorrect ==
    ASSUME NEW s \in Seq(1 .. MAX_VAL)
    PROVE  Counting!CostIsRight(s)
<1> DEFINE S == 0 .. Len(s)
           Smaller(k) == Cardinality({h \in 1 .. k - 1 : s[h] < s[k]})
           Larger(k) == Cardinality({h \in 1 .. k - 1 : s[h] > s[k]})
           Least(k) == Counting!Min({Smaller(k), Larger(k)})
           m == [k \in S |-> k]
           step == [k \in S |-> [g \in [S -> Nat] |-> IF k = 0 THEN 0 ELSE g[k - 1] + Least(k)]]
           Is(h) == h = [k \in S |-> IF k = 0 THEN 0 ELSE h[k - 1] + Least(k)]
           cost == CHOOSE h : Is(h)
<1>1. Len(s) \in Nat /\ MOD \in Nat \ {0} /\ MAX_VAL \in Nat
      /\ \A k \in S : k # 0 => k \in 1 .. Len(s) /\ k - 1 \in S /\ k - 1 < k
  BY InputAssumption
<1>2. PICK a : HasCosts(s, a) /\ Counting!createSortedArray(s) = a[Len(s)].cost
  BY CostsExist
<1>3. ASSUME NEW k \in 1 .. Len(s)
      PROVE  /\ Smaller(k) \in Nat /\ Larger(k) \in Nat
             /\ Smaller(k) = Cardinality(FirstIn(s, k - 1, 1 .. s[k] - 1))
             /\ Larger(k) = k - 1 - Cardinality(FirstIn(s, k - 1, 1 .. s[k]))
  <2> DEFINE x == s[k]
             j == k - 1
             L == {h \in 1 .. j : s[h] > x}
             F == FirstIn(s, j, 1 .. x)
  <2>1. j \in Nat /\ x \in 1 .. MAX_VAL
    BY <1>1
  <2>2. \A h \in 1 .. j : s[h] \in Nat \ {0}
    <3> SUFFICES ASSUME NEW h \in 1 .. j PROVE s[h] \in Nat \ {0}
      OBVIOUS
    <3>1. h \in 1 .. Len(s)
      BY <1>1
    <3> QED BY <1>1, <3>1
  <2> HIDE DEF j, x
  <2>3. {h \in 1 .. j : s[h] < x} = FirstIn(s, j, 1 .. x - 1)
    <3>1. \A h \in 1 .. j : s[h] < x <=> s[h] \in 1 .. x - 1
      BY <2>1, <2>2
    <3> QED BY <3>1 DEF FirstIn
  <2>4. L = (1 .. j) \ F
    <3>1. \A h \in 1 .. j : s[h] > x <=> s[h] \notin 1 .. x
      BY <2>1, <2>2
    <3> QED BY <3>1 DEF FirstIn
  <2>5. IsFiniteSet(1 .. j) /\ Cardinality(1 .. j) = j
    BY <2>1, FS_Interval
  <2>6. F \subseteq 1 .. j
    BY DEF FirstIn
  <2>7. IsFiniteSet(F) /\ Cardinality(F) \in 0 .. j
    BY <2>1, FirstFinite
  <2> HIDE DEF F, L
  <2>8. (1 .. j) \cap F = F
    BY <2>6
  <2>9. Cardinality(L) = j - Cardinality(F)
    <3> DEFINE A == 1 .. j
    <3>1. IsFiniteSet(A) /\ A \cap F = F /\ L = A \ F /\ Cardinality(A) = j
      BY <2>4, <2>5, <2>8
    <3> HIDE DEF A
    <3>2. Cardinality(A \ F) = Cardinality(A) - Cardinality(A \cap F)
      BY <2>7, <3>1, FS_Difference
    <3> QED BY <3>1, <3>2
  <2>10. Cardinality(FirstIn(s, j, 1 .. x - 1)) \in Nat
    BY <2>1, FirstFinite
  <2>11. Smaller(k) = Cardinality(FirstIn(s, j, 1 .. x - 1))
    BY <2>3 DEF j, x
  <2>12. Larger(k) = Cardinality(L)
    BY DEF L, j, x
  <2>13. Larger(k) \in Nat
    BY <2>1, <2>7, <2>9, <2>12
  <2> HIDE DEF Smaller, Larger
  <2> QED BY <2>9, <2>10, <2>11, <2>12, <2>13 DEF j, x, F
<1>4. \A k \in 1 .. Len(s) : Least(k) \in Nat
  <2> SUFFICES ASSUME NEW k \in 1 .. Len(s) PROVE Least(k) \in Nat
    OBVIOUS
  <2> DEFINE x == Smaller(k)
             y == Larger(k)
  <2>1. x \in Nat /\ y \in Nat
    BY <1>3
  <2> HIDE DEF x, y
  <2>2. Counting!Min({x, y}) \in Nat
    BY <2>1, MinOfTwo
  <2> QED BY <2>2 DEF x, y
<1> HIDE DEF Least
<1>5. step \in [S -> [[S -> Nat] -> Nat]]
  <2> SUFFICES ASSUME NEW k \in S, NEW g \in [S -> Nat], k # 0 PROVE g[k - 1] + Least(k) \in Nat
    OBVIOUS
  <2>1. g[k - 1] \in Nat
    BY <1>1
  <2> QED BY <1>1, <1>4, <2>1
<1>6. LooksBelow(S, Nat, m, step)
  <2> SUFFICES ASSUME NEW k \in S, NEW g \in [S -> Nat], NEW h \in [S -> Nat],
                      \A y \in S : m[y] < m[k] => g[y] = h[y]
               PROVE  step[k][g] = step[k][h]
    <3>1. m \in [S -> Nat]
      OBVIOUS
    <3> HIDE DEF m, step, S
    <3> QED BY <1>5, <3>1 DEF LooksBelow
  <2>1. k # 0 => g[k - 1] = h[k - 1]
    BY <1>1
  <2> QED BY <2>1
<1>7. PICK h \in [S -> Nat] : \A k \in S : h[k] = step[k][h]
  <2> DEFINE X == Nat
  <2>1. X # {} /\ LooksBelow(S, X, m, step)
    BY <1>6
  <2>2. \E h \in [S -> X] : \A k \in S : h[k] = step[k][h]
    <3> HIDE DEF S, m, step, X
    <3> QED BY <2>1, SolutionExists
  <2> QED BY <2>2
<1>8. Is(h)
  BY <1>7
<1>9. Is(cost)
  <2> HIDE DEF Is
  <2> QED BY <1>8
<1>10. \A k \in S : cost[k] = IF k = 0 THEN 0 ELSE cost[k - 1] + Least(k)
  <2> HIDE DEF cost
  <2> QED BY <1>9
<1>11. Counting!CostIsRight(s) <=> Counting!createSortedArray(s) = cost[Len(s)] % MOD
  BY SameCount DEF Counting!CostIsRight, Least
<1> HIDE DEF cost
<1> DEFINE T == {k \in Nat : k \in S => /\ HasSums(a[k].bit, s, k) /\ cost[k] \in Nat
                                       /\ a[k].cost = cost[k] % MOD}
<1>12. ASSUME NEW n \in Nat, \A k \in 0 .. n - 1 : k \in T PROVE n \in T
  <2> SUFFICES ASSUME n \in S
               PROVE  HasSums(a[n].bit, s, n) /\ cost[n] \in Nat /\ a[n].cost = cost[n] % MOD
    OBVIOUS
  <2>1. CASE n = 0
    <3>1. a[n] = [bit |-> [p \in 1 .. MAX_VAL |-> 0], cost |-> 0]
      BY <1>2, <2>1 DEF HasCosts
    <3>2. \A p \in 1 .. MAX_VAL : Cardinality(FirstIn(s, 0, Covered(p))) = 0
      <4>1. \A A : FirstIn(s, 0, A) = {}
        BY DEF FirstIn
      <4> QED BY <4>1, FS_EmptySet
    <3>3. HasSums(a[n].bit, s, 0)
      BY <3>1, <3>2 DEF HasSums
    <3>4. cost[n] = 0
      BY <1>1, <1>10, <2>1
    <3>5. 0 % MOD = 0
      BY <1>1
    <3> QED BY <2>1, <3>1, <3>3, <3>4, <3>5
  <2>2. CASE n # 0
    <3> DEFINE b == a[n - 1]
               x == s[n]
               j == n - 1
    <3>1. n \in 1 .. Len(s) /\ j \in S /\ j \in 0 .. n - 1 /\ j \in 0 .. Len(s)
      BY <1>1, <2>2
    <3>2. HasSums(b.bit, s, j) /\ cost[j] \in Nat /\ b.cost = cost[j] % MOD
      BY <1>12, <3>1
    <3>3. a[n] = Instructed(b, s, n)
      BY <1>2, <3>1 DEF HasCosts
    <3>4. x \in 1 .. MAX_VAL /\ x \in 0 .. MAX_VAL /\ x - 1 \in 0 .. MAX_VAL
      BY <1>1, <3>1
    <3>5. a[n].bit = Counting!update(b.bit, x, 1)
          /\ a[n].cost = (b.cost + Counting!Min({Counting!query(b.bit, x - 1), j - Counting!query(b.bit, x)})) % MOD
      <4> HIDE DEF b
      <4> QED BY <3>3 DEF Instructed
    <3> HIDE DEF b, x
    <3>6. HasSums(a[n].bit, s, n)
      <4> DEFINE w == b.bit
      <4>1. HasSums(w, s, n - 1)
        BY <3>2
      <4> HIDE DEF w
      <4>2. HasSums(Counting!update(w, s[n], 1), s, n)
        BY <3>1, <4>1, UpdateCounts
      <4> QED BY <3>5, <4>2 DEF w, x
    <3>7. /\ Counting!query(b.bit, x - 1) = Smaller(n)
          /\ j - Counting!query(b.bit, x) = Larger(n)
      <4> DEFINE w == b.bit
                 y == x - 1
      <4>1. HasSums(w, s, j) /\ y \in 0 .. MAX_VAL
        BY <3>2, <3>4
      <4> HIDE DEF w, y
      <4>2. Counting!query(w, y) = Cardinality(FirstIn(s, j, 1 .. y))
        BY <3>1, <4>1, QueryCounts
      <4>3. Counting!query(w, x) = Cardinality(FirstIn(s, j, 1 .. x))
        BY <3>1, <3>4, <4>1, QueryCounts
      <4>4. /\ Smaller(n) = Cardinality(FirstIn(s, j, 1 .. y))
            /\ Larger(n) = j - Cardinality(FirstIn(s, j, 1 .. x))
        <5> HIDE DEF Smaller, Larger
        <5> QED BY <1>3, <3>1 DEF x, y
      <4> HIDE DEF Smaller, Larger, j
      <4> QED BY <4>2, <4>3, <4>4 DEF w, y
    <3>8. a[n].cost = (b.cost + Least(n)) % MOD
      <4> HIDE DEF Smaller, Larger, j
      <4> QED BY <3>5, <3>7 DEF Least
    <3>9. cost[n] = cost[j] + Least(n) /\ Least(n) \in Nat
      BY <1>1, <1>4, <1>10, <2>2, <3>1
    <3>10. ((cost[j] % MOD) + Least(n)) % MOD = (cost[j] + Least(n)) % MOD
      <4> DEFINE u == cost[j]
                 v == Least(n)
      <4>1. u \in Nat /\ v \in Nat
        BY <3>2, <3>9
      <4> HIDE DEF u, v
      <4>2. ((u % MOD) + v) % MOD = (u + v) % MOD
        BY <1>1, <4>1, SumMod
      <4> QED BY <4>2 DEF u, v
    <3>11. cost[n] \in Nat
      <4> HIDE DEF j
      <4> QED BY <3>2, <3>9
    <3> QED BY <3>2, <3>6, <3>8, <3>9, <3>10, <3>11
  <2> QED BY <2>1, <2>2
<1>13. \A k \in Nat : k \in T
  <2> HIDE DEF T
  <2> QED BY <1>12, FromSmaller
<1>14. Len(s) \in S
  BY <1>1
<1>15. a[Len(s)].cost = cost[Len(s)] % MOD
  BY <1>1, <1>13, <1>14
<1> QED BY <1>2, <1>11, <1>15

-----------------------------------------------------------------------------
\* src/315.c.  The nodes over a set of trees, and the trees of each number of levels.
NodesOver(T) == [val : Int, count : Int, left : T, right : T]
HasLevels(n, h) ==
    /\ h = [k \in 0 .. n |-> h[k]]
    /\ h[0] = {Counting!NULL}
    /\ \A k \in 1 .. n : h[k] = {Counting!NULL} \cup NodesOver(h[k - 1])

LEMMA LevelsExist == ASSUME NEW n \in Nat PROVE \E h : HasLevels(n, h)
<1> DEFINE S == {k \in Nat : \E h : HasLevels(k, h)}
<1>1. ASSUME NEW k \in Nat, \A j \in 0 .. k - 1 : j \in S PROVE k \in S
  <2>1. CASE k = 0
    <3> DEFINE h == [j \in 0 .. 0 |-> {Counting!NULL}]
    <3>1. HasLevels(0, h)
      BY DEF HasLevels
    <3> QED BY <2>1, <3>1
  <2>2. CASE k # 0
    <3>1. k - 1 \in Nat /\ k - 1 \in S
      BY <1>1, <2>2
    <3>2. PICK h : HasLevels(k - 1, h)
      BY <3>1
    <3> DEFINE f == [j \in 0 .. k |-> IF j < k THEN h[j] ELSE {Counting!NULL} \cup NodesOver(h[k - 1])]
    <3>3. f = [j \in 0 .. k |-> f[j]]
      OBVIOUS
    <3>4. f[0] = {Counting!NULL}
      <4>1. 0 \in 0 .. k /\ 0 < k
        BY <2>2
      <4> QED BY <3>2, <4>1 DEF HasLevels
    <3>5. ASSUME NEW j \in 1 .. k PROVE f[j] = {Counting!NULL} \cup NodesOver(f[j - 1])
      <4>1. j - 1 \in 0 .. k /\ j - 1 < k /\ j \in 0 .. k
        OBVIOUS
      <4>2. f[j - 1] = h[j - 1]
        BY <4>1
      <4>3. CASE j = k
        <5>1. ~(j < k)
          BY <4>3
        <5>2. f[j] = {Counting!NULL} \cup NodesOver(h[k - 1])
          BY <4>1, <5>1
        <5> QED BY <4>2, <4>3, <5>2
      <4>4. CASE j # k
        <5>1. j < k /\ j \in 1 .. k - 1
          BY <4>4
        <5>2. f[j] = h[j]
          BY <4>1, <5>1
        <5>3. h[j] = {Counting!NULL} \cup NodesOver(h[j - 1])
          BY <3>2, <5>1 DEF HasLevels
        <5> QED BY <4>2, <5>2, <5>3
      <4> QED BY <4>3, <4>4
    <3>6. HasLevels(k, f)
      <4> HIDE DEF f
      <4> QED BY <3>3, <3>4, <3>5 DEF HasLevels
    <3> HIDE DEF f
    <3> QED BY <3>6
  <2> QED BY <2>1, <2>2
<1>2. \A k \in Nat : k \in S
  <2> HIDE DEF S
  <2> QED BY <1>1, FromSmaller
<1> QED BY <1>2

LEMMA LevelsAgree ==
    ASSUME NEW a \in Nat, NEW b \in Nat, NEW g, NEW h, HasLevels(a, g), HasLevels(b, h)
    PROVE  \A k \in Nat : k <= a /\ k <= b => g[k] = h[k]
<1> DEFINE S == {k \in Nat : k <= a /\ k <= b => g[k] = h[k]}
<1>1. ASSUME NEW k \in Nat, \A j \in 0 .. k - 1 : j \in S PROVE k \in S
  <2> SUFFICES ASSUME k <= a, k <= b PROVE g[k] = h[k]
    OBVIOUS
  <2>1. CASE k = 0
    BY <2>1 DEF HasLevels
  <2>2. CASE k # 0
    <3>1. k - 1 \in 0 .. k - 1 /\ k - 1 <= a /\ k - 1 <= b /\ k \in 1 .. a /\ k \in 1 .. b
      BY <2>2
    <3>2. g[k - 1] = h[k - 1]
      BY <1>1, <3>1
    <3> QED BY <3>1, <3>2 DEF HasLevels
  <2> QED BY <2>1, <2>2
<1> HIDE DEF S
<1>2. \A k \in Nat : k \in S
  BY <1>1, FromSmaller
<1> QED BY <1>2 DEF S

LEMMA TreesAre ==
    /\ Counting!Trees(0) = {Counting!NULL}
    /\ \A n \in Nat : Counting!Trees(n + 1) = {Counting!NULL} \cup NodesOver(Counting!Trees(n))
<1>1. ASSUME NEW n \in Nat PROVE \E h : HasLevels(n, h) /\ Counting!Trees(n) = h[n]
  <2> DEFINE Is(h) == h = [k \in 0 .. n |-> IF k = 0 THEN {Counting!NULL}
                                            ELSE {Counting!NULL} \cup NodesOver(h[k - 1])]
             trees == CHOOSE h : Is(h)
  <2>1. PICK h : HasLevels(n, h)
    BY LevelsExist
  <2>2. Is(h)
    <3>1. \A k \in 0 .. n : h[k] = IF k = 0 THEN {Counting!NULL} ELSE {Counting!NULL} \cup NodesOver(h[k - 1])
      <4> SUFFICES ASSUME NEW k \in 0 .. n
                   PROVE  h[k] = IF k = 0 THEN {Counting!NULL} ELSE {Counting!NULL} \cup NodesOver(h[k - 1])
        OBVIOUS
      <4>1. k # 0 => k \in 1 .. n
        OBVIOUS
      <4> QED BY <2>1, <4>1 DEF HasLevels
    <3>2. h = [k \in 0 .. n |-> h[k]]
      BY <2>1 DEF HasLevels
    <3> QED BY <3>1, <3>2
  <2>3. Is(trees)
    <3> HIDE DEF Is
    <3> QED BY <2>2
  <2>4. Counting!Trees(n) = trees[n]
    BY DEF Counting!Trees, NodesOver
  <2> HIDE DEF trees
  <2>5. HasLevels(n, trees)
    <3>1. \A k \in 0 .. n : trees[k] = IF k = 0 THEN {Counting!NULL}
                                       ELSE {Counting!NULL} \cup NodesOver(trees[k - 1])
      BY <2>3
    <3>2. trees = [k \in 0 .. n |-> trees[k]]
      BY <2>3
    <3>3. \A k \in 1 .. n : k \in 0 .. n /\ k # 0
      OBVIOUS
    <3> HIDE DEF Is
    <3> QED BY <3>1, <3>2, <3>3 DEF HasLevels
  <2> QED BY <2>4, <2>5
<1>2. Counting!Trees(0) = {Counting!NULL}
  <2>1. PICK h : HasLevels(0, h) /\ Counting!Trees(0) = h[0]
    BY <1>1
  <2> QED BY <2>1 DEF HasLevels
<1>3. ASSUME NEW n \in Nat PROVE Counting!Trees(n + 1) = {Counting!NULL} \cup NodesOver(Counting!Trees(n))
  <2>1. PICK g : HasLevels(n, g) /\ Counting!Trees(n) = g[n]
    BY <1>1
  <2> DEFINE b == n + 1
  <2>2. b \in Nat /\ n <= b /\ b \in 1 .. b /\ b - 1 = n
    OBVIOUS
  <2>3. PICK h : HasLevels(b, h) /\ Counting!Trees(b) = h[b]
    BY <1>1, <2>2
  <2> HIDE DEF b
  <2>4. g[n] = h[n]
    BY <2>1, <2>2, <2>3, LevelsAgree
  <2>5. h[b] = {Counting!NULL} \cup NodesOver(h[n])
    BY <2>2, <2>3 DEF HasLevels
  <2> QED BY <2>1, <2>3, <2>4, <2>5 DEF b
<1> QED BY <1>2, <1>3

AllTrees == UNION {Counting!Trees(n) : n \in Nat}
Node(v, c, l, r) == [val |-> v, count |-> c, left |-> l, right |-> r]

LEMMA NodeIsNot == \A v, c, l, r : Node(v, c, l, r) # Counting!NULL
<1> SUFFICES ASSUME NEW v, NEW c, NEW l, NEW r, Node(v, c, l, r) = <<>> PROVE FALSE
  BY DEF Counting!NULL
<1>1. DOMAIN Node(v, c, l, r) = {"val", "count", "left", "right"}
  BY DEF Node
<1>2. DOMAIN <<>> = {}
  OBVIOUS
<1> HIDE DEF Node
<1> QED BY <1>1, <1>2

LEMMA NodeType ==
    ASSUME NEW T, NEW t \in NodesOver(T)
    PROVE  /\ t.val \in Int /\ t.count \in Int /\ t.left \in T /\ t.right \in T
           /\ t = Node(t.val, t.count, t.left, t.right) /\ t # Counting!NULL
<1>1. t.val \in Int /\ t.count \in Int /\ t.left \in T /\ t.right \in T
  BY DEF NodesOver
<1>2. t = Node(t.val, t.count, t.left, t.right)
  BY DEF NodesOver, Node
<1> QED BY <1>1, <1>2, NodeIsNot

LEMMA TreesGrow ==
    ASSUME NEW n \in Nat
    PROVE  \A k \in 0 .. n : Counting!Trees(k) \subseteq Counting!Trees(n)
<1> DEFINE S == {k \in Nat : \A j \in 0 .. k : Counting!Trees(j) \subseteq Counting!Trees(k)}
           N == Counting!NULL
<1> HIDE DEF N
<1>1. ASSUME NEW k \in Nat, \A j \in 0 .. k - 1 : j \in S PROVE k \in S
  <2> SUFFICES ASSUME NEW j \in 0 .. k, NEW t \in Counting!Trees(j) PROVE t \in Counting!Trees(k)
    OBVIOUS
  <2>1. CASE j = k
    BY <2>1
  <2>2. CASE j # k
    <3>1. k - 1 \in Nat /\ j \in 0 .. k - 1 /\ k - 1 \in S /\ (k - 1) + 1 = k
      BY <1>1, <2>2
    <3>2. t \in Counting!Trees(k - 1)
      BY <3>1
    <3>3. Counting!Trees(k) = {N} \cup NodesOver(Counting!Trees(k - 1))
      BY <3>1, TreesAre DEF N
    <3>4. CASE k - 1 = 0
      BY <3>2, <3>3, <3>4, TreesAre DEF N
    <3>5. CASE k - 1 # 0
      <4> DEFINE d == k - 2
      <4>1. d \in Nat /\ d + 1 = k - 1 /\ d \in 0 .. k - 1
        BY <3>1, <3>5
      <4>2. Counting!Trees(k - 1) = {N} \cup NodesOver(Counting!Trees(d))
        <5> HIDE DEF d
        <5>1. Counting!Trees(d + 1) = {N} \cup NodesOver(Counting!Trees(d))
          BY <4>1, TreesAre DEF N
        <5> QED BY <4>1, <5>1
      <4>3. Counting!Trees(d) \subseteq Counting!Trees(k - 1)
        BY <3>1, <4>1
      <4> HIDE DEF d
      <4> QED BY <3>2, <3>3, <4>2, <4>3 DEF NodesOver
    <3> QED BY <3>4, <3>5
  <2> QED BY <2>1, <2>2
<1> HIDE DEF S
<1>2. \A k \in Nat : k \in S
  BY <1>1, FromSmaller
<1> QED BY <1>2 DEF S

\* A tree is empty, or a node over trees of fewer levels.
LEMMA TreeIs ==
    ASSUME NEW n \in Nat, NEW t \in Counting!Trees(n), t # Counting!NULL
    PROVE  n # 0 /\ t \in NodesOver(Counting!Trees(n - 1))
<1>1. n # 0
  BY TreesAre
<1>2. n - 1 \in Nat /\ (n - 1) + 1 = n
  BY <1>1
<1>3. Counting!Trees(n) = {Counting!NULL} \cup NodesOver(Counting!Trees(n - 1))
  BY <1>2, TreesAre
<1> QED BY <1>1, <1>3

LEMMA NodeIsTree ==
    ASSUME NEW n \in Nat, NEW l \in Counting!Trees(n), NEW r \in Counting!Trees(n), NEW v \in Int, NEW c \in Int
    PROVE  Node(v, c, l, r) \in Counting!Trees(n + 1)
<1>1. Node(v, c, l, r) \in NodesOver(Counting!Trees(n))
  BY DEF Node, NodesOver
<1> QED BY <1>1, TreesAre

IsDepth(d) ==
    /\ d \in [AllTrees -> Nat]
    /\ \A t \in AllTrees : t \in Counting!Trees(d[t])
    /\ \A n \in Nat : \A t \in Counting!Trees(n) : d[t] <= n

LEMMA DepthExists == \E d : IsDepth(d)
<1> DEFINE P(t) == {n \in Nat : t \in Counting!Trees(n)}
           Least(t, m) == m \in P(t) /\ \A n \in P(t) : m <= n
           d == [t \in AllTrees |-> CHOOSE m : Least(t, m)]
<1>1. ASSUME NEW t \in AllTrees PROVE Least(t, d[t])
  <2>1. P(t) # {} /\ P(t) \in SUBSET Nat
    BY DEF AllTrees
  <2>2. \E m : Least(t, m)
    <3> HIDE DEF P
    <3> QED BY <2>1, SmallestOf
  <2> HIDE DEF Least
  <2> QED BY <2>2
<1>2. \A n \in Nat : \A t \in Counting!Trees(n) : t \in AllTrees
  BY DEF AllTrees
<1>3. d = [t \in AllTrees |-> d[t]]
  OBVIOUS
<1> HIDE DEF d
<1>4. \A t \in AllTrees : d[t] \in Nat /\ t \in Counting!Trees(d[t])
  BY <1>1
<1>5. \A n \in Nat : \A t \in Counting!Trees(n) : d[t] <= n
  BY <1>1, <1>2
<1>6. d \in [AllTrees -> Nat]
  BY <1>3, <1>4
<1> QED BY <1>4, <1>5, <1>6 DEF IsDepth

LEMMA AllTreesAre ==
    /\ Counting!NULL \in AllTrees
    /\ \A n \in Nat : Counting!Trees(n) \subseteq AllTrees
    /\ \A t \in AllTrees : t # Counting!NULL => t \in NodesOver(AllTrees)
    /\ \A l, r \in AllTrees, v, c \in Int : Node(v, c, l, r) \in AllTrees
<1>1. \A n \in Nat : Counting!Trees(n) \subseteq AllTrees
  BY DEF AllTrees
<1>2. Counting!NULL \in AllTrees
  BY <1>1, TreesAre
<1>3. ASSUME NEW t \in AllTrees, t # Counting!NULL PROVE t \in NodesOver(AllTrees)
  <2>1. PICK n \in Nat : t \in Counting!Trees(n)
    BY DEF AllTrees
  <2>2. n - 1 \in Nat /\ t \in NodesOver(Counting!Trees(n - 1))
    BY <1>3, <2>1, TreeIs
  <2>3. Counting!Trees(n - 1) \subseteq AllTrees
    BY <1>1, <2>2
  <2> QED BY <2>2, <2>3 DEF NodesOver
<1>4. ASSUME NEW l \in AllTrees, NEW r \in AllTrees, NEW v \in Int, NEW c \in Int
      PROVE  Node(v, c, l, r) \in AllTrees
  <2>1. PICK a \in Nat : l \in Counting!Trees(a)
    BY DEF AllTrees
  <2>2. PICK b \in Nat : r \in Counting!Trees(b)
    BY DEF AllTrees
  <2> DEFINE n == IF a <= b THEN b ELSE a
  <2>3. n \in Nat /\ n + 1 \in Nat /\ a \in 0 .. n /\ b \in 0 .. n
    OBVIOUS
  <2> HIDE DEF n
  <2>4. l \in Counting!Trees(n) /\ r \in Counting!Trees(n)
    BY <2>1, <2>2, <2>3, TreesGrow
  <2>5. Node(v, c, l, r) \in Counting!Trees(n + 1)
    BY <2>3, <2>4, NodeIsTree
  <2> QED BY <1>1, <2>3, <2>5
<1> QED BY <1>1, <1>2, <1>3, <1>4

LEMMA DepthFalls ==
    ASSUME NEW d, IsDepth(d), NEW t \in AllTrees, t # Counting!NULL
    PROVE  /\ t.left \in AllTrees /\ t.right \in AllTrees
           /\ d[t.left] < d[t] /\ d[t.right] < d[t]
<1>1. d[t] \in Nat /\ t \in Counting!Trees(d[t])
  BY DEF IsDepth
<1> DEFINE n == d[t]
<1>2. n # 0 /\ t \in NodesOver(Counting!Trees(n - 1))
  <2> HIDE DEF n
  <2>1. n \in Nat /\ t \in Counting!Trees(n)
    BY <1>1 DEF n
  <2> QED BY <2>1, TreeIs
<1>3. t.left \in Counting!Trees(n - 1) /\ t.right \in Counting!Trees(n - 1) /\ n - 1 \in Nat
  <2>1. t.left \in Counting!Trees(n - 1) /\ t.right \in Counting!Trees(n - 1)
    BY <1>2 DEF NodesOver
  <2> QED BY <1>1, <1>2, <2>1
<1>4. d[t.left] <= n - 1 /\ d[t.right] <= n - 1 /\ t.left \in AllTrees /\ t.right \in AllTrees
  BY <1>3, AllTreesAre DEF IsDepth
<1>5. d[t.left] \in Nat /\ d[t.right] \in Nat
  BY <1>4 DEF IsDepth
<1> QED BY <1>1, <1>4, <1>5

-----------------------------------------------------------------------------
\* What a tree holds: how many numbers, how many below each bound, and whether each node
\* has its own and smaller numbers on the left, as many as its count, and larger ones on
\* the right.
Holdings == [many : Nat, below : [Int -> Nat], sound : {0, 1}]
Nothing == [many |-> 0, below |-> [x \in Int |-> 0], sound |-> 1]
Together(t, l, r) ==
    [many |-> l.many + r.many + 1,
     below |-> [x \in Int |-> l.below[x] + r.below[x] + (IF t.val < x THEN 1 ELSE 0)],
     sound |-> IF /\ l.sound = 1 /\ r.sound = 1 /\ t.count = l.many
                  /\ l.below[t.val + 1] = l.many /\ r.below[t.val + 1] = 0
               THEN 1 ELSE 0]
AreHoldings(H) ==
    /\ H \in [AllTrees -> Holdings]
    /\ H[Counting!NULL] = Nothing
    /\ \A t \in AllTrees : t # Counting!NULL => H[t] = Together(t, H[t.left], H[t.right])

LEMMA TogetherType ==
    ASSUME NEW t \in NodesOver(AllTrees), NEW l \in Holdings, NEW r \in Holdings
    PROVE  Together(t, l, r) \in Holdings
<1>1. l.many + r.many + 1 \in Nat
  BY DEF Holdings
<1>2. [x \in Int |-> l.below[x] + r.below[x] + (IF t.val < x THEN 1 ELSE 0)] \in [Int -> Nat]
  <2> SUFFICES ASSUME NEW x \in Int PROVE l.below[x] + r.below[x] + (IF t.val < x THEN 1 ELSE 0) \in Nat
    OBVIOUS
  <2>1. l.below[x] \in Nat /\ r.below[x] \in Nat
    BY DEF Holdings
  <2> QED BY <2>1
<1> QED BY <1>1, <1>2 DEF Together, Holdings

LEMMA HoldingsExist == \E H : AreHoldings(H)
<1> DEFINE S == AllTrees
           X == Holdings
           N == Counting!NULL
<1>1. PICK d : IsDepth(d)
  BY DepthExists
<1> DEFINE step == [t \in S |-> [g \in [S -> X] |-> IF t = N THEN Nothing ELSE Together(t, g[t.left], g[t.right])]]
<1>2. Nothing \in X
  BY DEF Nothing, Holdings
<1>3. step \in [S -> [[S -> X] -> X]]
  <2> SUFFICES ASSUME NEW t \in S, NEW g \in [S -> X], t # N PROVE Together(t, g[t.left], g[t.right]) \in X
    BY <1>2
  <2>1. t \in NodesOver(AllTrees) /\ g[t.left] \in X /\ g[t.right] \in X
    BY <1>1, AllTreesAre, DepthFalls
  <2> QED BY <2>1, TogetherType
<1>4. LooksBelow(S, X, d, step)
  <2> SUFFICES ASSUME NEW t \in S, NEW g \in [S -> X], NEW h \in [S -> X],
                      \A y \in S : d[y] < d[t] => g[y] = h[y]
               PROVE  step[t][g] = step[t][h]
    <3>1. d \in [S -> Nat]
      BY <1>1 DEF IsDepth
    <3> HIDE DEF step, S, X
    <3> QED BY <1>3, <3>1 DEF LooksBelow
  <2>1. t # N => g[t.left] = h[t.left] /\ g[t.right] = h[t.right]
    BY <1>1, DepthFalls
  <2> QED BY <2>1
<1>5. PICK H \in [S -> X] : \A t \in S : H[t] = step[t][H]
  <2>1. X # {}
    BY <1>2
  <2> HIDE DEF S, step, X
  <2> QED BY <1>4, <2>1, SolutionExists
<1>6. ASSUME NEW t \in S PROVE H[t] = IF t = N THEN Nothing ELSE Together(t, H[t.left], H[t.right])
  <2>1. H[t] = step[t][H]
    BY <1>5
  <2> HIDE DEF X, S
  <2> QED BY <2>1
<1>7. N \in S
  BY AllTreesAre
<1>8. AreHoldings(H)
  BY <1>5, <1>6, <1>7 DEF AreHoldings
<1> QED BY <1>8

LEMMA HoldingsType ==
    ASSUME NEW H, AreHoldings(H), NEW t \in AllTrees
    PROVE  H[t].many \in Nat /\ H[t].below \in [Int -> Nat] /\ H[t].sound \in {0, 1}
<1>1. H[t] \in Holdings
  BY DEF AreHoldings
<1> QED BY <1>1 DEF Holdings

\* More numbers are below a larger bound, and never more than there are.
LEMMA BelowGrows ==
    ASSUME NEW H, AreHoldings(H), NEW t \in AllTrees, NEW x \in Int, NEW y \in Int, x <= y
    PROVE  H[t].below[x] <= H[t].below[y] /\ H[t].below[y] <= H[t].many
<1> DEFINE Grows(u) == H[u].below[x] <= H[u].below[y] /\ H[u].below[y] <= H[u].many
           S == {n \in Nat : \A u \in Counting!Trees(n) : Grows(u)}
<1>1. ASSUME NEW n \in Nat, \A k \in 0 .. n - 1 : k \in S PROVE n \in S
  <2> SUFFICES ASSUME NEW u \in Counting!Trees(n) PROVE Grows(u)
    OBVIOUS
  <2>1. u \in AllTrees
    BY AllTreesAre
  <2>2. CASE u = Counting!NULL
    <3>1. H[u] = Nothing
      BY <2>2 DEF AreHoldings
    <3> QED BY <3>1 DEF Nothing
  <2>3. CASE u # Counting!NULL
    <3> DEFINE l == u.left
               r == u.right
    <3>1. n # 0 /\ u \in NodesOver(Counting!Trees(n - 1))
      BY <2>3, TreeIs
    <3>2. n - 1 \in 0 .. n - 1 /\ n - 1 \in Nat
      BY <3>1
    <3>3. l \in Counting!Trees(n - 1) /\ r \in Counting!Trees(n - 1) /\ u.val \in Int
      BY <3>1, NodeType
    <3>4. l \in AllTrees /\ r \in AllTrees
      BY <3>2, <3>3, AllTreesAre
    <3> HIDE DEF l, r
    <3>5. Grows(l) /\ Grows(r)
      BY <1>1, <3>2, <3>3
    <3>6. H[u] = Together(u, H[l], H[r])
      BY <2>1, <2>3 DEF AreHoldings, l, r
    <3>7. /\ H[u].many = H[l].many + H[r].many + 1
          /\ H[u].below[x] = H[l].below[x] + H[r].below[x] + (IF u.val < x THEN 1 ELSE 0)
          /\ H[u].below[y] = H[l].below[y] + H[r].below[y] + (IF u.val < y THEN 1 ELSE 0)
      BY <3>6 DEF Together
    <3>8. /\ H[l].many \in Nat /\ H[r].many \in Nat
          /\ H[l].below[x] \in Nat /\ H[r].below[x] \in Nat
          /\ H[l].below[y] \in Nat /\ H[r].below[y] \in Nat
      BY <3>4, HoldingsType
    <3> QED BY <3>3, <3>5, <3>7, <3>8
  <2> QED BY <2>2, <2>3
<1>2. \A n \in Nat : n \in S
  <2> HIDE DEF S
  <2> QED BY <1>1, FromSmaller
<1>3. PICK n \in Nat : t \in Counting!Trees(n)
  BY DEF AllTrees
<1> QED BY <1>2, <1>3

\* What has become of tree t once v is in it, reached with c smaller numbers passed by.
Inserted(H, t, v, c, new) ==
    /\ H[t].sound = 1 =>
           /\ new.smaller = c + H[t].below[v]
           /\ H[new.root].sound = 1
    /\ H[new.root].many = H[t].many + 1
    /\ \A x \in Int : H[new.root].below[x] = H[t].below[x] + (IF v < x THEN 1 ELSE 0)

\* A node with a new number in its left or right subtree.
LEMMA InsertedEmpty ==
    ASSUME NEW H, AreHoldings(H), NEW v \in Int, NEW c \in Int
    PROVE  Inserted(H, Counting!NULL, v, c, [root |-> Node(v, 0, Counting!NULL, Counting!NULL), smaller |-> c])
<1> DEFINE N == Counting!NULL
           t == Node(v, 0, N, N)
           new == [root |-> t, smaller |-> c]
<1>1. N \in AllTrees /\ t \in AllTrees /\ t # N
  BY AllTreesAre, NodeIsNot
<1>2. t.left = N /\ t.right = N /\ t.val = v /\ t.count = 0
  BY DEF Node
<1>3. new.root = t /\ new.smaller = c
  OBVIOUS
<1> HIDE DEF N, t, new
<1>4. H[N] = Nothing /\ H[t] = Together(t, Nothing, Nothing)
  BY <1>1, <1>2 DEF AreHoldings, N
<1>5. /\ H[N].many = 0 /\ \A x \in Int : H[N].below[x] = 0
  BY <1>4 DEF Nothing
<1>6. /\ H[t].many = 1
      /\ \A x \in Int : H[t].below[x] = IF v < x THEN 1 ELSE 0
      /\ H[t].sound = 1
  <2>1. H[t].many = 1
    BY <1>4 DEF Together, Nothing
  <2>2. \A x \in Int : H[t].below[x] = IF v < x THEN 1 ELSE 0
    BY <1>2, <1>4 DEF Together, Nothing
  <2>3. v + 1 \in Int
    OBVIOUS
  <2>4. H[t].sound = 1
    BY <1>2, <1>4, <2>3 DEF Together, Nothing
  <2> QED BY <2>1, <2>2, <2>4
<1>7. Inserted(H, N, v, c, new)
  BY <1>3, <1>5, <1>6 DEF Inserted
<1> QED BY <1>7 DEF N, t, new

LEMMA InsertedLeft ==
    ASSUME NEW H, AreHoldings(H), NEW v \in Int, NEW c \in Int,
           NEW t \in AllTrees, t # Counting!NULL, v <= t.val,
           NEW new, new.root \in AllTrees, Inserted(H, t.left, v, c, new)
    PROVE  Inserted(H, t, v, c, [root |-> Node(t.val, t.count + 1, new.root, t.right), smaller |-> new.smaller])
<1> DEFINE l == t.left
           r == t.right
           a == new.root
           u == Node(t.val, t.count + 1, a, r)
           z == [root |-> u, smaller |-> new.smaller]
           y == t.val + 1
<1>1. t \in NodesOver(AllTrees)
  BY AllTreesAre
<1>2. t.val \in Int /\ t.count \in Int /\ l \in AllTrees /\ r \in AllTrees
  BY <1>1, NodeType
<1>3. y \in Int /\ t.count + 1 \in Int /\ a \in AllTrees
  BY <1>2
<1>4. u \in AllTrees /\ u # Counting!NULL
  BY <1>2, <1>3, AllTreesAre, NodeIsNot
<1>5. u.left = a /\ u.right = r /\ u.val = t.val /\ u.count = t.count + 1
  BY DEF Node
<1>6. z.root = u /\ z.smaller = new.smaller
  OBVIOUS
<1>7. H[t] = Together(t, H[l], H[r])
  BY DEF AreHoldings
<1>8. H[u] = Together(u, H[a], H[r])
  <2> HIDE DEF u
  <2> QED BY <1>4, <1>5 DEF AreHoldings
<1>9. Inserted(H, l, v, c, new)
  OBVIOUS
<1>10. /\ \A x \in Int : H[l].below[x] \in Nat /\ H[r].below[x] \in Nat
       /\ H[l].many \in Nat /\ H[r].many \in Nat
  BY <1>2, HoldingsType
<1> HIDE DEF l, r, a, u, z
<1>11. H[u].many = H[t].many + 1
  <2>1. H[a].many = H[l].many + 1
    BY <1>9 DEF Inserted, a
  <2>2. H[t].many = H[l].many + H[r].many + 1
    BY <1>7 DEF Together
  <2>3. H[u].many = H[a].many + H[r].many + 1
    BY <1>8 DEF Together
  <2> QED BY <1>10, <2>1, <2>2, <2>3
<1>12. ASSUME NEW x \in Int PROVE H[u].below[x] = H[t].below[x] + (IF v < x THEN 1 ELSE 0)
  <2>1. H[a].below[x] = H[l].below[x] + (IF v < x THEN 1 ELSE 0)
    BY <1>9 DEF Inserted, a
  <2>2. H[t].below[x] = H[l].below[x] + H[r].below[x] + (IF t.val < x THEN 1 ELSE 0)
    BY <1>7 DEF Together
  <2>3. H[u].below[x] = H[a].below[x] + H[r].below[x] + (IF t.val < x THEN 1 ELSE 0)
    BY <1>5, <1>8 DEF Together
  <2>4. H[l].below[x] \in Nat /\ H[r].below[x] \in Nat
    BY <1>10
  <2> QED BY <2>1, <2>2, <2>3, <2>4
<1>13. ASSUME H[t].sound = 1 PROVE z.smaller = c + H[t].below[v] /\ H[u].sound = 1
  <2>1. H[l].sound = 1 /\ H[r].sound = 1 /\ t.count = H[l].many
        /\ H[l].below[y] = H[l].many /\ H[r].below[y] = 0
    BY <1>7, <1>13 DEF Together
  <2>2. new.smaller = c + H[l].below[v] /\ H[a].sound = 1
        /\ H[a].many = H[l].many + 1 /\ H[a].below[y] = H[l].below[y] + 1
    <3>1. v < y
      BY <1>2
    <3> QED BY <1>3, <1>9, <2>1, <3>1 DEF Inserted, a
  <2>3. H[r].below[v] = 0
    <3>1. v <= y
      BY <1>2
    <3>2. H[r].below[v] <= H[r].below[y] /\ H[r].below[v] \in Nat
      BY <1>2, <1>3, <1>10, <3>1, BelowGrows
    <3> QED BY <2>1, <3>2
  <2>4. H[t].below[v] = H[l].below[v] + H[r].below[v] + (IF t.val < v THEN 1 ELSE 0)
    BY <1>7 DEF Together
  <2>5. H[t].below[v] = H[l].below[v]
    <3>1. ~(t.val < v)
      BY <1>2
    <3> QED BY <1>10, <2>3, <2>4, <3>1
  <2>6. H[u].sound = 1
    BY <1>5, <1>8, <2>1, <2>2 DEF Together
  <2> QED BY <1>6, <2>2, <2>5, <2>6
<1>14. Inserted(H, t, v, c, z)
  BY <1>6, <1>11, <1>12, <1>13 DEF Inserted
<1> QED BY <1>14 DEF z, u, a, r

LEMMA InsertedRight ==
    ASSUME NEW H, AreHoldings(H), NEW v \in Int, NEW c \in Int,
           NEW t \in AllTrees, t # Counting!NULL, ~(v <= t.val),
           NEW new, new.root \in AllTrees, Inserted(H, t.right, v, c + t.count + 1, new)
    PROVE  Inserted(H, t, v, c, [root |-> Node(t.val, t.count, t.left, new.root), smaller |-> new.smaller])
<1> DEFINE l == t.left
           r == t.right
           a == new.root
           u == Node(t.val, t.count, l, a)
           z == [root |-> u, smaller |-> new.smaller]
           y == t.val + 1
           b == c + t.count + 1
<1>1. t \in NodesOver(AllTrees)
  BY AllTreesAre
<1>2. t.val \in Int /\ t.count \in Int /\ l \in AllTrees /\ r \in AllTrees
  BY <1>1, NodeType
<1>3. y \in Int /\ a \in AllTrees
  BY <1>2
<1>4. u \in AllTrees /\ u # Counting!NULL
  BY <1>2, <1>3, AllTreesAre, NodeIsNot
<1>5. u.left = l /\ u.right = a /\ u.val = t.val /\ u.count = t.count
  BY DEF Node
<1>6. z.root = u /\ z.smaller = new.smaller
  OBVIOUS
<1>7. H[t] = Together(t, H[l], H[r])
  BY DEF AreHoldings
<1>8. H[u] = Together(u, H[l], H[a])
  <2> HIDE DEF u
  <2> QED BY <1>4, <1>5 DEF AreHoldings
<1>9. Inserted(H, r, v, b, new)
  OBVIOUS
<1>10. /\ \A x \in Int : H[l].below[x] \in Nat /\ H[r].below[x] \in Nat
       /\ H[l].many \in Nat /\ H[r].many \in Nat
  BY <1>2, HoldingsType
<1> HIDE DEF l, r, a, u, z, b
<1>11. H[u].many = H[t].many + 1
  <2>1. H[a].many = H[r].many + 1
    BY <1>9 DEF Inserted, a
  <2>2. H[t].many = H[l].many + H[r].many + 1
    BY <1>7 DEF Together
  <2>3. H[u].many = H[l].many + H[a].many + 1
    BY <1>8 DEF Together
  <2> QED BY <1>10, <2>1, <2>2, <2>3
<1>12. ASSUME NEW x \in Int PROVE H[u].below[x] = H[t].below[x] + (IF v < x THEN 1 ELSE 0)
  <2>1. H[a].below[x] = H[r].below[x] + (IF v < x THEN 1 ELSE 0)
    BY <1>9 DEF Inserted, a
  <2>2. H[t].below[x] = H[l].below[x] + H[r].below[x] + (IF t.val < x THEN 1 ELSE 0)
    BY <1>7 DEF Together
  <2>3. H[u].below[x] = H[l].below[x] + H[a].below[x] + (IF t.val < x THEN 1 ELSE 0)
    BY <1>5, <1>8 DEF Together
  <2>4. H[l].below[x] \in Nat /\ H[r].below[x] \in Nat
    BY <1>10
  <2> QED BY <2>1, <2>2, <2>3, <2>4
<1>13. ASSUME H[t].sound = 1 PROVE z.smaller = c + H[t].below[v] /\ H[u].sound = 1
  <2>1. H[l].sound = 1 /\ H[r].sound = 1 /\ t.count = H[l].many
        /\ H[l].below[y] = H[l].many /\ H[r].below[y] = 0
    BY <1>7, <1>13 DEF Together
  <2>2. new.smaller = b + H[r].below[v] /\ H[a].sound = 1 /\ H[a].below[y] = H[r].below[y]
    <3>1. ~(v < y)
      BY <1>2
    <3>2. H[a].below[y] = H[r].below[y] + 0
      BY <1>3, <1>9, <3>1 DEF Inserted, a
    <3> QED BY <1>3, <1>9, <1>10, <2>1, <3>2 DEF Inserted, a
  <2>3. H[l].below[v] = H[l].many
    <3>1. y <= v
      BY <1>2
    <3>2. H[l].below[y] <= H[l].below[v] /\ H[l].below[v] <= H[l].many /\ H[l].below[v] \in Nat
      BY <1>2, <1>3, <1>10, <3>1, BelowGrows
    <3> QED BY <1>10, <2>1, <3>2
  <2>4. H[t].below[v] = H[l].below[v] + H[r].below[v] + (IF t.val < v THEN 1 ELSE 0)
    BY <1>7 DEF Together
  <2>5. b + H[r].below[v] = c + H[t].below[v]
    <3>1. t.val < v
      BY <1>2
    <3> QED BY <1>2, <1>10, <2>1, <2>3, <2>4, <3>1 DEF b
  <2>6. H[u].sound = 1
    BY <1>5, <1>8, <2>1, <2>2 DEF Together
  <2> QED BY <1>6, <2>2, <2>5, <2>6
<1>14. Inserted(H, t, v, c, z)
  BY <1>6, <1>11, <1>12, <1>13 DEF Inserted
<1> QED BY <1>14 DEF z, u, a, l

\* What insert does at one node, with h for what it does further down.
Into(h, v, a) ==
    IF a[1] = Counting!NULL
    THEN [root |-> Node(v, 0, Counting!NULL, Counting!NULL), smaller |-> a[2]]
    ELSE IF v <= a[1].val
    THEN [root |-> [a[1] EXCEPT !.count = @ + 1, !.left = h[<<a[1].left, a[2]>>].root],
          smaller |-> h[<<a[1].left, a[2]>>].smaller]
    ELSE [root |-> [a[1] EXCEPT !.right = h[<<a[1].right, a[2] + a[1].count + 1>>].root],
          smaller |-> h[<<a[1].right, a[2] + a[1].count + 1>>].smaller]

GoneLeft(h, t, c) ==
    [root |-> Node(t.val, t.count + 1, h[<<t.left, c>>].root, t.right), smaller |-> h[<<t.left, c>>].smaller]
GoneRight(h, t, c) ==
    [root |-> Node(t.val, t.count, t.left, h[<<t.right, c + t.count + 1>>].root),
     smaller |-> h[<<t.right, c + t.count + 1>>].smaller]

LEMMA IntoIs ==
    ASSUME NEW h, NEW v, NEW t \in NodesOver(AllTrees), NEW c
    PROVE  Into(h, v, <<t, c>>) = IF v <= t.val THEN GoneLeft(h, t, c) ELSE GoneRight(h, t, c)
<1>1. t # Counting!NULL /\ t = Node(t.val, t.count, t.left, t.right) /\ t.count \in Int
  BY NodeType
<1>2. <<t, c>>[1] = t /\ <<t, c>>[2] = c
  OBVIOUS
<1> DEFINE x == h[<<t.left, c>>]
           y == h[<<t.right, c + t.count + 1>>]
<1>3. [t EXCEPT !.count = @ + 1, !.left = x.root] = Node(t.val, t.count + 1, x.root, t.right)
  <2> DEFINE e == x.root
             z == [t EXCEPT !.count = @ + 1, !.left = e]
  <2>1. DOMAIN t = {"val", "count", "left", "right"}
    BY DEF NodesOver
  <2> HIDE DEF e
  <2>2. z.val = t.val /\ z.count = t.count + 1 /\ z.left = e /\ z.right = t.right
    BY <2>1
  <2>3. z = [f \in {"val", "count", "left", "right"} |-> z[f]]
    BY <2>1
  <2> HIDE DEF z
  <2>4. z = Node(t.val, t.count + 1, e, t.right)
    BY <2>2, <2>3 DEF Node
  <2> QED BY <2>4 DEF z, e
<1>4. [t EXCEPT !.right = y.root] = Node(t.val, t.count, t.left, y.root)
  <2> HIDE DEF y
  <2> QED BY <1>1 DEF NodesOver, Node
<1>5. v <= t.val => Into(h, v, <<t, c>>) = [root |-> [t EXCEPT !.count = @ + 1, !.left = x.root], smaller |-> x.smaller]
  BY <1>1, <1>2 DEF Into
<1>6. ~(v <= t.val) => Into(h, v, <<t, c>>) = [root |-> [t EXCEPT !.right = y.root], smaller |-> y.smaller]
  BY <1>1, <1>2 DEF Into
<1> HIDE DEF Into
<1> QED BY <1>3, <1>4, <1>5, <1>6 DEF GoneLeft, GoneRight

LEMMA InsertExists ==
    ASSUME NEW n \in Nat, NEW v \in Int
    PROVE  \E h : /\ \A a \in Counting!Trees(n) \X Int : h[a] = Into(h, v, a)
                 /\ \A t \in Counting!Trees(n), c \in Int : Counting!insert(n, t, v, c) = h[<<t, c>>]
<1> DEFINE S == Counting!Trees(n) \X Int
           X == [root : AllTrees, smaller : Int]
           N == Counting!NULL
           step == [a \in S |-> [g \in [S -> X] |-> Into(g, v, a)]]
           Is(h) == h = [a \in S |-> Into(h, v, a)]
           into == CHOOSE h : Is(h)
<1>1. PICK d : IsDepth(d)
  BY DepthExists
<1> DEFINE m == [a \in S |-> d[a[1]]]
<1>2. ASSUME NEW t \in Counting!Trees(n), t # N
      PROVE  /\ t \in NodesOver(AllTrees) /\ t \in AllTrees
             /\ t.left \in Counting!Trees(n) /\ t.right \in Counting!Trees(n)
             /\ t.val \in Int /\ t.count \in Int
             /\ t.left \in AllTrees /\ t.right \in AllTrees
             /\ d[t.left] < d[t] /\ d[t.right] < d[t]
  <2>1. n # 0 /\ t \in NodesOver(Counting!Trees(n - 1)) /\ n - 1 \in Nat /\ n - 1 \in 0 .. n
    BY <1>2, TreeIs
  <2>2. t.left \in Counting!Trees(n) /\ t.right \in Counting!Trees(n)
    BY <2>1, NodeType, TreesGrow
  <2>3. t \in AllTrees /\ t \in NodesOver(AllTrees)
    BY <1>2, AllTreesAre
  <2>4. t.left \in AllTrees /\ t.right \in AllTrees /\ d[t.left] < d[t] /\ d[t.right] < d[t]
    BY <1>1, <1>2, <2>3, DepthFalls
  <2> QED BY <2>2, <2>3, <2>4, NodeType
<1>3. m \in [S -> Nat]
  <2> SUFFICES ASSUME NEW a \in S PROVE d[a[1]] \in Nat
    OBVIOUS
  <2>1. a[1] \in AllTrees
    BY AllTreesAre
  <2> QED BY <1>1, <2>1 DEF IsDepth
<1>4. \A t \in Counting!Trees(n), c \in Int : <<t, c>> \in S /\ <<t, c>>[1] = t /\ <<t, c>>[2] = c /\ m[<<t, c>>] = d[t]
  OBVIOUS
<1>5. \A a \in S : a[1] \in Counting!Trees(n) /\ a[2] \in Int /\ a = <<a[1], a[2]>> /\ m[a] = d[a[1]]
  OBVIOUS
<1> HIDE DEF m
<1>6. ASSUME NEW g \in [S -> X], NEW a \in S PROVE Into(g, v, a) \in X
  <2> DEFINE t == a[1]
             c == a[2]
             l == <<t.left, c>>
             r == <<t.right, c + t.count + 1>>
  <2>1. t \in Counting!Trees(n) /\ c \in Int /\ a = <<t, c>>
    BY <1>5
  <2> HIDE DEF t, c, X, S
  <2>2. CASE t = N
    <3>1. Node(v, 0, N, N) \in AllTrees
      BY AllTreesAre
    <3>2. Into(g, v, <<t, c>>) = [root |-> Node(v, 0, N, N), smaller |-> c]
      BY <2>1, <2>2 DEF Into
    <3> QED BY <2>1, <3>1, <3>2 DEF X
  <2>3. CASE t # N /\ v <= t.val
    <3>1. l \in S
      BY <1>2, <1>4, <2>1, <2>3
    <3>2. g[l].root \in AllTrees /\ g[l].smaller \in Int
      <4>1. g[l] \in X
        BY <3>1
      <4> QED BY <4>1 DEF X
    <3>3. Node(t.val, t.count + 1, g[l].root, t.right) \in AllTrees
      <4>1. t.count + 1 \in Int
        BY <1>2, <2>1, <2>3
      <4> QED BY <1>2, <2>1, <2>3, <3>2, <4>1, AllTreesAre
    <3>4. Into(g, v, <<t, c>>) = [root |-> Node(t.val, t.count + 1, g[l].root, t.right), smaller |-> g[l].smaller]
      <4>1. Into(g, v, <<t, c>>) = GoneLeft(g, t, c)
        BY <1>2, <2>1, <2>3, IntoIs
      <4> QED BY <4>1 DEF GoneLeft
    <3> QED BY <2>1, <3>2, <3>3, <3>4 DEF X
  <2>4. CASE t # N /\ ~(v <= t.val)
    <3>1. r \in S
      <4>1. c + t.count + 1 \in Int
        BY <1>2, <2>1, <2>4
      <4> QED BY <1>2, <1>4, <2>1, <2>4, <4>1
    <3>2. g[r].root \in AllTrees /\ g[r].smaller \in Int
      <4>1. g[r] \in X
        BY <3>1
      <4> QED BY <4>1 DEF X
    <3>3. Node(t.val, t.count, t.left, g[r].root) \in AllTrees
      BY <1>2, <2>1, <2>4, <3>2, AllTreesAre
    <3>4. Into(g, v, <<t, c>>) = [root |-> Node(t.val, t.count, t.left, g[r].root), smaller |-> g[r].smaller]
      <4>1. Into(g, v, <<t, c>>) = GoneRight(g, t, c)
        BY <1>2, <2>1, <2>4, IntoIs
      <4> QED BY <4>1 DEF GoneRight
    <3> QED BY <2>1, <3>2, <3>3, <3>4 DEF X
  <2> QED BY <2>2, <2>3, <2>4
<1>7. ASSUME NEW g \in [S -> X], NEW h \in [S -> X], NEW a \in S, \A b \in S : m[b] < m[a] => g[b] = h[b]
      PROVE  Into(g, v, a) = Into(h, v, a)
  <2> DEFINE t == a[1]
             c == a[2]
             l == <<t.left, c>>
             r == <<t.right, c + t.count + 1>>
  <2>1. t \in Counting!Trees(n) /\ c \in Int /\ a = <<t, c>> /\ m[a] = d[t]
    BY <1>5
  <2> HIDE DEF t, c, X, S
  <2>2. CASE t = N
    BY <2>1, <2>2 DEF Into
  <2>3. CASE t # N
    <3>1. c + t.count + 1 \in Int
      BY <1>2, <2>1, <2>3
    <3>2. l \in S /\ m[l] = d[t.left] /\ r \in S /\ m[r] = d[t.right]
      BY <1>2, <1>4, <2>1, <2>3, <3>1
    <3>3. g[l] = h[l] /\ g[r] = h[r]
      BY <1>2, <1>7, <2>1, <2>3, <3>2
    <3>4. /\ Into(g, v, <<t, c>>) = IF v <= t.val THEN GoneLeft(g, t, c) ELSE GoneRight(g, t, c)
          /\ Into(h, v, <<t, c>>) = IF v <= t.val THEN GoneLeft(h, t, c) ELSE GoneRight(h, t, c)
      BY <1>2, <2>1, <2>3, IntoIs
    <3>5. GoneLeft(g, t, c) = GoneLeft(h, t, c) /\ GoneRight(g, t, c) = GoneRight(h, t, c)
      BY <3>3 DEF GoneLeft, GoneRight
    <3> QED BY <2>1, <3>4, <3>5
  <2> QED BY <2>2, <2>3
<1>8. step \in [S -> [[S -> X] -> X]]
  <2> HIDE DEF S, X
  <2> QED BY <1>6
<1>9. LooksBelow(S, X, m, step)
  <2>1. \A a \in S : \A g, h \in [S -> X] : (\A b \in S : m[b] < m[a] => g[b] = h[b]) => step[a][g] = step[a][h]
    <3> HIDE DEF S, X
    <3> QED BY <1>7
  <2> HIDE DEF step, S, X
  <2> QED BY <1>3, <1>8, <2>1 DEF LooksBelow
<1>10. PICK h \in [S -> X] : \A a \in S : h[a] = step[a][h]
  <2>1. X # {}
    <3>1. [root |-> N, smaller |-> 0] \in X
      BY AllTreesAre
    <3> QED BY <3>1
  <2> HIDE DEF S, step, X
  <2> QED BY <1>9, <2>1, SolutionExists
<1>11. Is(h)
  <2>1. \A a \in S : h[a] = Into(h, v, a)
    <3> HIDE DEF S, X
    <3> QED BY <1>10
  <2>2. h = [a \in S |-> h[a]]
    BY <1>10
  <2> HIDE DEF S, X
  <2> QED BY <2>1, <2>2
<1>12. Is(into)
  <2> HIDE DEF Is
  <2> QED BY <1>11
<1>13. ASSUME NEW t \in Counting!Trees(n), NEW c \in Int PROVE Counting!insert(n, t, v, c) = into[<<t, c>>]
  BY DEF Counting!insert, Into, Node
<1> HIDE DEF into
<1>14. \A a \in S : into[a] = Into(into, v, a)
  <2> HIDE DEF S
  <2> QED BY <1>12
<1> QED BY <1>13, <1>14

\* src/315.c: into a sound tree a number goes to its place, and the smaller ones are counted.
LEMMA InsertIs ==
    ASSUME NEW H, AreHoldings(H), NEW n \in Nat, NEW t \in Counting!Trees(n), NEW v \in Int, NEW c \in Int
    PROVE  /\ Counting!insert(n, t, v, c).root \in Counting!Trees(n + 1)
           /\ Counting!insert(n, t, v, c).smaller \in Int
           /\ Counting!insert(n, t, v, c) = [root |-> Counting!insert(n, t, v, c).root,
                                             smaller |-> Counting!insert(n, t, v, c).smaller]
           /\ Inserted(H, t, v, c, Counting!insert(n, t, v, c))
<1> DEFINE N == Counting!NULL
<1>1. PICK h : /\ \A a \in Counting!Trees(n) \X Int : h[a] = Into(h, v, a)
               /\ \A u \in Counting!Trees(n), b \in Int : Counting!insert(n, u, v, b) = h[<<u, b>>]
  BY InsertExists
<1> DEFINE Right(k, u, b) == /\ h[<<u, b>>].root \in Counting!Trees(k + 1)
                             /\ h[<<u, b>>].smaller \in Int
                             /\ h[<<u, b>>] = [root |-> h[<<u, b>>].root, smaller |-> h[<<u, b>>].smaller]
                             /\ Inserted(H, u, v, b, h[<<u, b>>])
           T == {k \in Nat : k <= n => \A u \in Counting!Trees(k), b \in Int : Right(k, u, b)}
<1>2. \A u \in Counting!Trees(n), b \in Int : h[<<u, b>>] = Into(h, v, <<u, b>>)
  BY <1>1
<1>3. ASSUME NEW k \in Nat, \A j \in 0 .. k - 1 : j \in T PROVE k \in T
  <2> SUFFICES ASSUME k <= n, NEW u \in Counting!Trees(k), NEW b \in Int PROVE Right(k, u, b)
    OBVIOUS
  <2>1. u \in Counting!Trees(n) /\ u \in AllTrees
    <3>1. k \in 0 .. n
      OBVIOUS
    <3> QED BY <3>1, TreesGrow, AllTreesAre
  <2>2. h[<<u, b>>] = Into(h, v, <<u, b>>)
    BY <1>2, <2>1
  <2>3. CASE u = N
    <3>1. h[<<u, b>>] = [root |-> Node(v, 0, N, N), smaller |-> b]
      BY <2>2, <2>3 DEF Into
    <3>2. Node(v, 0, N, N) \in Counting!Trees(k + 1)
      BY <2>3, NodeIsTree
    <3>3. Inserted(H, u, v, b, h[<<u, b>>])
      BY <2>3, <3>1, InsertedEmpty
    <3> QED BY <3>1, <3>2, <3>3
  <2>4. CASE u # N
    <3>1. k - 1 \in Nat /\ k - 1 \in 0 .. k - 1 /\ k - 1 <= n /\ (k - 1) + 1 = k /\ k - 1 \in 0 .. k
          /\ u \in NodesOver(Counting!Trees(k - 1)) /\ u \in NodesOver(AllTrees)
      <4>1. k # 0 /\ u \in NodesOver(Counting!Trees(k - 1))
        BY <2>4, TreeIs
      <4>2. u \in NodesOver(AllTrees)
        BY <2>1, <2>4, AllTreesAre
      <4> QED BY <4>1, <4>2
    <3>2. u.left \in Counting!Trees(k - 1) /\ u.right \in Counting!Trees(k - 1) /\ u.val \in Int /\ u.count \in Int
      BY <3>1, NodeType
    <3>3. u.left \in Counting!Trees(k) /\ u.right \in Counting!Trees(k)
      BY <3>1, <3>2, TreesGrow
    <3>4. CASE v <= u.val
      <4> DEFINE w == h[<<u.left, b>>]
      <4>1. w.root \in Counting!Trees(k) /\ w.smaller \in Int /\ Inserted(H, u.left, v, b, w)
        <5>1. Right(k - 1, u.left, b)
          <6> HIDE DEF Right
          <6> QED BY <1>3, <3>1, <3>2
        <5> QED BY <3>1, <5>1
      <4>2. h[<<u, b>>] = [root |-> Node(u.val, u.count + 1, w.root, u.right), smaller |-> w.smaller]
        <5>1. Into(h, v, <<u, b>>) = GoneLeft(h, u, b)
          BY <3>1, <3>4, IntoIs
        <5> QED BY <2>2, <5>1 DEF GoneLeft
      <4> HIDE DEF w
      <4>3. Node(u.val, u.count + 1, w.root, u.right) \in Counting!Trees(k + 1)
        <5>1. u.count + 1 \in Int
          BY <3>2
        <5> QED BY <3>2, <3>3, <4>1, <5>1, NodeIsTree
      <4>4. Inserted(H, u, v, b, h[<<u, b>>])
        <5>1. w.root \in AllTrees
          BY <4>1, AllTreesAre
        <5> QED BY <2>1, <2>4, <3>4, <4>1, <4>2, <5>1, InsertedLeft
      <4> QED BY <4>1, <4>2, <4>3, <4>4
    <3>5. CASE ~(v <= u.val)
      <4> DEFINE e == b + u.count + 1
                 w == h[<<u.right, e>>]
      <4>1. e \in Int
        BY <3>2
      <4>2. w.root \in Counting!Trees(k) /\ w.smaller \in Int /\ Inserted(H, u.right, v, e, w)
        <5>1. Right(k - 1, u.right, e)
          <6> HIDE DEF Right, e
          <6> QED BY <1>3, <3>1, <3>2, <4>1
        <5> QED BY <3>1, <5>1
      <4>3. h[<<u, b>>] = [root |-> Node(u.val, u.count, u.left, w.root), smaller |-> w.smaller]
        <5>1. Into(h, v, <<u, b>>) = GoneRight(h, u, b)
          BY <3>1, <3>5, IntoIs
        <5> QED BY <2>2, <5>1 DEF GoneRight
      <4> HIDE DEF w
      <4>4. Node(u.val, u.count, u.left, w.root) \in Counting!Trees(k + 1)
        BY <3>2, <3>3, <4>2, NodeIsTree
      <4>5. Inserted(H, u, v, b, h[<<u, b>>])
        <5>1. w.root \in AllTrees
          BY <4>2, AllTreesAre
        <5> QED BY <2>1, <2>4, <3>5, <4>2, <4>3, <5>1, InsertedRight
      <4> QED BY <4>2, <4>3, <4>4, <4>5
    <3> QED BY <3>4, <3>5
  <2> QED BY <2>3, <2>4
<1>4. \A k \in Nat : k \in T
  <2> HIDE DEF T
  <2> QED BY <1>3, FromSmaller
<1>5. Right(n, t, c)
  <2> HIDE DEF Right
  <2> QED BY <1>4
<1> QED BY <1>1, <1>5

\* The states of countSmaller, from the last number on.
HasInserted(s, n, h) ==
    /\ h = [k \in 0 .. n |-> h[k]]
    /\ h[0] = [root |-> Counting!NULL, smaller |-> 0]
    /\ \A k \in 1 .. n : h[k] = Counting!insert(k - 1, h[k - 1].root, s[Len(s) - k + 1], 0)

LEMMA InsertedExist == ASSUME NEW s, NEW n \in Nat PROVE \E h : HasInserted(s, n, h)
<1> DEFINE base == [root |-> Counting!NULL, smaller |-> 0]
           After(h, k) == Counting!insert(k - 1, h[k - 1].root, s[Len(s) - k + 1], 0)
           S == {k \in Nat : \E h : HasInserted(s, k, h)}
<1>1. ASSUME NEW k \in Nat, \A j \in 0 .. k - 1 : j \in S PROVE k \in S
  <2>1. CASE k = 0
    <3> DEFINE h == [j \in 0 .. 0 |-> base]
    <3>1. HasInserted(s, 0, h)
      BY DEF HasInserted
    <3> QED BY <2>1, <3>1
  <2>2. CASE k # 0
    <3>1. k - 1 \in Nat /\ k - 1 \in S
      BY <1>1, <2>2
    <3>2. PICK h : HasInserted(s, k - 1, h)
      BY <3>1
    <3> HIDE DEF After
    <3> DEFINE f == [j \in 0 .. k |-> IF j < k THEN h[j] ELSE After(h, k)]
    <3>3. f = [j \in 0 .. k |-> f[j]]
      OBVIOUS
    <3>4. f[0] = base
      <4>1. 0 \in 0 .. k /\ 0 < k
        BY <2>2
      <4> QED BY <3>2, <4>1 DEF HasInserted
    <3>5. ASSUME NEW j \in 1 .. k PROVE f[j] = After(f, j)
      <4>1. j - 1 \in 0 .. k /\ j - 1 < k /\ j \in 0 .. k
        OBVIOUS
      <4>2. f[j - 1] = h[j - 1]
        BY <4>1
      <4>3. After(f, j) = After(h, j)
        <5> HIDE DEF f
        <5> QED BY <4>2 DEF After
      <4>4. CASE j = k
        <5>1. ~(j < k)
          BY <4>4
        <5> QED BY <4>1, <4>3, <4>4, <5>1
      <4>5. CASE j # k
        <5>1. j < k /\ j \in 1 .. k - 1
          BY <4>5
        <5>2. h[j] = After(h, j)
          BY <3>2, <5>1 DEF HasInserted, After
        <5> QED BY <4>1, <4>3, <5>1, <5>2
      <4> QED BY <4>4, <4>5
    <3>6. HasInserted(s, k, f)
      <4> HIDE DEF f
      <4> QED BY <3>3, <3>4, <3>5 DEF HasInserted, After
    <3> HIDE DEF f
    <3> QED BY <3>6
  <2> QED BY <2>1, <2>2
<1>2. \A k \in Nat : k \in S
  <2> HIDE DEF S
  <2> QED BY <1>1, FromSmaller
<1> QED BY <1>2

LEMMA CountSmallerIs ==
    ASSUME NEW s \in Seq(Int)
    PROVE  \E h : /\ HasInserted(s, Len(s), h)
                 /\ Counting!countSmaller(s) = [p \in 1 .. Len(s) |-> h[Len(s) - p + 1].smaller]
<1> DEFINE n == Len(s)
           base == [root |-> Counting!NULL, smaller |-> 0]
           Is(h) == h = [k \in 0 .. n |-> IF k = 0 THEN base
                                          ELSE Counting!insert(k - 1, h[k - 1].root, s[Len(s) - k + 1], 0)]
           after == CHOOSE h : Is(h)
<1>1. n \in Nat
  OBVIOUS
<1>2. PICK h : HasInserted(s, n, h)
  BY <1>1, InsertedExist
<1>3. Is(h)
  <2>1. \A k \in 0 .. n : h[k] = IF k = 0 THEN base ELSE Counting!insert(k - 1, h[k - 1].root, s[Len(s) - k + 1], 0)
    <3> SUFFICES ASSUME NEW k \in 0 .. n
                 PROVE  h[k] = IF k = 0 THEN base ELSE Counting!insert(k - 1, h[k - 1].root, s[Len(s) - k + 1], 0)
      OBVIOUS
    <3>1. k # 0 => k \in 1 .. n
      OBVIOUS
    <3> QED BY <1>2, <3>1 DEF HasInserted
  <2>2. h = [k \in 0 .. n |-> h[k]]
    BY <1>2 DEF HasInserted
  <2> HIDE DEF base, n
  <2> QED BY <2>1, <2>2
<1>4. Is(after)
  <2> HIDE DEF Is
  <2> QED BY <1>3
<1>5. Counting!countSmaller(s) = [p \in 1 .. Len(s) |-> after[Len(s) - p + 1].smaller]
  BY DEF Counting!countSmaller
<1> HIDE DEF after
<1>6. HasInserted(s, n, after)
  <2>1. \A k \in 0 .. n : after[k] = IF k = 0 THEN base ELSE Counting!insert(k - 1, after[k - 1].root, s[Len(s) - k + 1], 0)
    BY <1>4
  <2>2. after = [k \in 0 .. n |-> after[k]]
    BY <1>4
  <2>3. \A k \in 1 .. n : k \in 0 .. n /\ k # 0
    OBVIOUS
  <2>4. 0 \in 0 .. n
    BY <1>1
  <2> HIDE DEF Is, n
  <2> QED BY <2>1, <2>2, <2>3, <2>4 DEF HasInserted
<1> QED BY <1>5, <1>6

\* src/315.c: each entry counts the smaller numbers to its right.
LEMMA SmallerCorrect ==
    ASSUME NEW s \in Seq(Int)
    PROVE  Counting!SmallerIsRight(s)
<1> DEFINE n == Len(s)
           From(k, x) == {q \in n - k + 1 .. n : s[q] < x}
<1>1. n \in Nat /\ DOMAIN s = 1 .. n /\ \A p \in 1 .. n : s[p] \in Int
  OBVIOUS
<1>2. PICK h : HasInserted(s, n, h) /\ Counting!countSmaller(s) = [p \in 1 .. n |-> h[n - p + 1].smaller]
  BY CountSmallerIs
<1>3. PICK H : AreHoldings(H)
  BY HoldingsExist
<1> HIDE DEF n
<1> DEFINE T == {k \in Nat : k <= n => /\ h[k].root \in Counting!Trees(k)
                                     /\ H[h[k].root].sound = 1
                                     /\ \A x \in Int : /\ IsFiniteSet(From(k, x))
                                                      /\ H[h[k].root].below[x] = Cardinality(From(k, x))}
<1>4. ASSUME NEW k \in 1 .. n, k - 1 \in T
      PROVE  /\ h[k] = Counting!insert(k - 1, h[k - 1].root, s[n - k + 1], 0)
             /\ h[k].root \in Counting!Trees(k)
             /\ h[k].smaller = Cardinality(From(k - 1, s[n - k + 1]))
             /\ Inserted(H, h[k - 1].root, s[n - k + 1], 0, h[k])
             /\ H[h[k].root].sound = 1 /\ s[n - k + 1] \in Int
             /\ Cardinality(From(k - 1, s[n - k + 1])) \in Nat
  <2> DEFINE v == s[n - k + 1]
             t == h[k - 1].root
             j == k - 1
  <2>1. j \in Nat /\ j + 1 = k /\ j <= n /\ n - k + 1 \in 1 .. n
    BY <1>1
  <2>2. v \in Int /\ 0 \in Int
    BY <1>1, <2>1
  <2>3. t \in Counting!Trees(j) /\ H[t].sound = 1
        /\ IsFiniteSet(From(j, v)) /\ H[t].below[v] = Cardinality(From(j, v))
    <3> HIDE DEF From
    <3> QED BY <1>4, <2>1, <2>2
  <2>4. h[k] = Counting!insert(j, t, v, 0)
    BY <1>2 DEF HasInserted, n
  <2> DEFINE w == Counting!insert(j, t, v, 0)
  <2>5. /\ w.root \in Counting!Trees(k) /\ Inserted(H, t, v, 0, w)
    <3>1. /\ w.root \in Counting!Trees(j + 1) /\ Inserted(H, t, v, 0, w)
      <4> HIDE DEF t, v, j
      <4> QED BY <1>3, <2>1, <2>2, <2>3, InsertIs
    <3> QED BY <2>1, <3>1
  <2> HIDE DEF v, t, w, From
  <2>6. Cardinality(From(j, v)) \in Nat
    BY <2>3, FS_CardinalityType
  <2>7. w.smaller = 0 + Cardinality(From(j, v)) /\ H[w.root].sound = 1
    BY <2>3, <2>5 DEF Inserted
  <2>8. w.smaller = Cardinality(From(j, v))
    BY <2>6, <2>7
  <2>9. h[k] = w
    BY <2>4 DEF w
  <2> HIDE DEF j
  <2>10. /\ h[k] = Counting!insert(j, t, v, 0)
         /\ h[k].root \in Counting!Trees(k)
         /\ h[k].smaller = Cardinality(From(j, v))
         /\ Inserted(H, t, v, 0, h[k])
         /\ H[h[k].root].sound = 1 /\ v \in Int
         /\ Cardinality(From(j, v)) \in Nat
    BY <2>2, <2>4, <2>5, <2>6, <2>7, <2>8, <2>9
  <2> QED BY <2>10 DEF t, v, j
<1>5. ASSUME NEW k \in Nat, \A j \in 0 .. k - 1 : j \in T PROVE k \in T
  <2>1. CASE k = 0
    <3>1. h[0].root = Counting!NULL
      BY <1>2 DEF HasInserted
    <3>2. H[Counting!NULL] = Nothing
      BY <1>3 DEF AreHoldings
    <3>3. \A x \in Int : From(0, x) = {}
      BY <1>1
    <3>4. \A x \in Int : IsFiniteSet(From(0, x)) /\ Cardinality(From(0, x)) = 0
      <4> HIDE DEF From
      <4> QED BY <3>3, FS_EmptySet
    <3>5. H[h[0].root].sound = 1 /\ \A x \in Int : H[h[0].root].below[x] = 0
      BY <3>1, <3>2 DEF Nothing
    <3>6. h[0].root \in Counting!Trees(0)
      BY <3>1, TreesAre
    <3> HIDE DEF From
    <3> QED BY <2>1, <3>4, <3>5, <3>6
  <2>2. CASE k # 0 /\ k <= n
    <3>1. k \in 1 .. n /\ k - 1 \in 0 .. k - 1 /\ n - k + 1 \in 1 .. n /\ k - 1 <= n /\ k - 1 \in Nat
      BY <1>1, <2>2
    <3>2. k - 1 \in T
      BY <1>5, <3>1
    <3> DEFINE v == s[n - k + 1]
    <3>3. h[k].root \in Counting!Trees(k) /\ Inserted(H, h[k - 1].root, v, 0, h[k]) /\ H[h[k].root].sound = 1 /\ v \in Int
      <4> HIDE DEF T, From
      <4> QED BY <1>4, <3>1, <3>2
    <3>4. ASSUME NEW x \in Int
          PROVE  IsFiniteSet(From(k, x)) /\ H[h[k].root].below[x] = Cardinality(From(k, x))
      <4>1. IsFiniteSet(From(k - 1, x)) /\ H[h[k - 1].root].below[x] = Cardinality(From(k - 1, x))
        <5> HIDE DEF From
        <5> QED BY <3>1, <3>2
      <4>2. H[h[k].root].below[x] = H[h[k - 1].root].below[x] + (IF v < x THEN 1 ELSE 0)
        BY <3>3 DEF Inserted
      <4> DEFINE p == n - k + 1
                 F == From(k - 1, x)
      <4>3. n - k + 1 .. n = (n - (k - 1) + 1 .. n) \cup {p} /\ p \notin n - (k - 1) + 1 .. n
        BY <1>1, <3>1
      <4>4. From(k, x) = IF v < x THEN F \cup {p} ELSE F
        BY <4>3
      <4>5. p \notin F
        BY <4>3
      <4> HIDE DEF F, p, v
      <4>6. Cardinality(F) \in Nat /\ IsFiniteSet(F)
        BY <4>1, FS_CardinalityType DEF F
      <4>7. IsFiniteSet(F \cup {p}) /\ Cardinality(F \cup {p}) = Cardinality(F) + 1
        BY <4>5, <4>6, FS_AddElement
      <4> HIDE DEF From
      <4> QED BY <4>1, <4>2, <4>4, <4>6, <4>7 DEF F
    <3> HIDE DEF From
    <3> QED BY <3>3, <3>4
  <2> QED BY <2>1, <2>2
<1>6. \A k \in Nat : k \in T
  <2> HIDE DEF T
  <2> QED BY <1>5, FromSmaller
<1>7. ASSUME NEW p \in 1 .. n
      PROVE  h[n - p + 1].smaller = Cardinality({q \in p + 1 .. Len(s) : s[q] < s[p]})
  <2> DEFINE k == n - p + 1
  <2>1. k \in 1 .. n /\ k - 1 \in Nat /\ n - k + 1 = p /\ n - (k - 1) + 1 = p + 1
    BY <1>1
  <2>2. h[k].smaller = Cardinality(From(k - 1, s[n - k + 1]))
    <3> HIDE DEF T, From, k
    <3> QED BY <1>4, <1>6, <2>1
  <2>3. From(k - 1, s[n - k + 1]) = {q \in p + 1 .. n : s[q] < s[p]}
    <3> HIDE DEF k
    <3> QED BY <2>1
  <2> QED BY <2>2, <2>3 DEF n
<1>8. Counting!SmallerIsRight(s) <=>
          Counting!countSmaller(s) = [p \in DOMAIN s |-> Cardinality({q \in p + 1 .. Len(s) : s[q] < s[p]})]
  BY SameCount DEF Counting!SmallerIsRight
<1> QED BY <1>1, <1>2, <1>7, <1>8

-----------------------------------------------------------------------------
\* src/327.c.  A while loop stops at the first place from which on the numbers are not below
\* the bound, or at the end.
LEMMA StopIs ==
    ASSUME NEW n \in Nat, NEW s \in [1 .. n -> Int], NEW right \in 1 .. n + 1, NEW from \in 1 .. right, NEW bound \in Int
    PROVE  LET p == Counting!Stop(s, from, right, bound)
           IN  /\ p \in from .. right
               /\ p = right \/ s[p] >= bound
               /\ \A q \in from .. p - 1 : s[q] < bound
<1> DEFINE P == {p \in from .. right : p = right \/ s[p] >= bound}
           Is(p) == /\ p = right \/ s[p] >= bound
                    /\ \A q \in from .. p - 1 : s[q] < bound
<1>1. P \in SUBSET Nat /\ right \in P
  OBVIOUS
<1>2. PICK p \in P : \A q \in P : p <= q
  <2> HIDE DEF P
  <2> QED BY <1>1, SmallestOf
<1>3. ASSUME NEW q \in from .. p - 1 PROVE s[q] < bound
  <2>1. q \in from .. right /\ q \in 1 .. n /\ q < p /\ q # right
    BY <1>2
  <2>2. q \notin P
    BY <1>2, <2>1
  <2>3. s[q] \in Int /\ ~(s[q] >= bound)
    BY <2>1, <2>2
  <2> QED BY <2>3
<1>4. p \in from .. right /\ Is(p)
  BY <1>2, <1>3
<1>5. Counting!Stop(s, from, right, bound) = CHOOSE x \in from .. right : Is(x)
  BY DEF Counting!Stop
<1>6. Counting!Stop(s, from, right, bound) \in from .. right /\ Is(Counting!Stop(s, from, right, bound))
  <2> HIDE DEF Is
  <2> QED BY <1>4, <1>5
<1> QED BY <1>6

\* The state of the loop over the left half, and one turn of it.
TurnStates(mid, right) ==
    [k : mid .. right, j : mid .. right, t : mid .. right, cache : Seq(Int), count : Int]
AtFirst(mid, c) == [k |-> mid, j |-> mid, t |-> mid, cache |-> <<>>, count |-> c]
Turned(b, s, right, lower, upper, x) ==
    [k |-> Counting!Stop(s, b.k, right, s[x] + lower),
     j |-> Counting!Stop(s, b.j, right, s[x] + upper + 1),
     t |-> Counting!Stop(s, b.t, right, s[x]),
     count |-> b.count + Counting!Stop(s, b.j, right, s[x] + upper + 1) - Counting!Stop(s, b.k, right, s[x] + lower),
     cache |-> b.cache \o SubSeq(s, b.t, Counting!Stop(s, b.t, right, s[x]) - 1) \o <<s[x]>>]

\* The arguments of mergeCount: two halves of s, and the bounds.
HaveHalves(n, s, left, mid, right, lower, upper) ==
    /\ n \in Nat /\ s \in [1 .. n -> Int]
    /\ left \in 1 .. n + 1 /\ mid \in left .. n + 1 /\ right \in mid .. n + 1
    /\ lower \in Int /\ upper \in Int

LEMMA TurnedIs ==
    ASSUME NEW n, NEW s, NEW left, NEW mid, NEW right, NEW lower, NEW upper,
           HaveHalves(n, s, left, mid, right, lower, upper),
           NEW x \in left .. mid - 1, NEW b \in TurnStates(mid, right)
    PROVE  LET u == Turned(b, s, right, lower, upper, x)
           IN  /\ u \in TurnStates(mid, right)
               /\ u.k \in b.k .. right /\ u.j \in b.j .. right /\ u.t \in b.t .. right
               /\ Len(u.cache) = Len(b.cache) + (u.t - b.t) + 1
               /\ \A p \in 1 .. Len(u.cache) :
                      u.cache[p] = IF p <= Len(b.cache) THEN b.cache[p]
                                   ELSE IF p <= Len(b.cache) + (u.t - b.t) THEN s[b.t + (p - Len(b.cache)) - 1]
                                   ELSE s[x]
<1> DEFINE u == Turned(b, s, right, lower, upper, x)
           K == Counting!Stop(s, b.k, right, s[x] + lower)
           J == Counting!Stop(s, b.j, right, s[x] + upper + 1)
           T == Counting!Stop(s, b.t, right, s[x])
           m == Len(b.cache)
           f == b.t
           c == b.cache
<1>1. /\ n \in Nat /\ s \in [1 .. n -> Int] /\ left \in Int /\ mid \in Int /\ right \in 1 .. n + 1
      /\ x \in 1 .. n /\ s[x] \in Int /\ s[x] + lower \in Int /\ s[x] + upper + 1 \in Int /\ 1 <= mid
  BY DEF HaveHalves
<1>2. /\ b.k \in mid .. right /\ b.j \in mid .. right /\ f \in mid .. right /\ c \in Seq(Int) /\ b.count \in Int
      /\ m \in Nat
  BY DEF TurnStates
<1>3. b.k \in 1 .. right /\ b.j \in 1 .. right /\ f \in 1 .. right
  BY <1>1, <1>2
<1>4. K \in b.k .. right /\ J \in b.j .. right /\ T \in f .. right
  BY <1>1, <1>3, StopIs
<1> HIDE DEF K, J, T, m, f, c
<1>5. u = [k |-> K, j |-> J, t |-> T, count |-> b.count + J - K, cache |-> c \o SubSeq(s, f, T - 1) \o <<s[x]>>]
  BY DEF Turned, K, J, T, f, c
<1> HIDE DEF u
<1> DEFINE e == SubSeq(s, f, T - 1)
           w == T - f
<1>6. /\ e \in Seq(Int) /\ Len(e) = w /\ w \in Nat
      /\ \A p \in 1 .. w : e[p] = s[f + p - 1]
  <2>1. f \in Int /\ T - 1 \in Int /\ (T - 1) - f + 1 = w /\ w \in Nat
    BY <1>3, <1>4
  <2>2. \A p \in f .. T - 1 : s[p] \in Int
    <3> SUFFICES ASSUME NEW p \in f .. T - 1 PROVE s[p] \in Int
      OBVIOUS
    <3>1. p \in 1 .. n
      BY <1>1, <1>3, <1>4
    <3> QED BY <1>1, <3>1
  <2>3. /\ e \in Seq(Int) /\ Len(e) = (IF f <= T - 1 THEN (T - 1) - f + 1 ELSE 0)
        /\ \A p \in 1 .. (T - 1) - f + 1 : e[p] = s[f + p - 1]
    <3> DEFINE z == T - 1
    <3>1. z \in Int
      BY <2>1
    <3> HIDE DEF z
    <3>2. /\ SubSeq(s, f, z) \in Seq(Int) /\ Len(SubSeq(s, f, z)) = (IF f <= z THEN z - f + 1 ELSE 0)
          /\ \A p \in 1 .. z - f + 1 : SubSeq(s, f, z)[p] = s[f + p - 1]
      BY <2>1, <2>2, <3>1, SubSeqProperties DEF z
    <3> QED BY <3>2 DEF z
  <2>4. Len(e) = w
    <3> HIDE DEF e
    <3> QED BY <1>4, <2>1, <2>3
  <2> HIDE DEF e, w
  <2> QED BY <2>1, <2>3, <2>4
<1> HIDE DEF e
<1> DEFINE g == c \o e
<1>7. /\ g \in Seq(Int) /\ Len(g) = m + w
      /\ \A p \in 1 .. m + w : g[p] = IF p <= m THEN c[p] ELSE e[p - m]
  <2>1. c \in Seq(Int) /\ Len(c) = m
    BY <1>2 DEF m, c
  <2> HIDE DEF w
  <2> QED BY <1>6, <2>1, ConcatProperties
<1> HIDE DEF g
<1> DEFINE y == <<s[x]>>
<1>8. y \in Seq(Int) /\ Len(y) = 1 /\ y[1] = s[x]
  BY <1>1
<1> HIDE DEF y
<1> DEFINE z == g \o y
<1>9. /\ z \in Seq(Int) /\ Len(z) = m + w + 1
      /\ \A p \in 1 .. m + w + 1 : z[p] = IF p <= m + w THEN g[p] ELSE y[p - (m + w)]
  <2> HIDE DEF w
  <2>1. /\ z \in Seq(Int) /\ Len(z) = Len(g) + Len(y)
        /\ \A p \in 1 .. Len(g) + Len(y) : z[p] = IF p <= Len(g) THEN g[p] ELSE y[p - Len(g)]
    BY <1>7, <1>8, ConcatProperties
  <2> HIDE DEF z
  <2> QED BY <1>7, <1>8, <2>1
<1>10. u.cache = z
  BY <1>5 DEF z, g, y, e
<1> HIDE DEF z
<1>11. ASSUME NEW p \in 1 .. Len(u.cache)
       PROVE  u.cache[p] = IF p <= m THEN c[p] ELSE IF p <= m + (T - f) THEN s[f + (p - m) - 1] ELSE s[x]
  <2>1. p \in 1 .. m + w + 1 /\ m \in Nat /\ w \in Nat
    BY <1>2, <1>6, <1>9, <1>10
  <2> HIDE DEF w
  <2>2. CASE p <= m
    <3>1. p \in 1 .. m + w
      BY <2>1, <2>2
    <3> QED BY <1>7, <1>9, <1>10, <2>1, <2>2, <3>1
  <2>3. CASE ~(p <= m) /\ p <= m + w
    <3>1. p \in 1 .. m + w /\ p - m \in 1 .. w
      BY <2>1, <2>3
    <3>2. u.cache[p] = e[p - m]
      BY <1>7, <1>9, <1>10, <2>1, <2>3, <3>1
    <3> QED BY <1>6, <2>3, <3>1, <3>2 DEF w
  <2>4. CASE ~(p <= m) /\ ~(p <= m + w)
    <3>1. p = m + w + 1 /\ p - (m + w) = 1
      BY <2>1, <2>4
    <3>2. u.cache[p] = y[p - (m + w)]
      BY <1>9, <1>10, <2>1, <2>4
    <3> QED BY <1>8, <2>4, <3>1, <3>2 DEF w
  <2> QED BY <2>2, <2>3, <2>4 DEF w
<1>12. /\ u.k = K /\ u.j = J /\ u.t = T
       /\ u = [k |-> u.k, j |-> u.j, t |-> u.t, count |-> u.count, cache |-> u.cache]
       /\ u.count = b.count + J - K
  BY <1>5
<1>13. u.count \in Int /\ K \in mid .. right /\ J \in mid .. right /\ T \in mid .. right
  <2>1. K \in mid .. right
    BY <1>1, <1>2, <1>4
  <2>2. J \in mid .. right
    BY <1>1, <1>2, <1>4
  <2>3. T \in mid .. right
    BY <1>1, <1>2, <1>4
  <2>4. b.count + J - K \in Int
    BY <1>1, <1>2, <2>1, <2>2
  <2> QED BY <1>12, <2>1, <2>2, <2>3, <2>4
<1>14. u \in TurnStates(mid, right)
  BY <1>9, <1>10, <1>12, <1>13 DEF TurnStates
<1>15. Len(u.cache) = m + (T - f) + 1
  BY <1>9, <1>10
<1> QED BY <1>4, <1>11, <1>12, <1>14, <1>15 DEF u, m, f, c

\* The states after each turn.
HasTurns(n, s, left, mid, right, lower, upper, c, h) ==
    /\ h[left - 1] = AtFirst(mid, c)
    /\ \A x \in left .. mid - 1 : h[x] = Turned(h[x - 1], s, right, lower, upper, x)
    /\ \A x \in left - 1 .. mid - 1 : h[x] \in TurnStates(mid, right)

LEMMA TurnsAre ==
    ASSUME NEW n, NEW s, NEW left, NEW mid, NEW right, NEW lower, NEW upper,
           HaveHalves(n, s, left, mid, right, lower, upper), NEW c \in Int
    PROVE  \E h : /\ HasTurns(n, s, left, mid, right, lower, upper, c, h)
                  /\ Counting!Turns(s, left, mid, right, lower, upper, c) = h[mid - 1]
<1> DEFINE S == left - 1 .. mid - 1
           X == TurnStates(mid, right)
           base == AtFirst(mid, c)
           m == [x \in S |-> x - (left - 1)]
           step == [x \in S |-> [g \in [S -> X] |->
                       IF x = left - 1 THEN base ELSE Turned(g[x - 1], s, right, lower, upper, x)]]
           Is(h) == h = [x \in S |-> IF x = left - 1 THEN base ELSE Turned(h[x - 1], s, right, lower, upper, x)]
           turn == CHOOSE h : Is(h)
<1>1. left \in Int /\ mid \in Int /\ right \in Int /\ mid <= right /\ left <= mid
  BY DEF HaveHalves
<1>2. base \in X
  BY <1>1 DEF AtFirst, TurnStates
<1>3. \A x \in S : x # left - 1 => x \in left .. mid - 1 /\ x - 1 \in S /\ m[x - 1] < m[x]
  <2> SUFFICES ASSUME NEW x \in S, x # left - 1 PROVE x \in left .. mid - 1 /\ x - 1 \in S /\ m[x - 1] < m[x]
    OBVIOUS
  <2>1. x \in left .. mid - 1 /\ x - 1 \in S
    BY <1>1
  <2>2. m[x] = x - (left - 1) /\ m[x - 1] = (x - 1) - (left - 1)
    BY <2>1
  <2> QED BY <1>1, <2>1, <2>2
<1>4. m \in [S -> Nat]
  BY <1>1
<1> HIDE DEF m
<1>5. step \in [S -> [[S -> X] -> X]]
  <2> SUFFICES ASSUME NEW x \in S, NEW g \in [S -> X], x # left - 1
               PROVE  Turned(g[x - 1], s, right, lower, upper, x) \in X
    <3> HIDE DEF base, X
    <3> QED BY <1>2
  <2>1. g[x - 1] \in X /\ x \in left .. mid - 1
    BY <1>3
  <2> QED BY <2>1, TurnedIs
<1>6. LooksBelow(S, X, m, step)
  <2> SUFFICES ASSUME NEW x \in S, NEW g \in [S -> X], NEW h \in [S -> X],
                      \A y \in S : m[y] < m[x] => g[y] = h[y]
               PROVE  step[x][g] = step[x][h]
    <3> HIDE DEF step, S, X
    <3> QED BY <1>4, <1>5 DEF LooksBelow
  <2>1. x # left - 1 => g[x - 1] = h[x - 1]
    BY <1>3
  <2> HIDE DEF base, X, S
  <2> QED BY <2>1
<1>7. PICK h \in [S -> X] : \A x \in S : h[x] = step[x][h]
  <2>1. X # {}
    BY <1>2
  <2> HIDE DEF S, step, X
  <2> QED BY <1>6, <2>1, SolutionExists
<1>8. Is(h)
  <2> HIDE DEF S, X, base
  <2>1. \A x \in S : h[x] = IF x = left - 1 THEN base ELSE Turned(h[x - 1], s, right, lower, upper, x)
    BY <1>7
  <2>2. h = [x \in S |-> h[x]]
    BY <1>7
  <2> QED BY <2>1, <2>2
<1>9. Is(turn)
  <2> HIDE DEF Is
  <2> QED BY <1>8
<1>10. Counting!Turns(s, left, mid, right, lower, upper, c) = turn[mid - 1]
  BY DEF Counting!Turns, Turned, AtFirst
<1> HIDE DEF turn
<1>11. \A x \in S : turn[x] = IF x = left - 1 THEN base ELSE Turned(turn[x - 1], s, right, lower, upper, x)
  <2> HIDE DEF S, base
  <2> QED BY <1>9
<1> DEFINE U == {d \in Nat : \A x \in S : m[x] = d => turn[x] \in X}
<1>12. ASSUME NEW d \in Nat, \A k \in 0 .. d - 1 : k \in U PROVE d \in U
  <2> SUFFICES ASSUME NEW x \in S, m[x] = d PROVE turn[x] \in X
    OBVIOUS
  <2>1. CASE x = left - 1
    <3> HIDE DEF X, base, S
    <3> QED BY <1>2, <1>11, <2>1
  <2>2. CASE x # left - 1
    <3>1. x \in left .. mid - 1 /\ x - 1 \in S /\ m[x - 1] < d /\ m[x - 1] \in Nat
      BY <1>3, <1>4, <2>2
    <3>2. m[x - 1] \in 0 .. d - 1
      BY <3>1
    <3>3. turn[x - 1] \in X
      <4> HIDE DEF X, S
      <4> QED BY <1>12, <3>1, <3>2
    <3>4. Turned(turn[x - 1], s, right, lower, upper, x) \in X
      BY <3>1, <3>3, TurnedIs
    <3> HIDE DEF X, base, S
    <3> QED BY <1>11, <2>2, <3>4
  <2> QED BY <2>1, <2>2
<1>13. \A d \in Nat : d \in U
  <2> HIDE DEF U
  <2> QED BY <1>12, FromSmaller
<1>14. \A x \in S : turn[x] \in X
  <2> HIDE DEF X, S
  <2> QED BY <1>4, <1>13
<1>15. HasTurns(n, s, left, mid, right, lower, upper, c, turn)
  <2>1. left - 1 \in S /\ \A x \in left .. mid - 1 : x \in S /\ x # left - 1
    BY <1>1
  <2>2. turn[left - 1] = base
    <3> HIDE DEF X, base, S
    <3> QED BY <1>11, <2>1
  <2>3. \A x \in left .. mid - 1 : turn[x] = Turned(turn[x - 1], s, right, lower, upper, x)
    <3> HIDE DEF X, base, S
    <3> QED BY <1>11, <2>1
  <2> HIDE DEF X
  <2> QED BY <1>14, <2>2, <2>3 DEF HasTurns, X
<1> QED BY <1>10, <1>15

-----------------------------------------------------------------------------
\* From left to right - 1 the numbers of s ascend.
Sorted(s, left, right) == \A p, q \in left .. right - 1 : p <= q => s[p] <= s[q]

\* All before place p is below the bound, and nothing from p on.
Parts(s, left, right, p, bound) ==
    \A q \in left .. right - 1 : s[q] < bound <=> q < p

LEMMA StopParts ==
    ASSUME NEW n, NEW s, NEW left, NEW mid, NEW right, NEW lower, NEW upper,
           HaveHalves(n, s, left, mid, right, lower, upper), Sorted(s, mid, right),
           NEW from \in mid .. right, NEW bound \in Int,
           \A q \in mid .. from - 1 : s[q] < bound
    PROVE  Parts(s, mid, right, Counting!Stop(s, from, right, bound), bound)
<1> DEFINE p == Counting!Stop(s, from, right, bound)
<1>1. /\ n \in Nat /\ s \in [1 .. n -> Int] /\ mid \in 1 .. n + 1 /\ right \in 1 .. n + 1 /\ from \in 1 .. right
      /\ mid \in Int
  BY DEF HaveHalves
<1>2. p \in from .. right /\ (p = right \/ s[p] >= bound) /\ \A q \in from .. p - 1 : s[q] < bound
  BY <1>1, StopIs
<1> HIDE DEF p
<1> SUFFICES ASSUME NEW q \in mid .. right - 1 PROVE s[q] < bound <=> q < p
  BY DEF Parts, p
<1>3. q \in 1 .. n /\ s[q] \in Int
  BY <1>1
<1>4. CASE q < p
  <2>1. q \in mid .. from - 1 \/ q \in from .. p - 1
    BY <1>1, <1>2, <1>4
  <2> QED BY <1>2, <1>4, <2>1
<1>5. CASE ~(q < p)
  <2>1. p \in mid .. right - 1 /\ p <= q /\ p # right
    BY <1>1, <1>2, <1>5
  <2>2. s[p] <= s[q] /\ s[p] \in Int /\ s[p] >= bound
    BY <1>1, <1>2, <2>1 DEF Sorted
  <2> QED BY <1>3, <1>5, <2>2
<1> QED BY <1>4, <1>5

\* Where the numbers of a sequence come from: no place of s is named twice.
ComesFrom(s, c, o, A) ==
    /\ o \in [1 .. Len(c) -> A]
    /\ \A p \in 1 .. Len(c) : c[p] = s[o[p]]
    /\ \A p, q \in 1 .. Len(c) : o[p] = o[q] => p = q

Ascending(c, k) == \A p, q \in 1 .. k : p <= q => c[p] <= c[q]

\* After the turn for place x: b has the places where the bounds for s[x] divide the right
\* half, and in its cache all numbers of the left half up to x and of the right half below.
MergedTo(s, left, mid, right, lower, upper, x, b) ==
    /\ x >= left => /\ Parts(s, mid, right, b.k, s[x] + lower)
                    /\ Parts(s, mid, right, b.j, s[x] + upper + 1)
                    /\ Parts(s, mid, right, b.t, s[x])
    /\ x < left => b.k = mid /\ b.j = mid /\ b.t = mid
    /\ Len(b.cache) = (x - left + 1) + (b.t - mid)
    /\ Ascending(b.cache, Len(b.cache))
    /\ \E o : ComesFrom(s, b.cache, o, (left .. x) \cup (mid .. b.t - 1))

LEMMA MergedAtFirst ==
    ASSUME NEW n, NEW s, NEW left, NEW mid, NEW right, NEW lower, NEW upper,
           HaveHalves(n, s, left, mid, right, lower, upper), NEW c
    PROVE  MergedTo(s, left, mid, right, lower, upper, left - 1, AtFirst(mid, c))
<1> DEFINE b == AtFirst(mid, c)
           e == <<>>
<1>1. b.k = mid /\ b.j = mid /\ b.t = mid /\ b.cache = e
  BY DEF AtFirst
<1>2. left \in Int /\ mid \in Int /\ Len(e) = 0
  BY DEF HaveHalves
<1> HIDE DEF b
<1>3. ComesFrom(s, e, e, (left .. left - 1) \cup (mid .. mid - 1))
  <2>1. e \in [1 .. 0 -> (left .. left - 1) \cup (mid .. mid - 1)]
    OBVIOUS
  <2> HIDE DEF e
  <2> QED BY <1>2, <2>1 DEF ComesFrom
<1>4. Len(b.cache) = 0 /\ (left - 1) - left + 1 = 0 /\ b.t - mid = 0 /\ ~(left - 1 >= left)
  <2> HIDE DEF e
  <2> QED BY <1>1, <1>2
<1>5. Ascending(b.cache, Len(b.cache))
  BY <1>4 DEF Ascending
<1>6. \E o : ComesFrom(s, b.cache, o, (left .. left - 1) \cup (mid .. b.t - 1))
  <2> HIDE DEF e
  <2> QED BY <1>1, <1>3
<1>7. MergedTo(s, left, mid, right, lower, upper, left - 1, b)
  BY <1>1, <1>2, <1>4, <1>5, <1>6 DEF MergedTo
<1> QED BY <1>7 DEF b

\* A place that divides the right half for one bound is where to look for the next.
LEMMA PlaceOn ==
    ASSUME NEW n, NEW s, NEW left, NEW mid, NEW right, NEW lower, NEW upper,
           HaveHalves(n, s, left, mid, right, lower, upper), Sorted(s, mid, right),
           NEW from \in mid .. right, NEW old \in Int, NEW bound \in Int, old <= bound,
           from = mid \/ Parts(s, mid, right, from, old)
    PROVE  Parts(s, mid, right, Counting!Stop(s, from, right, bound), bound)
<1>1. n \in Nat /\ s \in [1 .. n -> Int] /\ mid \in 1 .. n + 1 /\ right \in 1 .. n + 1 /\ mid \in Int /\ right \in Int
  BY DEF HaveHalves
<1>2. ASSUME NEW q \in mid .. from - 1 PROVE s[q] < bound
  <2>1. q \in mid .. right - 1 /\ q < from /\ from # mid /\ q \in 1 .. n
    BY <1>1
  <2>2. s[q] < old /\ s[q] \in Int
    BY <1>1, <2>1 DEF Parts
  <2> QED BY <2>2
<1> QED BY <1>2, StopParts

\* e is c, then the w numbers of s from place f on, then s[x].
Extends(s, e, c, m, f, w, x) ==
    /\ m = Len(c) /\ Len(e) = m + w + 1
    /\ \A p \in 1 .. m + w + 1 :
           e[p] = IF p <= m THEN c[p] ELSE IF p <= m + w THEN s[f + (p - m) - 1] ELSE s[x]

\* One turn: c up to place m, then the numbers from place f up to f + w - 1 of s, then s[x].
LEMMA CacheOn ==
    ASSUME NEW n \in Nat, NEW s \in [1 .. n -> Int], NEW left \in 1 .. n + 1, NEW mid \in left .. n + 1,
           NEW right \in mid .. n + 1, Sorted(s, left, mid), Sorted(s, mid, right),
           NEW x \in left .. mid - 1, NEW f \in mid .. right, NEW w \in Nat, f + w <= right,
           NEW m \in Nat, NEW c, NEW e, Extends(s, e, c, m, f, w, x),
           Ascending(c, m),
           NEW o, ComesFrom(s, c, o, (left .. x - 1) \cup (mid .. f - 1)),
           x > left => Parts(s, mid, right, f, s[x - 1]),
           Parts(s, mid, right, f + w, s[x])
    PROVE  /\ Ascending(e, m + w + 1)
           /\ \E d : ComesFrom(s, e, d, (left .. x) \cup (mid .. f + w - 1))
<1> DEFINE A == (left .. x) \cup (mid .. f + w - 1)
           k == m + w + 1
           d == [p \in 1 .. k |-> IF p <= m THEN o[p] ELSE IF p <= m + w THEN f + (p - m) - 1 ELSE x]
<1>1. /\ left \in Int /\ mid \in Int /\ right \in Int /\ x \in Int /\ f \in Int /\ k \in Int
      /\ left >= 1 /\ mid <= f /\ x < mid /\ left <= x /\ right <= n + 1 /\ x \in 1 .. n /\ s[x] \in Int
  OBVIOUS
<1>2. ASSUME NEW p \in 1 .. m
      PROVE  /\ o[p] \in (left .. x - 1) \cup (mid .. f - 1) /\ c[p] = s[o[p]]
             /\ \A q \in 1 .. m : o[p] = o[q] => p = q
  BY DEF ComesFrom, Extends
<1>3. ASSUME NEW a \in A PROVE a \in 1 .. n /\ s[a] \in Int /\ s[a] <= s[x]
  <2>1. CASE a \in left .. x
    <3>1. a \in left .. mid - 1 /\ a <= x /\ a \in 1 .. n /\ x \in left .. mid - 1
      BY <1>1, <2>1
    <3>2. s[a] <= s[x]
      BY <3>1 DEF Sorted
    <3> QED BY <3>1, <3>2
  <2>2. CASE a \in mid .. f + w - 1
    <3>1. a \in mid .. right - 1 /\ a < f + w /\ a \in 1 .. n
      BY <1>1, <2>2
    <3>2. s[a] < s[x]
      BY <3>1 DEF Parts
    <3>3. s[a] \in Int
      BY <3>1
    <3> QED BY <1>1, <3>1, <3>2, <3>3
  <2> QED BY <2>1, <2>2
<1>4. ASSUME NEW p \in 1 .. k
      PROVE  /\ p <= m => p \in 1 .. m /\ d[p] = o[p] /\ e[p] = c[p]
             /\ ~(p <= m) /\ p <= m + w => d[p] = f + (p - m) - 1 /\ e[p] = s[f + (p - m) - 1]
             /\ ~(p <= m + w) => p = m + w + 1 /\ d[p] = x /\ e[p] = s[x]
  <2> HIDE DEF d
  <2>1. p \in Int /\ (p <= m => p <= m + w) /\ (p <= m => p \in 1 .. m) /\ (~(p <= m + w) => p = m + w + 1)
    OBVIOUS
  <2>2. d[p] = IF p <= m THEN o[p] ELSE IF p <= m + w THEN f + (p - m) - 1 ELSE x
    BY DEF d
  <2>3. e[p] = IF p <= m THEN c[p] ELSE IF p <= m + w THEN s[f + (p - m) - 1] ELSE s[x]
    BY DEF Extends
  <2> HIDE DEF k
  <2> QED BY <2>1, <2>2, <2>3
<1> HIDE DEF d
<1> DEFINE Early(p) == p \in 1 .. m /\ d[p] = o[p] /\ e[p] = c[p] /\ d[p] \in (left .. x - 1) \cup (mid .. f - 1)
           Middle(p) == p \in m + 1 .. m + w /\ d[p] = f + (p - m) - 1 /\ d[p] \in f .. f + w - 1
           Late(p) == p = m + w + 1 /\ d[p] = x
<1>5. ASSUME NEW p \in 1 .. k
      PROVE  (Early(p) \/ Middle(p) \/ Late(p)) /\ d[p] \in A /\ e[p] = s[d[p]]
  <2>1. CASE p <= m
    <3>1. Early(p) /\ e[p] = s[d[p]]
      BY <1>2, <1>4, <2>1
    <3> DEFINE v == d[p]
    <3>2. v \in (left .. x - 1) \cup (mid .. f - 1)
      BY <3>1
    <3> HIDE DEF v
    <3>3. v \in A
      BY <1>1, <3>2
    <3> QED BY <3>1, <3>3 DEF v
  <2>2. CASE ~(p <= m) /\ p <= m + w
    <3> DEFINE v == d[p]
    <3>1. v = f + (p - m) - 1 /\ e[p] = s[v]
      BY <1>4, <2>2
    <3> HIDE DEF v
    <3>2. p \in m + 1 .. m + w /\ v \in f .. f + w - 1
      BY <1>1, <2>2, <3>1
    <3>3. v \in A
      BY <1>1, <3>2
    <3> QED BY <3>1, <3>2, <3>3 DEF v
  <2>3. CASE ~(p <= m + w)
    <3>1. p = m + w + 1 /\ d[p] = x /\ e[p] = s[x]
      BY <1>4, <2>3
    <3>2. x \in A
      BY <1>1
    <3> QED BY <3>1, <3>2
  <2> QED BY <2>1, <2>2, <2>3
<1>6. ASSUME NEW p \in 1 .. k, NEW q \in 1 .. k, d[p] = d[q]
      PROVE  p = q
  <2> DEFINE v == d[p]
  <2>1. /\ p \in Int /\ q \in Int
        /\ Early(p) => v \in (left .. x - 1) \cup (mid .. f - 1)
        /\ Early(q) => v \in (left .. x - 1) \cup (mid .. f - 1)
        /\ Middle(p) => v = f + (p - m) - 1 /\ v \in f .. f + w - 1
        /\ Middle(q) => v = f + (q - m) - 1 /\ v \in f .. f + w - 1
        /\ Late(p) => v = x /\ p = m + w + 1
        /\ Late(q) => v = x /\ q = m + w + 1
    BY <1>6
  <2>2. Early(p) /\ Early(q) => p = q
    BY <1>2, <1>6
  <2>3. Early(p) \/ Middle(p) \/ Late(p)
    BY <1>5
  <2>4. Early(q) \/ Middle(q) \/ Late(q)
    BY <1>5
  <2> HIDE DEF v, Early, Middle, Late
  <2>5. CASE Middle(p) /\ Middle(q)
    BY <1>1, <2>1, <2>5
  <2>10. v \in (left .. x - 1) \cup (mid .. f - 1) => v < f /\ v # x
    <3>1. CASE v \in left .. x - 1
      BY <1>1, <3>1
    <3>2. CASE v \in mid .. f - 1
      BY <1>1, <3>2
    <3> QED BY <3>1, <3>2
  <2>11. v \in f .. f + w - 1 => ~(v < f) /\ v # x
    BY <1>1
  <2>6. ~(Early(p) /\ Middle(q)) /\ ~(Middle(p) /\ Early(q))
    BY <2>1, <2>10, <2>11
  <2>7. ~(Early(p) /\ Late(q)) /\ ~(Late(p) /\ Early(q))
    BY <2>1, <2>10
  <2>8. ~(Middle(p) /\ Late(q)) /\ ~(Late(p) /\ Middle(q))
    BY <2>1, <2>11
  <2>9. Late(p) /\ Late(q) => p = q
    BY <2>1
  <2> QED BY <2>2, <2>3, <2>4, <2>5, <2>6, <2>7, <2>8, <2>9
<1>7. ComesFrom(s, e, d, A)
  <2>1. d \in [1 .. k -> A]
    <3>1. d = [p \in 1 .. k |-> d[p]]
      BY DEF d
    <3> HIDE DEF A, k, Early, Middle, Late
    <3> QED BY <1>5, <3>1
  <2>2. Len(e) = k
    BY DEF Extends
  <2> HIDE DEF A, k, Early, Middle, Late
  <2> QED BY <1>5, <1>6, <2>1, <2>2 DEF ComesFrom
<1>8. ASSUME NEW p \in 1 .. k, NEW q \in 1 .. k, p <= q
      PROVE  e[p] <= e[q]
  <2> DEFINE a == d[p]
             g == d[q]
  <2>1. /\ e[p] = s[a] /\ e[q] = s[g] /\ a \in A /\ g \in A /\ p \in Int /\ q \in Int
        /\ Early(p) => p \in 1 .. m /\ a \in (left .. x - 1) \cup (mid .. f - 1) /\ e[p] = c[p]
        /\ Early(q) => q \in 1 .. m /\ e[q] = c[q]
        /\ Middle(p) => p \in m + 1 .. m + w /\ a = f + (p - m) - 1 /\ a \in f .. f + w - 1
        /\ Middle(q) => q \in m + 1 .. m + w /\ g = f + (q - m) - 1 /\ g \in f .. f + w - 1
        /\ Late(p) => p = m + w + 1
        /\ Late(q) => g = x
    BY <1>5
  <2>2. s[a] \in Int /\ s[g] \in Int /\ s[a] <= s[x]
    BY <1>3, <2>1
  <2>3. Early(p) \/ Middle(p) \/ Late(p)
    BY <1>5
  <2>4. Early(q) \/ Middle(q) \/ Late(q)
    BY <1>5
  <2> HIDE DEF a, g, Early, Middle, Late
  <2>5. CASE Late(q)
    BY <2>1, <2>2, <2>5
  <2>6. CASE Early(q)
    <3>1. ~Middle(p) /\ ~Late(p)
      BY <1>8, <2>1, <2>6
    <3>2. p \in 1 .. m /\ q \in 1 .. m /\ e[p] = c[p] /\ e[q] = c[q]
      BY <2>1, <2>3, <2>6, <3>1
    <3> QED BY <1>8, <3>2 DEF Ascending
  <2>7. CASE Middle(q)
    <3>1. g \in mid .. right - 1 /\ ~(g < f)
      BY <1>1, <2>1, <2>7
    <3>2. ~Late(p)
      BY <1>8, <2>1, <2>7
    <3>3. CASE Early(p) /\ a \in left .. x - 1
      <4>1. a \in left .. mid - 1 /\ x - 1 \in left .. mid - 1 /\ a <= x - 1 /\ x > left /\ x - 1 \in 1 .. n
        BY <1>1, <3>3
      <4>2. s[a] <= s[x - 1] /\ s[x - 1] \in Int
        BY <4>1 DEF Sorted
      <4>3. ~(s[g] < s[x - 1])
        BY <3>1, <4>1 DEF Parts
      <4>4. \A uu, vv, ww \in Int : uu <= vv /\ ~(ww < vv) => uu <= ww
        OBVIOUS
      <4>6. s[a] <= s[g]
        BY <2>2, <4>2, <4>3, <4>4
      <4> QED BY <2>1, <4>6
    <3>4. CASE Early(p) /\ a \in mid .. f - 1
      <4>1. a \in mid .. right - 1 /\ a <= g
        BY <1>1, <3>1, <3>4
      <4>2. s[a] <= s[g]
        BY <3>1, <4>1 DEF Sorted
      <4> QED BY <2>1, <4>2
    <3>5. CASE Middle(p)
      <4>1. a \in f .. f + w - 1 /\ a = f + (p - m) - 1 /\ g = f + (q - m) - 1
        BY <2>1, <2>7, <3>5
      <4>3. a \in mid .. right - 1
        BY <1>1, <4>1
      <4>4. a <= g
        BY <1>1, <1>8, <2>1, <4>1
      <4>2. s[a] <= s[g]
        BY <3>1, <4>3, <4>4 DEF Sorted
      <4> QED BY <2>1, <4>2
    <3>6. Early(p) => a \in left .. x - 1 \/ a \in mid .. f - 1
      BY <2>1
    <3> QED BY <2>3, <3>2, <3>3, <3>4, <3>5, <3>6
  <2> QED BY <2>4, <2>5, <2>6, <2>7
<1>9. \E h : ComesFrom(s, e, h, A)
  BY <1>7
<1> QED BY <1>8, <1>9 DEF Ascending

LEMMA MergedOn ==
    ASSUME NEW n, NEW s, NEW left, NEW mid, NEW right, NEW lower, NEW upper,
           HaveHalves(n, s, left, mid, right, lower, upper),
           Sorted(s, left, mid), Sorted(s, mid, right),
           NEW x \in left .. mid - 1, NEW b \in TurnStates(mid, right),
           MergedTo(s, left, mid, right, lower, upper, x - 1, b)
    PROVE  MergedTo(s, left, mid, right, lower, upper, x, Turned(b, s, right, lower, upper, x))
<1> DEFINE u == Turned(b, s, right, lower, upper, x)
           m == Len(b.cache)
           f == b.t
           t == u.t
           w == t - f
<1>1. /\ n \in Nat /\ s \in [1 .. n -> Int] /\ left \in 1 .. n + 1 /\ mid \in left .. n + 1 /\ right \in mid .. n + 1
      /\ left \in Int /\ mid \in Int /\ right \in Int /\ left <= mid /\ mid <= right
      /\ lower \in Int /\ upper \in Int /\ x \in 1 .. n /\ s[x] \in Int /\ x \in Int
  BY DEF HaveHalves
<1>2. /\ b.k \in mid .. right /\ b.j \in mid .. right /\ f \in mid .. right /\ b.cache \in Seq(Int) /\ m \in Nat
  BY DEF TurnStates
<1>3. /\ u \in TurnStates(mid, right) /\ t \in f .. right
      /\ Len(u.cache) = m + w + 1
      /\ \A p \in 1 .. Len(u.cache) :
             u.cache[p] = IF p <= m THEN b.cache[p] ELSE IF p <= m + w THEN s[f + (p - m) - 1] ELSE s[x]
  BY TurnedIs
<1>4. /\ u.k = Counting!Stop(s, b.k, right, s[x] + lower)
      /\ u.j = Counting!Stop(s, b.j, right, s[x] + upper + 1)
      /\ t = Counting!Stop(s, f, right, s[x])
  BY DEF Turned
<1> HIDE DEF u
<1>5. ASSUME x > left
      PROVE  /\ Parts(s, mid, right, b.k, s[x - 1] + lower)
             /\ Parts(s, mid, right, b.j, s[x - 1] + upper + 1)
             /\ Parts(s, mid, right, f, s[x - 1])
             /\ s[x - 1] \in Int /\ s[x - 1] <= s[x]
  <2>1. x - 1 \in left .. mid - 1 /\ x \in left .. mid - 1 /\ x - 1 <= x /\ x - 1 >= left /\ x - 1 \in 1 .. n
    BY <1>1, <1>5
  <2>2. s[x - 1] \in Int /\ s[x - 1] <= s[x]
    BY <1>1, <2>1 DEF Sorted
  <2> QED BY <2>1, <2>2 DEF MergedTo
<1>6. ASSUME ~(x > left)
      PROVE  b.k = mid /\ b.j = mid /\ f = mid
  <2>1. x - 1 < left
    BY <1>1, <1>6
  <2> QED BY <2>1 DEF MergedTo
<1>7. /\ Parts(s, mid, right, u.k, s[x] + lower)
      /\ Parts(s, mid, right, u.j, s[x] + upper + 1)
      /\ Parts(s, mid, right, t, s[x])
  <2> DEFINE lo == s[x] + lower
             up == s[x] + upper + 1
             at == s[x]
             ol == IF x > left THEN s[x - 1] + lower ELSE lo
             ou == IF x > left THEN s[x - 1] + upper + 1 ELSE up
             oa == IF x > left THEN s[x - 1] ELSE at
  <2>1. lo \in Int /\ up \in Int /\ at \in Int
    BY <1>1
  <2>2. ol \in Int /\ ou \in Int /\ oa \in Int /\ ol <= lo /\ ou <= up /\ oa <= at
    <3> DEFINE y == s[x - 1]
               v == s[x]
    <3>1. x > left => y \in Int /\ y <= v
      BY <1>5
    <3>2. v \in Int
      BY <1>1
    <3> HIDE DEF y, v
    <3>3. /\ (IF x > left THEN y + lower ELSE v + lower) \in Int
          /\ (IF x > left THEN y + upper + 1 ELSE v + upper + 1) \in Int
          /\ (IF x > left THEN y ELSE v) \in Int
          /\ (IF x > left THEN y + lower ELSE v + lower) <= v + lower
          /\ (IF x > left THEN y + upper + 1 ELSE v + upper + 1) <= v + upper + 1
          /\ (IF x > left THEN y ELSE v) <= v
      <4>1. lower \in Int /\ upper \in Int
        BY <1>1
      <4>2. CASE x > left
        <5>1. y \in Int /\ y <= v
          BY <3>1, <4>2
        <5>2. y + lower \in Int /\ y + upper + 1 \in Int /\ y + lower <= v + lower /\ y + upper + 1 <= v + upper + 1
          BY <3>2, <4>1, <5>1
        <5> QED BY <4>2, <5>1, <5>2
      <4>3. CASE ~(x > left)
        <5>1. v + lower \in Int /\ v + upper + 1 \in Int /\ v + lower <= v + lower /\ v + upper + 1 <= v + upper + 1
              /\ v <= v
          BY <3>2, <4>1
        <5> QED BY <3>2, <4>3, <5>1
      <4> QED BY <4>2, <4>3
    <3> QED BY <3>3 DEF y, v
  <2>3. /\ b.k = mid \/ Parts(s, mid, right, b.k, ol)
        /\ b.j = mid \/ Parts(s, mid, right, b.j, ou)
        /\ f = mid \/ Parts(s, mid, right, f, oa)
    <3> HIDE DEF f
    <3> QED BY <1>5, <1>6
  <2>4. u.k = Counting!Stop(s, b.k, right, lo) /\ u.j = Counting!Stop(s, b.j, right, up) /\ t = Counting!Stop(s, f, right, at)
    BY <1>4
  <2> HIDE DEF lo, up, at, ol, ou, oa, f, t
  <2>5. Parts(s, mid, right, u.k, lo)
    BY <1>2, <2>1, <2>2, <2>3, <2>4, PlaceOn
  <2>6. Parts(s, mid, right, u.j, up)
    BY <1>2, <2>1, <2>2, <2>3, <2>4, PlaceOn
  <2>7. Parts(s, mid, right, t, at)
    BY <1>2, <2>1, <2>2, <2>3, <2>4, PlaceOn
  <2> QED BY <2>5, <2>6, <2>7 DEF lo, up, at
<1>8. PICK o : ComesFrom(s, b.cache, o, (left .. x - 1) \cup (mid .. f - 1))
  BY DEF MergedTo
<1>9. m = (x - 1 - left + 1) + (f - mid) /\ Ascending(b.cache, m)
  BY DEF MergedTo
<1>10. Extends(s, u.cache, b.cache, m, f, w, x)
  <2> HIDE DEF w, f
  <2> QED BY <1>3 DEF Extends
<1> HIDE DEF m, f, t
<1>11. w \in Nat /\ f + w = t /\ f + w <= right /\ f \in mid .. right
  BY <1>1, <1>2, <1>3
<1> HIDE DEF w
<1>12. /\ Ascending(u.cache, m + w + 1)
       /\ \E d : ComesFrom(s, u.cache, d, (left .. x) \cup (mid .. t - 1))
  <2>1. Parts(s, mid, right, f + w, s[x])
    BY <1>7, <1>11
  <2>2. x > left => Parts(s, mid, right, f, s[x - 1])
    BY <1>5
  <2> DEFINE c == b.cache
             e == u.cache
  <2>3. Extends(s, e, c, m, f, w, x) /\ Ascending(c, m) /\ ComesFrom(s, c, o, (left .. x - 1) \cup (mid .. f - 1))
    BY <1>8, <1>9, <1>10
  <2>4. m \in Nat
    BY <1>2
  <2> HIDE DEF c, e
  <2>5. /\ Ascending(e, m + w + 1)
        /\ \E d : ComesFrom(s, e, d, (left .. x) \cup (mid .. f + w - 1))
    BY <1>1, <1>11, <2>1, <2>2, <2>3, <2>4, CacheOn
  <2>6. f + w = t /\ mid .. f + w - 1 = mid .. t - 1
    BY <1>11
  <2> QED BY <2>5, <2>6 DEF e
<1>13. Len(u.cache) = (x - left + 1) + (t - mid)
  <2>1. Len(u.cache) = m + w + 1
    BY <1>3
  <2> QED BY <1>1, <1>2, <1>9, <1>11, <2>1
<1>14. ~(x < left) /\ Len(u.cache) = m + w + 1
  BY <1>1, <1>3
<1>15. MergedTo(s, left, mid, right, lower, upper, x, u)
  <2>1. t = u.t
    BY DEF t
  <2>2. /\ x >= left => /\ Parts(s, mid, right, u.k, s[x] + lower)
                        /\ Parts(s, mid, right, u.j, s[x] + upper + 1)
                        /\ Parts(s, mid, right, u.t, s[x])
        /\ x < left => u.k = mid /\ u.j = mid /\ u.t = mid
        /\ Len(u.cache) = (x - left + 1) + (u.t - mid)
        /\ Ascending(u.cache, Len(u.cache))
        /\ \E d : ComesFrom(s, u.cache, d, (left .. x) \cup (mid .. u.t - 1))
    BY <1>7, <1>12, <1>13, <1>14, <2>1
  <2> QED BY <2>2 DEF MergedTo
<1> QED BY <1>15 DEF u

\* The pairs with one place in the left half, up to x, and one in the right half, whose
\* difference is within the bounds.
PairsTo(s, left, x, mid, right, lower, upper) ==
    {p \in (left .. x) \X (mid .. right - 1) : s[p[2]] - s[p[1]] \in lower .. upper}

LEMMA PlacesBetween ==
    ASSUME NEW n, NEW s, NEW left, NEW mid, NEW right, NEW lower, NEW upper,
           HaveHalves(n, s, left, mid, right, lower, upper), lower <= upper,
           NEW x \in left .. mid - 1, NEW k \in mid .. right, NEW j \in mid .. right,
           Parts(s, mid, right, k, s[x] + lower), Parts(s, mid, right, j, s[x] + upper + 1)
    PROVE  k <= j /\ {q \in mid .. right - 1 : s[q] - s[x] \in lower .. upper} = k .. j - 1
<1>1. /\ n \in Nat /\ s \in [1 .. n -> Int] /\ mid \in 1 .. n + 1 /\ right \in 1 .. n + 1
      /\ mid \in Int /\ right \in Int /\ lower \in Int /\ upper \in Int /\ x \in 1 .. n /\ s[x] \in Int
      /\ k \in Int /\ j \in Int
  BY DEF HaveHalves
<1>2. ASSUME NEW q \in mid .. right - 1
      PROVE  /\ s[q] - s[x] \in lower .. upper <=> q \in k .. j - 1
             /\ q < k => q < j
  <2> DEFINE y == s[q]
             v == s[x]
  <2>1. y \in Int /\ v \in Int /\ q \in Int
    BY <1>1
  <2>2. (y < v + lower <=> q < k) /\ (y < v + upper + 1 <=> q < j)
    BY DEF Parts
  <2> HIDE DEF y, v
  <2>3. (y - v \in lower .. upper <=> q \in k .. j - 1) /\ (q < k => q < j)
    BY <1>1, <2>1, <2>2
  <2> QED BY <2>3 DEF y, v
<1>3. k <= j
  <2> SUFFICES ASSUME j < k PROVE FALSE
    BY <1>1
  <2>1. j \in mid .. right - 1
    BY <1>1
  <2> QED BY <1>1, <1>2, <2>1
<1>4. k .. j - 1 \subseteq mid .. right - 1
  BY <1>1
<1> QED BY <1>2, <1>3, <1>4

LEMMA PairsOn ==
    ASSUME NEW n, NEW s, NEW left, NEW mid, NEW right, NEW lower, NEW upper,
           HaveHalves(n, s, left, mid, right, lower, upper), lower <= upper,
           NEW x \in left .. mid - 1, NEW k \in mid .. right, NEW j \in mid .. right,
           Parts(s, mid, right, k, s[x] + lower), Parts(s, mid, right, j, s[x] + upper + 1)
    PROVE  LET before == PairsTo(s, left, x - 1, mid, right, lower, upper)
               after == PairsTo(s, left, x, mid, right, lower, upper)
           IN  IsFiniteSet(before) /\ Cardinality(after) = Cardinality(before) + j - k
<1> DEFINE before == PairsTo(s, left, x - 1, mid, right, lower, upper)
           after == PairsTo(s, left, x, mid, right, lower, upper)
           T == {x} \X (k .. j - 1)
<1>1. left \in Int /\ mid \in Int /\ right \in Int /\ x \in Int /\ k \in Int /\ j \in Int
  BY DEF HaveHalves
<1>2. k <= j /\ {q \in mid .. right - 1 : s[q] - s[x] \in lower .. upper} = k .. j - 1
  BY PlacesBetween
<1>3. before \cap T = {}
  BY <1>1 DEF PairsTo
<1>4. after = before \cup T
  <2>1. left .. x = (left .. x - 1) \cup {x}
    BY <1>1
  <2> DEFINE L == left .. x
             K == left .. x - 1
             R == mid .. right - 1
             I == lower .. upper
             M == k .. j - 1
  <2>2. L = K \cup {x} /\ \A q : q \in M <=> q \in R /\ s[q] - s[x] \in I
    BY <1>2, <2>1
  <2>3. /\ after = {p \in L \X R : s[p[2]] - s[p[1]] \in I}
        /\ before = {p \in K \X R : s[p[2]] - s[p[1]] \in I}
        /\ T = {x} \X M
    BY DEF PairsTo
  <2> HIDE DEF L, K, R, I, M, after, before, T
  <2> QED BY <2>2, <2>3
<1>5. IsFiniteSet(before)
  <2>1. IsFiniteSet(left .. x - 1) /\ IsFiniteSet(mid .. right - 1)
    <3>1. x - 1 \in Int /\ right - 1 \in Int
      BY <1>1
    <3> QED BY <1>1, <3>1, FS_Interval
  <2>2. IsFiniteSet((left .. x - 1) \X (mid .. right - 1))
    BY <2>1, FS_Product
  <2>3. before \in SUBSET ((left .. x - 1) \X (mid .. right - 1))
    BY DEF PairsTo
  <2> HIDE DEF before
  <2> QED BY <2>2, <2>3, FS_Subset
<1>6. IsFiniteSet(T) /\ Cardinality(T) = j - k
  <2>1. IsFiniteSet(k .. j - 1) /\ Cardinality(k .. j - 1) = j - k
    <3> DEFINE y == j - 1
    <3>1. y \in Int /\ j = y + 1
      BY <1>1
    <3> HIDE DEF y
    <3>2. IsFiniteSet(k .. y) /\ Cardinality(k .. y) = IF k > y THEN 0 ELSE y - k + 1
      BY <1>1, <3>1, FS_Interval
    <3>3. Cardinality(k .. y) = j - k
      BY <1>1, <1>2, <3>1, <3>2
    <3> QED BY <3>2, <3>3 DEF y
  <2>2. IsFiniteSet({x}) /\ Cardinality({x}) = 1
    BY FS_Singleton
  <2>3. IsFiniteSet(T) /\ Cardinality(T) = Cardinality({x}) * Cardinality(k .. j - 1)
    BY <2>1, <2>2, FS_Product
  <2> QED BY <1>1, <2>1, <2>2, <2>3
<1>7. Cardinality(before) \in Nat /\ Cardinality(after) = Cardinality(before) + Cardinality(T) - Cardinality(before \cap T)
  <2> HIDE DEF before, T, after
  <2> QED BY <1>4, <1>5, <1>6, FS_Union, FS_CardinalityType
<1>8. Cardinality(before \cap T) = 0
  BY <1>3, FS_EmptySet
<1>9. Cardinality(after) = Cardinality(before) + j - k
  <2> HIDE DEF before, T, after
  <2> QED BY <1>1, <1>6, <1>7, <1>8
<1> QED BY <1>5, <1>9

\* After the last turn: the left half and the right half below b.t are merged, and the pairs
\* across are counted.
LEMMA TurnsCorrect ==
    ASSUME NEW n, NEW s, NEW left, NEW mid, NEW right, NEW lower, NEW upper,
           HaveHalves(n, s, left, mid, right, lower, upper), lower <= upper,
           Sorted(s, left, mid), Sorted(s, mid, right), NEW c \in Int
    PROVE  LET b == Counting!Turns(s, left, mid, right, lower, upper, c)
           IN  /\ b \in TurnStates(mid, right)
               /\ MergedTo(s, left, mid, right, lower, upper, mid - 1, b)
               /\ b.count = c + Cardinality(PairsTo(s, left, mid - 1, mid, right, lower, upper))
<1> DEFINE Pairs(x) == PairsTo(s, left, x, mid, right, lower, upper)
<1>1. left \in Int /\ mid \in Int /\ right \in Int /\ left <= mid
  BY DEF HaveHalves
<1>2. PICK h : /\ HasTurns(n, s, left, mid, right, lower, upper, c, h)
               /\ Counting!Turns(s, left, mid, right, lower, upper, c) = h[mid - 1]
  BY TurnsAre
<1> DEFINE Good(x) == /\ MergedTo(s, left, mid, right, lower, upper, x, h[x])
                      /\ h[x].count = c + Cardinality(Pairs(x))
           U == {d \in Nat : \A x \in left - 1 .. mid - 1 : x - (left - 1) = d => Good(x)}
<1>3. \A x \in left - 1 .. mid - 1 : h[x] \in TurnStates(mid, right)
  BY <1>2 DEF HasTurns
<1>4. Good(left - 1)
  <2>1. h[left - 1] = AtFirst(mid, c)
    BY <1>2 DEF HasTurns
  <2>2. MergedTo(s, left, mid, right, lower, upper, left - 1, h[left - 1])
    BY <2>1, MergedAtFirst
  <2>3. h[left - 1].count = c
    BY <2>1 DEF AtFirst
  <2>4. Pairs(left - 1) = {}
    BY <1>1 DEF PairsTo
  <2>5. Cardinality(Pairs(left - 1)) = 0
    <3> HIDE DEF Pairs
    <3> QED BY <2>4, FS_EmptySet
  <2> QED BY <2>2, <2>3, <2>5
<1>5. ASSUME NEW x \in left .. mid - 1, Good(x - 1)
      PROVE  Good(x)
  <2> DEFINE b == h[x - 1]
             u == h[x]
             k == u.k
             j == u.j
  <2>1. x - 1 \in left - 1 .. mid - 1 /\ x \in left - 1 .. mid - 1 /\ x >= left
    BY <1>1
  <2>2. b \in TurnStates(mid, right) /\ u \in TurnStates(mid, right)
    BY <1>3, <2>1
  <2>3. u = Turned(b, s, right, lower, upper, x)
    BY <1>2 DEF HasTurns
  <2>4. MergedTo(s, left, mid, right, lower, upper, x, u)
    BY <1>5, <2>2, <2>3, MergedOn
  <2>5. u.count = b.count + j - k
    BY <2>3 DEF Turned
  <2>6. /\ k \in mid .. right /\ j \in mid .. right
        /\ Parts(s, mid, right, k, s[x] + lower) /\ Parts(s, mid, right, j, s[x] + upper + 1)
    <3>1. k \in mid .. right /\ j \in mid .. right
      BY <2>2 DEF TurnStates
    <3> QED BY <2>1, <2>4, <3>1 DEF MergedTo
  <2> HIDE DEF k, j, b, u
  <2>7. IsFiniteSet(Pairs(x - 1)) /\ Cardinality(Pairs(x)) = Cardinality(Pairs(x - 1)) + j - k
    BY <2>6, PairsOn
  <2>8. Cardinality(Pairs(x - 1)) \in Nat
    <3> HIDE DEF Pairs
    <3> QED BY <2>7, FS_CardinalityType
  <2>9. b.count = c + Cardinality(Pairs(x - 1))
    BY <1>5 DEF b
  <2>10. k \in Int /\ j \in Int
    BY <2>6
  <2>11. u.count = c + Cardinality(Pairs(x))
    <3> HIDE DEF Pairs
    <3> QED BY <2>5, <2>7, <2>8, <2>9, <2>10
  <2> QED BY <2>4, <2>11 DEF u
<1>6. ASSUME NEW d \in Nat, \A m \in 0 .. d - 1 : m \in U PROVE d \in U
  <2> SUFFICES ASSUME NEW x \in left - 1 .. mid - 1, x - (left - 1) = d PROVE Good(x)
    BY DEF U
  <2>1. CASE x = left - 1
    <3> HIDE DEF Good
    <3> QED BY <1>4, <2>1
  <2>2. CASE x # left - 1
    <3>1. x \in left .. mid - 1 /\ x - 1 \in left - 1 .. mid - 1 /\ (x - 1) - (left - 1) \in 0 .. d - 1
      BY <1>1, <2>2
    <3> HIDE DEF Good
    <3>2. Good(x - 1)
      BY <1>6, <3>1
    <3> QED BY <1>5, <3>1, <3>2
  <2> QED BY <2>1, <2>2
<1>7. \A d \in Nat : d \in U
  <2> HIDE DEF U
  <2> QED BY <1>6, FromSmaller
<1>8. mid - 1 \in left - 1 .. mid - 1 /\ (mid - 1) - (left - 1) \in Nat
  BY <1>1
<1>9. Good(mid - 1)
  <2> HIDE DEF Good
  <2> QED BY <1>7, <1>8
<1>10. h[mid - 1] \in TurnStates(mid, right)
  BY <1>3, <1>8
<1> QED BY <1>2, <1>9, <1>10

\* Before the place b.t of the right half all numbers of it are in the cache.
LEMMA TurnsLength ==
    ASSUME NEW n, NEW s, NEW left, NEW mid, NEW right, NEW lower, NEW upper,
           HaveHalves(n, s, left, mid, right, lower, upper), NEW c \in Int
    PROVE  LET b == Counting!Turns(s, left, mid, right, lower, upper, c)
           IN  b \in TurnStates(mid, right) /\ Len(b.cache) = b.t - left
<1>1. left \in Int /\ mid \in Int /\ right \in Int /\ left <= mid
  BY DEF HaveHalves
<1>2. PICK h : /\ HasTurns(n, s, left, mid, right, lower, upper, c, h)
               /\ Counting!Turns(s, left, mid, right, lower, upper, c) = h[mid - 1]
  BY TurnsAre
<1> DEFINE Good(x) == Len(h[x].cache) = (x - left + 1) + (h[x].t - mid)
           U == {d \in Nat : \A x \in left - 1 .. mid - 1 : x - (left - 1) = d => Good(x)}
<1>3. \A x \in left - 1 .. mid - 1 : h[x] \in TurnStates(mid, right)
  BY <1>2 DEF HasTurns
<1>4. Good(left - 1)
  <2>1. h[left - 1] = AtFirst(mid, c)
    BY <1>2 DEF HasTurns
  <2>2. h[left - 1].cache = <<>> /\ h[left - 1].t = mid
    BY <2>1 DEF AtFirst
  <2>3. Len(h[left - 1].cache) = 0 /\ (left - 1) - left + 1 = 0 /\ h[left - 1].t - mid = 0
    BY <1>1, <2>2
  <2> QED BY <2>3
<1>5. ASSUME NEW x \in left .. mid - 1, Good(x - 1)
      PROVE  Good(x)
  <2> DEFINE b == h[x - 1]
             u == h[x]
             f == b.t
             t == u.t
             k == Len(b.cache)
             m == Len(u.cache)
  <2>1. x - 1 \in left - 1 .. mid - 1 /\ x \in left - 1 .. mid - 1 /\ x \in Int
    BY <1>1
  <2>2. b \in TurnStates(mid, right) /\ u \in TurnStates(mid, right)
    BY <1>3, <2>1
  <2>3. u = Turned(b, s, right, lower, upper, x)
    BY <1>2 DEF HasTurns
  <2>4. m = k + (t - f) + 1
    BY <2>2, <2>3, TurnedIs
  <2>5. k = (x - 1 - left + 1) + (f - mid)
    BY <1>5
  <2>6. f \in Int /\ t \in Int
    BY <1>1, <2>2 DEF TurnStates
  <2> HIDE DEF b, u, f, t, k, m
  <2>7. m = (x - left + 1) + (t - mid)
    BY <1>1, <2>1, <2>4, <2>5, <2>6
  <2> QED BY <2>7 DEF m, t, u
<1>6. ASSUME NEW d \in Nat, \A m \in 0 .. d - 1 : m \in U PROVE d \in U
  <2> SUFFICES ASSUME NEW x \in left - 1 .. mid - 1, x - (left - 1) = d PROVE Good(x)
    BY DEF U
  <2>1. CASE x = left - 1
    <3> HIDE DEF Good
    <3> QED BY <1>4, <2>1
  <2>2. CASE x # left - 1
    <3>1. x \in left .. mid - 1 /\ x - 1 \in left - 1 .. mid - 1 /\ (x - 1) - (left - 1) \in 0 .. d - 1
      BY <1>1, <2>2
    <3> HIDE DEF Good
    <3>2. Good(x - 1)
      BY <1>6, <3>1
    <3> QED BY <1>5, <3>1, <3>2
  <2> QED BY <2>1, <2>2
<1>7. \A d \in Nat : d \in U
  <2> HIDE DEF U
  <2> QED BY <1>6, FromSmaller
<1>8. mid - 1 \in left - 1 .. mid - 1 /\ (mid - 1) - (left - 1) \in Nat
  BY <1>1
<1>9. Good(mid - 1)
  <2> HIDE DEF Good
  <2> QED BY <1>7, <1>8
<1>10. h[mid - 1] \in TurnStates(mid, right)
  BY <1>3, <1>8
<1> DEFINE e == h[mid - 1]
           t == e.t
           m == Len(e.cache)
<1>11. t \in Int
  BY <1>1, <1>10 DEF TurnStates
<1>12. m = (mid - 1 - left + 1) + (t - mid)
  BY <1>9
<1> HIDE DEF t, m
<1>13. m = t - left
  BY <1>1, <1>11, <1>12
<1> QED BY <1>2, <1>10, <1>13 DEF t, m, e

\* What the merge leaves: the cache from left on, and all else where it was.
Combined(s, left, b) == SubSeq(s, 1, left - 1) \o b.cache \o SubSeq(s, b.t, Len(s))

LEMMA CombinedIs ==
    ASSUME NEW n, NEW s, NEW left, NEW mid, NEW right, NEW lower, NEW upper,
           HaveHalves(n, s, left, mid, right, lower, upper),
           NEW b \in TurnStates(mid, right), Len(b.cache) = b.t - left
    PROVE  /\ Combined(s, left, b) \in [1 .. n -> Int]
           /\ \A p \in 1 .. n :
                  Combined(s, left, b)[p] = IF p \in left .. b.t - 1 THEN b.cache[p - left + 1] ELSE s[p]
<1> DEFINE c == b.cache
           t == b.t
           m == Len(c)
           f == left - 1
           e == SubSeq(s, 1, f)
           l == SubSeq(s, t, n)
           k == n - t + 1
<1>1. /\ n \in Nat /\ s \in [1 .. n -> Int] /\ left \in 1 .. n + 1 /\ mid \in left .. n + 1 /\ right \in mid .. n + 1
      /\ left \in Int /\ mid \in Int /\ right \in Int
  BY DEF HaveHalves
<1>2. c \in Seq(Int) /\ t \in mid .. right /\ m = t - left
  BY DEF TurnStates
<1> HIDE DEF t, m, c
<1>3. t \in left .. n + 1 /\ t \in Int /\ f \in Int /\ k \in Nat /\ f \in Nat /\ m \in Nat /\ f + m + k = n
      /\ f + 1 = left /\ t + k = n + 1 /\ f + m + 1 = t
  BY <1>1, <1>2
<1>4. s \in Seq(Int) /\ Len(s) = n
  BY <1>1
<1>5. Combined(s, left, b) = e \o c \o l
  BY <1>4 DEF Combined, c, t
<1> HIDE DEF f, k, t, m, c
<1>6. e \in Seq(Int) /\ Len(e) = f /\ \A p \in 1 .. f : e[p] = s[p]
  <2>1. \A p \in 1 .. f : s[p] \in Int
    BY <1>1, <1>3
  <2>2. /\ e \in Seq(Int) /\ Len(e) = (IF 1 <= f THEN f - 1 + 1 ELSE 0)
        /\ \A p \in 1 .. f - 1 + 1 : e[p] = s[1 + p - 1]
    BY <1>3, <2>1, SubSeqProperties
  <2> HIDE DEF e
  <2> QED BY <1>3, <2>2
<1>7. l \in Seq(Int) /\ Len(l) = k /\ \A p \in 1 .. k : l[p] = s[t + p - 1]
  <2>1. n \in Int /\ \A p \in t .. n : s[p] \in Int
    BY <1>1, <1>3
  <2>2. /\ l \in Seq(Int) /\ Len(l) = (IF t <= n THEN n - t + 1 ELSE 0)
        /\ \A p \in 1 .. n - t + 1 : l[p] = s[t + p - 1]
    BY <1>1, <1>3, <2>1, SubSeqProperties
  <2>3. n - t + 1 = k
    BY DEF k
  <2> HIDE DEF l
  <2> QED BY <1>1, <1>3, <2>2, <2>3
<1> HIDE DEF e, l
<1> DEFINE g == e \o c
<1>8. g \in Seq(Int) /\ Len(g) = f + m /\ \A p \in 1 .. f + m : g[p] = IF p <= f THEN e[p] ELSE c[p - f]
  <2>1. Len(c) = m
    BY DEF m
  <2>2. /\ g \in Seq(Int) /\ Len(g) = Len(e) + Len(c)
        /\ \A p \in 1 .. Len(e) + Len(c) : g[p] = IF p <= Len(e) THEN e[p] ELSE c[p - Len(e)]
    BY <1>2, <1>6, ConcatProperties
  <2> HIDE DEF g
  <2> QED BY <1>6, <2>1, <2>2
<1> HIDE DEF g
<1> DEFINE z == g \o l
<1>9. z \in Seq(Int) /\ Len(z) = n /\ \A p \in 1 .. n : z[p] = IF p <= f + m THEN g[p] ELSE l[p - (f + m)]
  <2>1. /\ z \in Seq(Int) /\ Len(z) = Len(g) + Len(l)
        /\ \A p \in 1 .. Len(g) + Len(l) : z[p] = IF p <= Len(g) THEN g[p] ELSE l[p - Len(g)]
    BY <1>7, <1>8, ConcatProperties
  <2>2. Len(g) + Len(l) = n
    BY <1>3, <1>7, <1>8
  <2> HIDE DEF z
  <2> QED BY <1>8, <2>1, <2>2
<1>10. Combined(s, left, b) = z
  BY <1>5 DEF z, g
<1> HIDE DEF z
<1>11. z \in [1 .. n -> Int]
  BY <1>9
<1>12. ASSUME NEW p \in 1 .. n
       PROVE  z[p] = IF p \in left .. t - 1 THEN c[p - left + 1] ELSE s[p]
  <2>0. p \in Int
    OBVIOUS
  <2>1. CASE p <= f
    <3>1. p \in 1 .. f /\ p \in 1 .. f + m /\ p <= f + m /\ ~(p \in left .. t - 1)
      BY <1>3, <2>0, <2>1
    <3>2. z[p] = g[p] /\ g[p] = e[p] /\ e[p] = s[p]
      BY <1>6, <1>8, <1>9, <2>1, <3>1
    <3> QED BY <3>1, <3>2
  <2>2. CASE ~(p <= f) /\ p <= f + m
    <3>1. p \in 1 .. f + m /\ p \in left .. t - 1 /\ p - f = p - left + 1
      BY <1>3, <2>0, <2>2
    <3>2. z[p] = g[p] /\ g[p] = c[p - f]
      BY <1>8, <1>9, <2>2, <3>1
    <3> QED BY <3>1, <3>2
  <2>3. CASE ~(p <= f + m)
    <3>1. p - (f + m) \in 1 .. k /\ ~(p \in left .. t - 1) /\ t + (p - (f + m)) - 1 = p
      BY <1>3, <2>0, <2>3
    <3>2. z[p] = l[p - (f + m)]
      BY <1>9, <2>3
    <3>3. l[p - (f + m)] = s[t + (p - (f + m)) - 1]
      BY <1>7, <3>1
    <3> QED BY <3>1, <3>2, <3>3
  <2> QED BY <1>3, <2>0, <2>1, <2>2, <2>3
<1> QED BY <1>10, <1>11, <1>12 DEF c, t

\* r has the numbers of s from left to right - 1 in another order, and all others in place.
Rearranged(n, s, r, left, right, o) ==
    /\ r \in [1 .. n -> Int]
    /\ o \in [left .. right - 1 -> left .. right - 1]
    /\ \A p, q \in left .. right - 1 : o[p] = o[q] => p = q
    /\ \A p \in 1 .. n : r[p] = IF p \in left .. right - 1 THEN s[o[p]] ELSE s[p]

LEMMA MergeIs ==
    ASSUME NEW n, NEW s, NEW left, NEW mid, NEW right, NEW lower, NEW upper,
           HaveHalves(n, s, left, mid, right, lower, upper), left < mid,
           Sorted(s, left, mid), Sorted(s, mid, right), NEW b \in TurnStates(mid, right),
           Len(b.cache) = b.t - left, MergedTo(s, left, mid, right, lower, upper, mid - 1, b)
    PROVE  /\ Sorted(Combined(s, left, b), left, right)
           /\ \E o : Rearranged(n, s, Combined(s, left, b), left, right, o)
<1> DEFINE c == b.cache
           t == b.t
           m == Len(c)
           r == Combined(s, left, b)
<1>1. /\ n \in Nat /\ s \in [1 .. n -> Int] /\ left \in 1 .. n + 1 /\ mid \in left .. n + 1 /\ right \in mid .. n + 1
      /\ left \in Int /\ mid \in Int /\ right \in Int
  BY DEF HaveHalves
<1>2. t \in mid .. right /\ m = t - left
  BY DEF TurnStates
<1>3. /\ r \in [1 .. n -> Int]
      /\ \A p \in 1 .. n : r[p] = IF p \in left .. t - 1 THEN c[p - left + 1] ELSE s[p]
  BY CombinedIs
<1>4. /\ Parts(s, mid, right, t, s[mid - 1]) /\ Ascending(c, m)
      /\ \E o : ComesFrom(s, c, o, (left .. mid - 1) \cup (mid .. t - 1))
  <2>1. mid - 1 >= left
    BY <1>1
  <2> QED BY <2>1 DEF MergedTo
<1>5. PICK o : ComesFrom(s, c, o, (left .. mid - 1) \cup (mid .. t - 1))
  BY <1>4
<1>6. /\ \A p \in 1 .. m : o[p] \in (left .. mid - 1) \cup (mid .. t - 1) /\ c[p] = s[o[p]]
      /\ \A p, q \in 1 .. m : o[p] = o[q] => p = q
  BY <1>5 DEF ComesFrom
<1> HIDE DEF c, t, m, r
<1> DEFINE d == [p \in left .. right - 1 |-> IF p < t THEN o[p - left + 1] ELSE p]
<1>7. ASSUME NEW p \in left .. right - 1
      PROVE  /\ p \in 1 .. n /\ p \in Int
             /\ p < t => /\ p - left + 1 \in 1 .. m /\ d[p] = o[p - left + 1] /\ r[p] = c[p - left + 1]
                         /\ d[p] \in (left .. mid - 1) \cup (mid .. t - 1)
             /\ ~(p < t) => d[p] = p /\ r[p] = s[p] /\ p \in mid .. right - 1
             /\ r[p] = s[d[p]]
  <2>1. p \in 1 .. n /\ p \in Int /\ (p < t => p - left + 1 \in 1 .. m /\ p \in left .. t - 1)
        /\ (~(p < t) => ~(p \in left .. t - 1) /\ p \in mid .. right - 1)
    BY <1>1, <1>2
  <2>2. d[p] = IF p < t THEN o[p - left + 1] ELSE p
    OBVIOUS
  <2>3. r[p] = IF p \in left .. t - 1 THEN c[p - left + 1] ELSE s[p]
    BY <1>3, <2>1
  <2> HIDE DEF d
  <2>4. CASE p < t
    <3>1. p - left + 1 \in 1 .. m
      BY <2>1, <2>4
    <3>2. o[p - left + 1] \in (left .. mid - 1) \cup (mid .. t - 1) /\ c[p - left + 1] = s[o[p - left + 1]]
      BY <1>6, <3>1
    <3> QED BY <2>1, <2>2, <2>3, <2>4, <3>1, <3>2
  <2>5. CASE ~(p < t)
    BY <2>1, <2>2, <2>3, <2>5
  <2> QED BY <2>4, <2>5
<1>8. ASSUME NEW p \in left .. right - 1
      PROVE  d[p] \in left .. right - 1 /\ (p < t => d[p] < t)
  <2> DEFINE v == d[p]
  <2>1. /\ p < t => v \in (left .. mid - 1) \cup (mid .. t - 1)
        /\ ~(p < t) => v = p
    BY <1>7
  <2> HIDE DEF v
  <2>2. v \in left .. right - 1 /\ (p < t => v < t)
    BY <1>1, <1>2, <2>1
  <2> QED BY <2>2 DEF v
<1> HIDE DEF d
<1>9. ASSUME NEW p \in left .. right - 1, NEW q \in left .. right - 1, d[p] = d[q]
      PROVE  p = q
  <2>1. CASE p < t /\ q < t
    <3> DEFINE i1 == p - left + 1
               i2 == q - left + 1
    <3>1. i1 \in 1 .. m /\ i2 \in 1 .. m /\ o[i1] = o[i2]
      BY <1>7, <1>9, <2>1
    <3>2. i1 = i2
      <4> HIDE DEF i1, i2
      <4> QED BY <1>6, <3>1
    <3>3. p \in Int /\ q \in Int
      OBVIOUS
    <3> QED BY <1>1, <3>2, <3>3
  <2>2. CASE p < t /\ ~(q < t)
    <3>1. d[p] < t /\ d[q] = q
      BY <1>7, <1>8, <2>2
    <3> QED BY <1>9, <2>2, <3>1
  <2>3. CASE ~(p < t) /\ q < t
    <3>1. d[q] < t /\ d[p] = p
      BY <1>7, <1>8, <2>3
    <3> QED BY <1>9, <2>3, <3>1
  <2>4. CASE ~(p < t) /\ ~(q < t)
    BY <1>7, <1>9, <2>4
  <2> QED BY <2>1, <2>2, <2>3, <2>4
<1>10. Rearranged(n, s, r, left, right, d)
  <2>1. d \in [left .. right - 1 -> left .. right - 1]
    <3> DEFINE I == left .. right - 1
    <3>1. d = [p \in I |-> d[p]] /\ \A p \in I : d[p] \in I
      BY <1>8 DEF d
    <3> HIDE DEF I
    <3>2. d \in [I -> I]
      BY <3>1
    <3> QED BY <3>2 DEF I
  <2>2. ASSUME NEW p \in 1 .. n
        PROVE  r[p] = IF p \in left .. right - 1 THEN s[d[p]] ELSE s[p]
    <3>1. CASE p \in left .. right - 1
      BY <1>7, <3>1
    <3>2. CASE ~(p \in left .. right - 1)
      <4>1. ~(p \in left .. t - 1)
        BY <1>1, <1>2, <3>2
      <4> QED BY <1>3, <3>2, <4>1
    <3> QED BY <3>1, <3>2
  <2> QED BY <1>3, <1>9, <2>1, <2>2 DEF Rearranged
<1>11. ASSUME NEW p \in left .. right - 1, NEW q \in left .. right - 1, p <= q
       PROVE  r[p] <= r[q]
  <2>1. CASE q < t
    <3> DEFINE i1 == p - left + 1
               i2 == q - left + 1
    <3>1. p < t /\ i1 <= i2
      BY <1>1, <1>2, <1>11, <2>1
    <3>2. i1 \in 1 .. m /\ i2 \in 1 .. m /\ r[p] = c[i1] /\ r[q] = c[i2]
      BY <1>7, <2>1, <3>1
    <3> HIDE DEF i1, i2
    <3>3. c[i1] <= c[i2]
      BY <1>4, <3>1, <3>2 DEF Ascending
    <3> QED BY <3>2, <3>3
  <2>2. CASE ~(p < t)
    <3>1. ~(q < t)
      BY <1>2, <1>1, <1>11, <2>2
    <3>2. p \in mid .. right - 1 /\ q \in mid .. right - 1 /\ r[p] = s[p] /\ r[q] = s[q]
      BY <1>7, <2>2, <3>1
    <3> QED BY <1>11, <3>2 DEF Sorted
  <2>3. CASE p < t /\ ~(q < t)
    <3> DEFINE a == d[p]
    <3>1. a \in (left .. mid - 1) \cup (mid .. t - 1) /\ r[p] = s[a] /\ r[q] = s[q] /\ q \in mid .. right - 1 /\ q \in 1 .. n
      BY <1>7, <2>3
    <3> HIDE DEF a
    <3>2. CASE a \in left .. mid - 1
      <4>1. mid - 1 \in left .. mid - 1 /\ a <= mid - 1 /\ mid - 1 \in 1 .. n /\ a \in 1 .. n
        BY <1>1, <3>2
      <4>2. s[a] <= s[mid - 1]
        BY <3>2, <4>1 DEF Sorted
      <4>3. ~(s[q] < s[mid - 1])
        BY <1>4, <2>3, <3>1 DEF Parts
      <4>4. s[a] \in Int /\ s[q] \in Int /\ s[mid - 1] \in Int
        BY <1>1, <3>1, <4>1
      <4>5. s[a] <= s[q]
        BY <4>2, <4>3, <4>4
      <4> QED BY <3>1, <4>5
    <3>3. CASE a \in mid .. t - 1
      <4>1. a \in mid .. right - 1 /\ a <= q
        BY <1>1, <1>2, <2>3, <3>1, <3>3
      <4>2. s[a] <= s[q]
        BY <3>1, <4>1 DEF Sorted
      <4> QED BY <3>1, <4>2
    <3> QED BY <3>1, <3>2, <3>3
  <2> QED BY <2>1, <2>2, <2>3
<1>12. Sorted(r, left, right)
  BY <1>11 DEF Sorted
<1> QED BY <1>10, <1>12 DEF r

\* One call of mergeCount on the places from a to z - 1 of v, by the results h of smaller ones.
MergeOf(h, a, z, v, lower, upper) ==
    IF z - a <= 1 THEN [sums |-> v, count |-> 0]
    ELSE LET mid == (a + z) \div 2
             l == h[<<a, mid, v>>]
             r == h[<<mid, z, l.sums>>]
             b == Counting!Turns(r.sums, a, mid, z, lower, upper, l.count + r.count)
         IN  [sums |-> Combined(r.sums, a, b), count |-> b.count]

MergeStates(n) == [sums : [1 .. n -> Int], count : Int]
MergeInputs(n) == (1 .. n + 1) \X (1 .. n + 1) \X [1 .. n -> Int]

LEMMA MergeOfIs ==
    ASSUME NEW n \in Nat, NEW lower \in Int, NEW upper \in Int,
           NEW a \in 1 .. n + 1, NEW z \in 1 .. n + 1, NEW v \in [1 .. n -> Int],
           NEW h \in [MergeInputs(n) -> MergeStates(n)]
    PROVE  MergeOf(h, a, z, v, lower, upper) \in MergeStates(n)
<1>1. CASE z - a <= 1
  <2>1. [sums |-> v, count |-> 0] \in MergeStates(n)
    BY DEF MergeStates
  <2> QED BY <1>1, <2>1 DEF MergeOf
<1>2. CASE ~(z - a <= 1)
  <2> DEFINE mid == (a + z) \div 2
             l == h[<<a, mid, v>>]
             r == h[<<mid, z, l.sums>>]
             c == l.count + r.count
             b == Counting!Turns(r.sums, a, mid, z, lower, upper, c)
  <2>1. mid \in a .. n + 1 /\ mid \in 1 .. n + 1 /\ z \in mid .. n + 1
    BY <1>2
  <2>2. l \in MergeStates(n)
    <3>1. <<a, mid, v>> \in MergeInputs(n)
      BY <2>1 DEF MergeInputs
    <3> QED BY <3>1
  <2> HIDE DEF mid, l
  <2>3. l.sums \in [1 .. n -> Int] /\ l.count \in Int
    BY <2>2 DEF MergeStates
  <2>4. r \in MergeStates(n)
    <3>1. <<mid, z, l.sums>> \in MergeInputs(n)
      BY <2>1, <2>3 DEF MergeInputs
    <3> QED BY <3>1
  <2> HIDE DEF r
  <2>5. r.sums \in [1 .. n -> Int] /\ r.count \in Int
    BY <2>4 DEF MergeStates
  <2>6. HaveHalves(n, r.sums, a, mid, z, lower, upper) /\ c \in Int
    BY <2>1, <2>3, <2>5 DEF HaveHalves
  <2> HIDE DEF c
  <2>7. b \in TurnStates(mid, z) /\ Len(b.cache) = b.t - a
    BY <2>6, TurnsLength
  <2> HIDE DEF b
  <2>8. Combined(r.sums, a, b) \in [1 .. n -> Int]
    BY <2>6, <2>7, CombinedIs
  <2>9. b.count \in Int
    BY <2>7 DEF TurnStates
  <2>10. MergeOf(h, a, z, v, lower, upper) = [sums |-> Combined(r.sums, a, b), count |-> b.count]
    BY <1>2 DEF MergeOf, mid, l, r, c, b
  <2> QED BY <2>8, <2>9, <2>10 DEF MergeStates
<1> QED BY <1>1, <1>2

\* It asks only for what has fewer places.
SameBelow(n, d, f, g) ==
    \A x, y \in 1 .. n + 1, w \in [1 .. n -> Int] :
        y - x < d /\ 0 < d => f[<<x, y, w>>] = g[<<x, y, w>>]

LEMMA MergeSame ==
    ASSUME NEW n \in Nat, NEW lower, NEW upper,
           NEW a \in 1 .. n + 1, NEW z \in 1 .. n + 1, NEW v \in [1 .. n -> Int],
           NEW f, NEW g \in [MergeInputs(n) -> MergeStates(n)], SameBelow(n, z - a, f, g)
    PROVE  MergeOf(f, a, z, v, lower, upper) = MergeOf(g, a, z, v, lower, upper)
<1> DEFINE mid == (a + z) \div 2
           l == g[<<a, mid, v>>]
<1>1. CASE z - a <= 1
  BY <1>1 DEF MergeOf
<1>2. CASE ~(z - a <= 1)
  <2>1. mid \in 1 .. n + 1 /\ mid - a < z - a /\ z - mid < z - a /\ 0 < z - a
    BY <1>2
  <2> HIDE DEF mid
  <2>2. f[<<a, mid, v>>] = l
    BY <2>1 DEF SameBelow
  <2>3. l \in MergeStates(n)
    <3>1. <<a, mid, v>> \in MergeInputs(n)
      BY <2>1 DEF MergeInputs
    <3> QED BY <3>1
  <2> HIDE DEF l
  <2>4. l.sums \in [1 .. n -> Int]
    BY <2>3 DEF MergeStates
  <2>5. f[<<mid, z, l.sums>>] = g[<<mid, z, l.sums>>]
    BY <2>1, <2>4 DEF SameBelow
  <2> QED BY <1>2, <2>2, <2>5 DEF MergeOf, mid, l
<1> QED BY <1>1, <1>2

LEMMA MergeExists ==
    ASSUME NEW n \in Nat, NEW s \in [1 .. n -> Int], NEW lower \in Int, NEW upper \in Int
    PROVE  \E h \in [MergeInputs(n) -> MergeStates(n)] :
               /\ \A a, z \in 1 .. n + 1, v \in [1 .. n -> Int] :
                      h[<<a, z, v>>] = MergeOf(h, a, z, v, lower, upper)
               /\ Counting!mergeCount(s, 1, n + 1, lower, upper) = h[<<1, n + 1, s>>]
<1> DEFINE S == MergeInputs(n)
           X == MergeStates(n)
           m == [p \in S |-> IF p[2] >= p[1] THEN p[2] - p[1] ELSE 0]
           step == [p \in S |-> [g \in [S -> X] |-> MergeOf(g, p[1], p[2], p[3], lower, upper)]]
           Is(h) == h = [p \in S |-> MergeOf(h, p[1], p[2], p[3], lower, upper)]
           merged == CHOOSE h : Is(h)
<1>1. \A p \in S : /\ p[1] \in 1 .. n + 1 /\ p[2] \in 1 .. n + 1 /\ p[3] \in [1 .. n -> Int]
                   /\ p = <<p[1], p[2], p[3]>>
  BY DEF MergeInputs
<1>2. m \in [S -> Nat]
  <2>1. \A p \in S : (IF p[2] >= p[1] THEN p[2] - p[1] ELSE 0) \in Nat
    BY <1>1
  <2> HIDE DEF S
  <2> QED BY <2>1
<1>21. ASSUME NEW p \in S, NEW x \in 1 .. n + 1, NEW y \in 1 .. n + 1, NEW w \in [1 .. n -> Int],
              y - x < p[2] - p[1], 0 < p[2] - p[1]
       PROVE  <<x, y, w>> \in S /\ m[<<x, y, w>>] < m[p]
  <2> DEFINE q == <<x, y, w>>
  <2>1. q \in S /\ q[1] = x /\ q[2] = y
    BY DEF MergeInputs
  <2> HIDE DEF q
  <2>2. m[q] = (IF q[2] >= q[1] THEN q[2] - q[1] ELSE 0) /\ m[p] = (IF p[2] >= p[1] THEN p[2] - p[1] ELSE 0)
    BY <2>1
  <2> DEFINE a == p[1]
             z == p[2]
             d == m[p]
             k == m[q]
  <2>3. a \in Int /\ z \in Int
    BY <1>1
  <2>4. k = (IF y >= x THEN y - x ELSE 0) /\ d = (IF z >= a THEN z - a ELSE 0) /\ y - x < z - a /\ 0 < z - a
    BY <1>21, <2>1, <2>2
  <2> HIDE DEF a, z, d, k, m, S
  <2>5. k < d
    BY <2>3, <2>4
  <2> QED BY <2>1, <2>5 DEF q, d, k
<1>3. step \in [S -> [[S -> X] -> X]]
  <2> SUFFICES ASSUME NEW p \in S, NEW g \in [S -> X] PROVE MergeOf(g, p[1], p[2], p[3], lower, upper) \in X
    OBVIOUS
  <2> QED BY <1>1, MergeOfIs
<1>4. LooksBelow(S, X, m, step)
  <2> SUFFICES ASSUME NEW p \in S, NEW g \in [S -> X], NEW h \in [S -> X],
                      \A y \in S : m[y] < m[p] => g[y] = h[y]
               PROVE  step[p][g] = step[p][h]
    <3> HIDE DEF step, S, X, m
    <3> QED BY <1>2, <1>3 DEF LooksBelow
  <2>1. step[p][g] = MergeOf(g, p[1], p[2], p[3], lower, upper) /\ step[p][h] = MergeOf(h, p[1], p[2], p[3], lower, upper)
    OBVIOUS
  <2> HIDE DEF step
  <2>2. ASSUME NEW x \in 1 .. n + 1, NEW y \in 1 .. n + 1, NEW w \in [1 .. n -> Int],
               y - x < p[2] - p[1], 0 < p[2] - p[1]
        PROVE  g[<<x, y, w>>] = h[<<x, y, w>>]
    BY <1>21, <2>2
  <2>3. MergeOf(g, p[1], p[2], p[3], lower, upper) = MergeOf(h, p[1], p[2], p[3], lower, upper)
    <3> DEFINE a == p[1]
               z == p[2]
               v == p[3]
    <3>1. a \in 1 .. n + 1 /\ z \in 1 .. n + 1 /\ v \in [1 .. n -> Int]
      BY <1>1
    <3>2. SameBelow(n, z - a, g, h)
      BY <2>2 DEF SameBelow
    <3> HIDE DEF a, z, v, m
    <3>3. MergeOf(g, a, z, v, lower, upper) = MergeOf(h, a, z, v, lower, upper)
      BY <3>1, <3>2, MergeSame
    <3> QED BY <3>3 DEF a, z, v
  <2> QED BY <2>1, <2>3
<1>5. PICK h \in [S -> X] : \A p \in S : h[p] = step[p][h]
  <2>1. X # {}
    <3>1. [sums |-> s, count |-> 0] \in X
      BY DEF MergeStates
    <3> QED BY <3>1
  <2> HIDE DEF S, step, X, m
  <2> QED BY <1>4, <2>1, SolutionExists
<1>6. Is(h)
  <2> HIDE DEF S, X
  <2>1. \A p \in S : h[p] = MergeOf(h, p[1], p[2], p[3], lower, upper)
    BY <1>5
  <2>2. h = [p \in S |-> h[p]]
    BY <1>5
  <2> QED BY <2>1, <2>2
<1>7. Is(merged)
  <2> HIDE DEF Is
  <2> QED BY <1>6
<1>8. Counting!mergeCount(s, 1, n + 1, lower, upper) = merged[<<1, n + 1, s>>]
  <2>1. DOMAIN s = 1 .. n
    OBVIOUS
  <2> QED BY <2>1 DEF Counting!mergeCount, MergeOf, Combined, MergeInputs
<1> HIDE DEF merged
<1>9. \A p \in S : merged[p] = MergeOf(merged, p[1], p[2], p[3], lower, upper)
  <2> HIDE DEF S
  <2> QED BY <1>7
<1>10. merged = [p \in S |-> merged[p]]
  <2> HIDE DEF S
  <2> QED BY <1>7
<1>11. ASSUME NEW d \in Nat, \A k \in 0 .. d - 1 : \A p \in S : m[p] = k => merged[p] \in X,
              NEW p \in S, m[p] = d
       PROVE  merged[p] \in X
  <2> DEFINE g == [q \in S |-> IF m[q] < d THEN merged[q] ELSE h[q]]
             a == p[1]
             z == p[2]
             v == p[3]
  <2>1. a \in 1 .. n + 1 /\ z \in 1 .. n + 1 /\ v \in [1 .. n -> Int]
    BY <1>1
  <2>2. g \in [S -> X]
    <3> HIDE DEF S, X, m
    <3>1. ASSUME NEW q \in S, m[q] < d PROVE merged[q] \in X
      <4>1. m[q] \in 0 .. d - 1
        BY <1>2, <3>1
      <4> QED BY <1>11, <4>1
    <3> QED BY <3>1
  <2>3. SameBelow(n, z - a, merged, g)
    <3> SUFFICES ASSUME NEW x \in 1 .. n + 1, NEW y \in 1 .. n + 1, NEW w \in [1 .. n -> Int],
                        y - x < z - a, 0 < z - a
                 PROVE  merged[<<x, y, w>>] = g[<<x, y, w>>]
      BY DEF SameBelow
    <3>1. <<x, y, w>> \in S /\ m[<<x, y, w>>] < d
      BY <1>11, <1>21
    <3> HIDE DEF S, X, m
    <3> QED BY <3>1
  <2>4. merged[p] = MergeOf(merged, a, z, v, lower, upper)
    BY <1>9
  <2> HIDE DEF a, z, v, g, m
  <2>5. MergeOf(merged, a, z, v, lower, upper) = MergeOf(g, a, z, v, lower, upper)
    BY <2>1, <2>2, <2>3, MergeSame
  <2>6. MergeOf(g, a, z, v, lower, upper) \in X
    BY <2>1, <2>2, MergeOfIs
  <2> QED BY <2>4, <2>5, <2>6
<1> DEFINE U == {d \in Nat : \A p \in S : m[p] = d => merged[p] \in X}
<1>12. \A d \in Nat : d \in U
  <2>1. ASSUME NEW d \in Nat, \A k \in 0 .. d - 1 : k \in U PROVE d \in U
    <3>1. \A k \in 0 .. d - 1 : \A p \in S : m[p] = k => merged[p] \in X
      <4> HIDE DEF S, X, m
      <4> QED BY <2>1
    <3>2. \A p \in S : m[p] = d => merged[p] \in X
      <4> HIDE DEF S, X, m
      <4> QED BY <1>11, <3>1
    <3> HIDE DEF S, X, m
    <3> QED BY <3>2
  <2> HIDE DEF U
  <2> QED BY <2>1, FromSmaller
<1>13. merged \in [S -> X]
  <2> HIDE DEF S, X, m
  <2>1. \A p \in S : merged[p] \in X
    BY <1>2, <1>12
  <2> QED BY <1>10, <2>1
<1>14. ASSUME NEW a \in 1 .. n + 1, NEW z \in 1 .. n + 1, NEW v \in [1 .. n -> Int]
       PROVE  merged[<<a, z, v>>] = MergeOf(merged, a, z, v, lower, upper)
  <2> DEFINE q == <<a, z, v>>
  <2>1. q \in S /\ q[1] = a /\ q[2] = z /\ q[3] = v
    BY DEF MergeInputs
  <2> HIDE DEF q
  <2>2. merged[q] = MergeOf(merged, q[1], q[2], q[3], lower, upper)
    BY <1>9, <2>1
  <2>3. merged[q] = MergeOf(merged, a, z, v, lower, upper)
    BY <2>1, <2>2
  <2> QED BY <2>3 DEF q
<1> QED BY <1>8, <1>13, <1>14

LEMMA InjectionIsOnto ==
    ASSUME NEW S, IsFiniteSet(S), NEW f \in [S -> S], \A p, q \in S : f[p] = f[q] => p = q,
           NEW b \in S
    PROVE  \E p \in S : f[p] = b
<1> SUFFICES ASSUME \A p \in S : f[p] # b PROVE FALSE
  OBVIOUS
<1>1. IsFiniteSet(S \ {b}) /\ Cardinality(S \ {b}) = Cardinality(S) - 1 /\ Cardinality(S) \in Nat
  BY FS_RemoveElement, FS_CardinalityType
<1>2. Cardinality(S \ {b}) < Cardinality(S)
  BY <1>1
<1>3. f \in [S -> S \ {b}]
  OBVIOUS
<1>4. \E x, y \in S : x # y /\ f[x] = f[y]
  BY <1>1, <1>2, <1>3, FS_PigeonHole
<1> QED BY <1>4

LEMMA SameSize ==
    ASSUME NEW S, IsFiniteSet(S), NEW T, NEW f \in [S -> T],
           \A x, y \in S : f[x] = f[y] => x = y, \A y \in T : \E x \in S : f[x] = y
    PROVE  Cardinality(T) = Cardinality(S)
<1>1. f \in Bijection(S, T)
  BY DEF Bijection, Injection, Surjection, IsInjective
<1> QED BY <1>1, FS_Bijection DEF ExistsBijection

LEMMA PlacesFinite ==
    ASSUME NEW a \in Int, NEW z \in Int
    PROVE  IsFiniteSet(a .. z - 1)
<1>1. z - 1 \in Int
  OBVIOUS
<1> QED BY <1>1, FS_Interval

\* What is out of order within a half goes back to where it came from, pair by pair.
LEMMA PairsKept ==
    ASSUME NEW n \in Nat, NEW a \in 1 .. n + 1, NEW mid \in a .. n + 1, NEW z \in mid .. n + 1,
           NEW v, NEW l, NEW r, NEW o, NEW q, NEW lower, NEW upper,
           Rearranged(n, v, l, a, mid, o), Rearranged(n, l, r, mid, z, q)
    PROVE  Cardinality(PairsTo(r, a, mid - 1, mid, z, lower, upper))
               = Cardinality(PairsTo(v, a, mid - 1, mid, z, lower, upper))
<1> DEFINE L == a .. mid - 1
           R == mid .. z - 1
           I == lower .. upper
           S == {p \in L \X R : r[p[2]] - r[p[1]] \in I}
           T == {p \in L \X R : v[p[2]] - v[p[1]] \in I}
           f == [p \in S |-> <<o[p[1]], q[p[2]]>>]
<1>1. S = PairsTo(r, a, mid - 1, mid, z, lower, upper) /\ T = PairsTo(v, a, mid - 1, mid, z, lower, upper)
  BY DEF PairsTo
<1>2. /\ a \in Int /\ mid \in Int /\ z \in Int
      /\ \A x \in L : x \in 1 .. n /\ x \notin R
      /\ \A y \in R : y \in 1 .. n /\ y \notin L
  OBVIOUS
<1>3. IsFiniteSet(L) /\ IsFiniteSet(R)
  BY <1>2, PlacesFinite
<1>4. /\ o \in [L -> L] /\ \A x, y \in L : o[x] = o[y] => x = y
      /\ q \in [R -> R] /\ \A x, y \in R : q[x] = q[y] => x = y
      /\ \A x \in 1 .. n : l[x] = IF x \in L THEN v[o[x]] ELSE v[x]
      /\ \A x \in 1 .. n : r[x] = IF x \in R THEN l[q[x]] ELSE l[x]
  BY DEF Rearranged
<1> HIDE DEF L, R, I
<1>5. \A x \in L : r[x] = v[o[x]]
  BY <1>2, <1>4
<1>6. \A y \in R : r[y] = v[q[y]]
  BY <1>2, <1>4
<1>7. IsFiniteSet(S)
  <2>1. IsFiniteSet(L \X R)
    BY <1>3, FS_Product
  <2> QED BY <2>1, FS_Subset
<1>8. f \in [S -> T]
  <2> SUFFICES ASSUME NEW p \in S PROVE <<o[p[1]], q[p[2]]>> \in T
    OBVIOUS
  <2> DEFINE x == p[1]
             y == p[2]
             e == <<o[x], q[y]>>
  <2>1. x \in L /\ y \in R /\ r[y] - r[x] \in I
    OBVIOUS
  <2> HIDE DEF x, y
  <2>2. o[x] \in L /\ q[y] \in R /\ v[q[y]] - v[o[x]] \in I
    BY <1>4, <1>5, <1>6, <2>1
  <2>3. e \in L \X R /\ e[1] = o[x] /\ e[2] = q[y]
    BY <2>2
  <2> HIDE DEF e
  <2>4. e \in T
    BY <2>2, <2>3
  <2> QED BY <2>4 DEF e, x, y
<1>9. ASSUME NEW p \in S, NEW u \in S, f[p] = f[u] PROVE p = u
  <2>1. p[1] \in L /\ p[2] \in R /\ u[1] \in L /\ u[2] \in R /\ p = <<p[1], p[2]>> /\ u = <<u[1], u[2]>>
    OBVIOUS
  <2>2. o[p[1]] = o[u[1]] /\ q[p[2]] = q[u[2]]
    BY <1>9
  <2>3. p[1] = u[1] /\ p[2] = u[2]
    BY <1>4, <2>1, <2>2
  <2> QED BY <2>1, <2>3
<1>10. ASSUME NEW p \in T PROVE \E u \in S : f[u] = p
  <2>1. p[1] \in L /\ p[2] \in R /\ p = <<p[1], p[2]>> /\ v[p[2]] - v[p[1]] \in I
    OBVIOUS
  <2>2. PICK x \in L : o[x] = p[1]
    BY <1>3, <1>4, <2>1, InjectionIsOnto
  <2>3. PICK y \in R : q[y] = p[2]
    BY <1>3, <1>4, <2>1, InjectionIsOnto
  <2> DEFINE e == <<x, y>>
  <2>4. e \in L \X R /\ e[1] = x /\ e[2] = y
    OBVIOUS
  <2>5. r[y] - r[x] \in I
    BY <1>5, <1>6, <2>1, <2>2, <2>3
  <2> HIDE DEF e
  <2>6. e \in S
    BY <2>4, <2>5
  <2>7. f[e] = <<o[x], q[y]>>
    BY <2>4, <2>6
  <2> QED BY <2>1, <2>2, <2>3, <2>6, <2>7
<1>11. Cardinality(T) = Cardinality(S)
  <2> HIDE DEF S, T, f
  <2> QED BY <1>7, <1>8, <1>9, <1>10, SameSize
<1> QED BY <1>1, <1>11

\* Two halves in another order are the whole in another order.
LEMMA RearrangedBoth ==
    ASSUME NEW n \in Nat, NEW a \in 1 .. n + 1, NEW mid \in a .. n + 1, NEW z \in mid .. n + 1,
           NEW v, NEW l, NEW r, NEW o, NEW q,
           Rearranged(n, v, l, a, mid, o), Rearranged(n, l, r, mid, z, q)
    PROVE  \E d : Rearranged(n, v, r, a, z, d)
<1> DEFINE L == a .. mid - 1
           R == mid .. z - 1
           W == a .. z - 1
           d == [p \in W |-> IF p \in L THEN o[p] ELSE q[p]]
<1>1. /\ W = L \cup R /\ L \cap R = {}
      /\ \A x \in W : x \in 1 .. n
  OBVIOUS
<1>2. /\ o \in [L -> L] /\ \A x, y \in L : o[x] = o[y] => x = y
      /\ q \in [R -> R] /\ \A x, y \in R : q[x] = q[y] => x = y
      /\ \A x \in 1 .. n : l[x] = IF x \in L THEN v[o[x]] ELSE v[x]
      /\ \A x \in 1 .. n : r[x] = IF x \in R THEN l[q[x]] ELSE l[x]
      /\ r \in [1 .. n -> Int]
  BY DEF Rearranged
<1>3. Rearranged(n, v, r, a, z, d) <=>
          /\ r \in [1 .. n -> Int]
          /\ d \in [W -> W]
          /\ \A x, y \in W : d[x] = d[y] => x = y
          /\ \A x \in 1 .. n : r[x] = IF x \in W THEN v[d[x]] ELSE v[x]
  <2> HIDE DEF d
  <2> QED BY DEF Rearranged
<1> HIDE DEF L, R, W
<1>4. d \in [W -> W]
  BY <1>1, <1>2
<1>5. \A x, y \in W : d[x] = d[y] => x = y
  BY <1>1, <1>2
<1>6. \A x \in 1 .. n : r[x] = IF x \in W THEN v[d[x]] ELSE v[x]
  BY <1>1, <1>2
<1> QED BY <1>2, <1>3, <1>4, <1>5, <1>6

\* And so is an order of what is in another order.
LEMMA RearrangedTwice ==
    ASSUME NEW n \in Nat, NEW a \in 1 .. n + 1, NEW z \in a .. n + 1,
           NEW v, NEW r, NEW w, NEW o, NEW q,
           Rearranged(n, v, r, a, z, o), Rearranged(n, r, w, a, z, q)
    PROVE  \E d : Rearranged(n, v, w, a, z, d)
<1> DEFINE W == a .. z - 1
           d == [p \in W |-> o[q[p]]]
<1>1. \A x \in W : x \in 1 .. n
  OBVIOUS
<1>2. /\ o \in [W -> W] /\ \A x, y \in W : o[x] = o[y] => x = y
      /\ q \in [W -> W] /\ \A x, y \in W : q[x] = q[y] => x = y
      /\ \A x \in 1 .. n : r[x] = IF x \in W THEN v[o[x]] ELSE v[x]
      /\ \A x \in 1 .. n : w[x] = IF x \in W THEN r[q[x]] ELSE r[x]
      /\ w \in [1 .. n -> Int]
  BY DEF Rearranged
<1>3. Rearranged(n, v, w, a, z, d) <=>
          /\ w \in [1 .. n -> Int]
          /\ d \in [W -> W]
          /\ \A x, y \in W : d[x] = d[y] => x = y
          /\ \A x \in 1 .. n : w[x] = IF x \in W THEN v[d[x]] ELSE v[x]
  <2> HIDE DEF d
  <2> QED BY DEF Rearranged
<1> HIDE DEF W
<1>4. d \in [W -> W]
  BY <1>2
<1>5. \A x, y \in W : d[x] = d[y] => x = y
  BY <1>2
<1>6. \A x \in 1 .. n : w[x] = IF x \in W THEN v[d[x]] ELSE v[x]
  BY <1>1, <1>2
<1> QED BY <1>2, <1>3, <1>4, <1>5, <1>6

\* The pairs of places from a to z - 1 whose difference is within the bounds.
PairsIn(v, a, z, lower, upper) ==
    {p \in (a .. z - 1) \X (a .. z - 1) : p[1] < p[2] /\ v[p[2]] - v[p[1]] \in lower .. upper}

LEMMA PairsSplit ==
    ASSUME NEW a \in Int, NEW mid \in Int, NEW z \in Int, a <= mid, mid <= z, NEW v, NEW lower, NEW upper
    PROVE  /\ IsFiniteSet(PairsIn(v, a, z, lower, upper))
           /\ Cardinality(PairsIn(v, a, z, lower, upper))
               = Cardinality(PairsIn(v, a, mid, lower, upper)) + Cardinality(PairsIn(v, mid, z, lower, upper))
                     + Cardinality(PairsTo(v, a, mid - 1, mid, z, lower, upper))
<1> DEFINE L == a .. mid - 1
           R == mid .. z - 1
           W == a .. z - 1
           In(p) == v[p[2]] - v[p[1]] \in lower .. upper
           A == {p \in L \X L : p[1] < p[2] /\ In(p)}
           B == {p \in R \X R : p[1] < p[2] /\ In(p)}
           C == {p \in L \X R : In(p)}
           D == {p \in W \X W : p[1] < p[2] /\ In(p)}
<1>1. /\ A = PairsIn(v, a, mid, lower, upper) /\ B = PairsIn(v, mid, z, lower, upper)
      /\ C = PairsTo(v, a, mid - 1, mid, z, lower, upper) /\ D = PairsIn(v, a, z, lower, upper)
  BY DEF PairsIn, PairsTo
<1>2. /\ W = L \cup R /\ L \cap R = {}
      /\ \A x \in L, y \in R : x < y /\ ~(y < x)
  OBVIOUS
<1>3. IsFiniteSet(L) /\ IsFiniteSet(R)
  BY PlacesFinite
<1> HIDE DEF L, R, W, In
<1>4. D = (A \cup B) \cup C /\ A \cap B = {} /\ (A \cup B) \cap C = {}
  BY <1>2
<1>5. IsFiniteSet(A) /\ IsFiniteSet(B) /\ IsFiniteSet(C)
  <2>1. IsFiniteSet(L \X L) /\ IsFiniteSet(R \X R) /\ IsFiniteSet(L \X R)
    BY <1>3, FS_Product
  <2> QED BY <2>1, FS_Subset
<1> HIDE DEF A, B, C, D
<1>6. /\ IsFiniteSet(A \cup B) /\ Cardinality(A \cup B) = Cardinality(A) + Cardinality(B) - Cardinality(A \cap B)
      /\ Cardinality(A) \in Nat /\ Cardinality(B) \in Nat /\ Cardinality(C) \in Nat
  BY <1>5, FS_Union, FS_CardinalityType
<1>7. /\ IsFiniteSet(D)
      /\ Cardinality(D) = Cardinality(A \cup B) + Cardinality(C) - Cardinality((A \cup B) \cap C)
  BY <1>4, <1>5, <1>6, FS_Union
<1>8. Cardinality({}) = 0
  BY FS_EmptySet
<1>9. Cardinality(A \cap B) = 0 /\ Cardinality((A \cup B) \cap C) = 0
  BY <1>4, <1>8
<1>10. Cardinality(D) = Cardinality(A) + Cardinality(B) + Cardinality(C)
  BY <1>6, <1>7, <1>9
<1> QED BY <1>1, <1>7, <1>10

\* What a call on the places from a to z - 1 of v is to leave.
IsMerged(n, lower, upper, a, z, v, e) ==
    /\ Sorted(e.sums, a, z)
    /\ \E o : Rearranged(n, v, e.sums, a, z, o)
    /\ e.count = Cardinality(PairsIn(v, a, z, lower, upper))

LEMMA FewMerged ==
    ASSUME NEW n \in Nat, NEW lower, NEW upper, NEW a \in 1 .. n + 1, NEW z \in a .. n + 1,
           NEW v \in [1 .. n -> Int], z - a <= 1
    PROVE  IsMerged(n, lower, upper, a, z, v, [sums |-> v, count |-> 0])
<1> DEFINE e == [sums |-> v, count |-> 0]
           W == a .. z - 1
           d == [p \in W |-> p]
<1>1. \A p, q \in W : p = q /\ p \in 1 .. n /\ ~(p < q)
  OBVIOUS
<1>2. e.sums = v /\ e.count = 0
  OBVIOUS
<1> HIDE DEF e
<1>3. Sorted(v, a, z)
  <2> SUFFICES ASSUME NEW p \in W, NEW q \in W PROVE v[p] <= v[q]
    BY DEF Sorted
  <2>1. p = q /\ v[p] \in Int
    BY <1>1
  <2> QED BY <2>1
<1>4. Rearranged(n, v, v, a, z, d)
  BY DEF Rearranged
<1>5. PairsIn(v, a, z, lower, upper) = {}
  BY <1>1 DEF PairsIn
<1>6. Cardinality(PairsIn(v, a, z, lower, upper)) = 0
  BY <1>5, FS_EmptySet
<1>7. \E o : Rearranged(n, v, v, a, z, o)
  BY <1>4
<1>8. IsMerged(n, lower, upper, a, z, v, e)
  BY <1>2, <1>3, <1>6, <1>7 DEF IsMerged
<1> QED BY <1>8 DEF e

LEMMA HalvesMerged ==
    ASSUME NEW n \in Nat, NEW lower \in Int, NEW upper \in Int, lower <= upper,
           NEW a \in 1 .. n + 1, NEW mid \in a .. n + 1, NEW z \in mid .. n + 1, a < mid,
           NEW v \in [1 .. n -> Int], NEW l \in MergeStates(n), NEW r \in MergeStates(n),
           IsMerged(n, lower, upper, a, mid, v, l), IsMerged(n, lower, upper, mid, z, l.sums, r)
    PROVE  LET b == Counting!Turns(r.sums, a, mid, z, lower, upper, l.count + r.count)
           IN  IsMerged(n, lower, upper, a, z, v, [sums |-> Combined(r.sums, a, b), count |-> b.count])
<1> DEFINE c == l.count + r.count
           s == r.sums
           u == l.sums
           b == Counting!Turns(s, a, mid, z, lower, upper, c)
           e == [sums |-> Combined(s, a, b), count |-> b.count]
           L == a .. mid - 1
           R == mid .. z - 1
<1>1. /\ u \in [1 .. n -> Int] /\ s \in [1 .. n -> Int] /\ l.count \in Int /\ r.count \in Int /\ c \in Int
      /\ a \in Int /\ mid \in Int /\ z \in Int
  BY DEF MergeStates
<1>2. PICK o : Rearranged(n, v, u, a, mid, o)
  BY DEF IsMerged
<1>3. PICK q : Rearranged(n, u, s, mid, z, q)
  BY DEF IsMerged
<1>4. Sorted(u, a, mid) /\ Sorted(s, mid, z)
  BY DEF IsMerged
<1>5. /\ l.count = Cardinality(PairsIn(v, a, mid, lower, upper))
      /\ r.count = Cardinality(PairsIn(u, mid, z, lower, upper))
  BY DEF IsMerged
<1> HIDE DEF s, u, b
<1>6. \A p \in L : p \in 1 .. n /\ s[p] = u[p]
  <2> SUFFICES ASSUME NEW p \in L PROVE p \in 1 .. n /\ s[p] = u[p]
    OBVIOUS
  <2>1. p \in 1 .. n /\ p \notin R
    OBVIOUS
  <2> QED BY <1>3, <2>1 DEF Rearranged
<1>7. Sorted(s, a, mid)
  BY <1>4, <1>6 DEF Sorted
<1>8. \A p \in R : v[p] = u[p]
  <2> SUFFICES ASSUME NEW p \in R PROVE v[p] = u[p]
    OBVIOUS
  <2>1. p \in 1 .. n /\ p \notin L
    OBVIOUS
  <2> QED BY <1>2, <2>1 DEF Rearranged
<1>9. PairsIn(u, mid, z, lower, upper) = PairsIn(v, mid, z, lower, upper)
  BY <1>8 DEF PairsIn
<1>10. HaveHalves(n, s, a, mid, z, lower, upper)
  <2>1. mid \in a .. n + 1 /\ z \in mid .. n + 1
    OBVIOUS
  <2> QED BY <1>1, <2>1 DEF HaveHalves
<1> HIDE DEF c
<1>11. /\ b \in TurnStates(mid, z)
       /\ MergedTo(s, a, mid, z, lower, upper, mid - 1, b)
       /\ b.count = c + Cardinality(PairsTo(s, a, mid - 1, mid, z, lower, upper))
  BY <1>1, <1>4, <1>7, <1>10, TurnsCorrect DEF b
<1>12. Len(b.cache) = b.t - a
  BY <1>1, <1>10, TurnsLength DEF b
<1>13. /\ Sorted(Combined(s, a, b), a, z)
       /\ \E d : Rearranged(n, s, Combined(s, a, b), a, z, d)
  BY <1>4, <1>7, <1>10, <1>11, <1>12, MergeIs
<1>14. \E d : Rearranged(n, v, Combined(s, a, b), a, z, d)
  <2>1. PICK d : Rearranged(n, v, s, a, z, d)
    BY <1>2, <1>3, RearrangedBoth
  <2>2. PICK f : Rearranged(n, s, Combined(s, a, b), a, z, f)
    BY <1>13
  <2>3. z \in a .. n + 1
    OBVIOUS
  <2> QED BY <2>1, <2>2, <2>3, RearrangedTwice
<1>15. Cardinality(PairsTo(s, a, mid - 1, mid, z, lower, upper)) = Cardinality(PairsTo(v, a, mid - 1, mid, z, lower, upper))
  BY <1>2, <1>3, PairsKept
<1>16. Cardinality(PairsIn(v, a, z, lower, upper))
           = Cardinality(PairsIn(v, a, mid, lower, upper)) + Cardinality(PairsIn(v, mid, z, lower, upper))
                 + Cardinality(PairsTo(v, a, mid - 1, mid, z, lower, upper))
  BY <1>1, PairsSplit
<1>17. b.count = Cardinality(PairsIn(v, a, z, lower, upper))
  <2> DEFINE x == Cardinality(PairsIn(v, a, mid, lower, upper))
             y == Cardinality(PairsIn(v, mid, z, lower, upper))
             w == Cardinality(PairsTo(v, a, mid - 1, mid, z, lower, upper))
  <2>1. c = x + y
    BY <1>5, <1>9 DEF c
  <2>2. b.count = c + w
    BY <1>11, <1>15
  <2> QED BY <1>16, <2>1, <2>2
<1>18. IsMerged(n, lower, upper, a, z, v, e)
  <2>1. e.sums = Combined(s, a, b) /\ e.count = b.count
    OBVIOUS
  <2> HIDE DEF e
  <2> QED BY <1>13, <1>14, <1>17, <2>1 DEF IsMerged
<1> QED BY <1>18 DEF e, b, s, c

LEMMA AllMerged ==
    ASSUME NEW n \in Nat, NEW lower \in Int, NEW upper \in Int, lower <= upper,
           NEW h \in [MergeInputs(n) -> MergeStates(n)],
           \A a, z \in 1 .. n + 1, v \in [1 .. n -> Int] : h[<<a, z, v>>] = MergeOf(h, a, z, v, lower, upper)
    PROVE  \A a \in 1 .. n + 1, z \in 1 .. n + 1, v \in [1 .. n -> Int] :
               a <= z => IsMerged(n, lower, upper, a, z, v, h[<<a, z, v>>])
<1> DEFINE Good(a, z, v) == IsMerged(n, lower, upper, a, z, v, h[<<a, z, v>>])
           U == {d \in Nat : \A a \in 1 .. n + 1, z \in 1 .. n + 1, v \in [1 .. n -> Int] : z - a = d => Good(a, z, v)}
<1>1. ASSUME NEW d \in Nat, \A k \in 0 .. d - 1 : k \in U,
             NEW a \in 1 .. n + 1, NEW z \in 1 .. n + 1, NEW v \in [1 .. n -> Int], z - a = d
      PROVE  Good(a, z, v)
  <2>1. a <= z /\ z \in a .. n + 1
    BY <1>1
  <2>2. CASE z - a <= 1
    <3>1. h[<<a, z, v>>] = [sums |-> v, count |-> 0]
      BY <2>2 DEF MergeOf
    <3> QED BY <2>1, <2>2, <3>1, FewMerged
  <2>3. CASE ~(z - a <= 1)
    <3> DEFINE mid == (a + z) \div 2
               l == h[<<a, mid, v>>]
               r == h[<<mid, z, l.sums>>]
               b == Counting!Turns(r.sums, a, mid, z, lower, upper, l.count + r.count)
    <3>1. /\ mid \in 1 .. n + 1 /\ mid \in a .. n + 1 /\ z \in mid .. n + 1 /\ a < mid
          /\ mid - a \in 0 .. d - 1 /\ z - mid \in 0 .. d - 1
      BY <1>1, <2>1, <2>3
    <3> HIDE DEF mid
    <3>2. \A x \in 1 .. n + 1, y \in 1 .. n + 1, w \in [1 .. n -> Int] : y - x \in 0 .. d - 1 => Good(x, y, w)
      <4> HIDE DEF Good
      <4> QED BY <1>1
    <3>3. l \in MergeStates(n)
      <4>1. <<a, mid, v>> \in MergeInputs(n)
        BY <3>1 DEF MergeInputs
      <4> QED BY <4>1
    <3>4. IsMerged(n, lower, upper, a, mid, v, l)
      BY <3>1, <3>2
    <3> HIDE DEF l
    <3>5. l.sums \in [1 .. n -> Int]
      BY <3>3 DEF MergeStates
    <3>6. r \in MergeStates(n)
      <4>1. <<mid, z, l.sums>> \in MergeInputs(n)
        BY <3>1, <3>5 DEF MergeInputs
      <4> QED BY <4>1
    <3>7. IsMerged(n, lower, upper, mid, z, l.sums, r)
      BY <3>1, <3>2, <3>5
    <3> HIDE DEF r
    <3>8. IsMerged(n, lower, upper, a, z, v, [sums |-> Combined(r.sums, a, b), count |-> b.count])
      BY <3>1, <3>3, <3>4, <3>6, <3>7, HalvesMerged
    <3>9. h[<<a, z, v>>] = [sums |-> Combined(r.sums, a, b), count |-> b.count]
      <4>1. h[<<a, z, v>>] = MergeOf(h, a, z, v, lower, upper)
        OBVIOUS
      <4> QED BY <2>3, <4>1 DEF MergeOf, mid, l, r
    <3> QED BY <3>8, <3>9
  <2> QED BY <2>2, <2>3
<1>2. ASSUME NEW d \in Nat, \A k \in 0 .. d - 1 : k \in U PROVE d \in U
  <2> HIDE DEF Good
  <2>1. \A a \in 1 .. n + 1, z \in 1 .. n + 1, v \in [1 .. n -> Int] : z - a = d => Good(a, z, v)
    BY <1>1, <1>2
  <2> QED BY <2>1
<1>3. \A d \in Nat : d \in U
  <2> HIDE DEF U
  <2> QED BY <1>2, FromSmaller
<1> SUFFICES ASSUME NEW a \in 1 .. n + 1, NEW z \in 1 .. n + 1, NEW v \in [1 .. n -> Int], a <= z
             PROVE  Good(a, z, v)
  OBVIOUS
<1>4. z - a \in Nat
  OBVIOUS
<1> HIDE DEF Good
<1> QED BY <1>3, <1>4

\* h has the sums, from place a on, of the differences d.
SumsUp(h, d, a, z) == h = [k \in a .. z |-> IF k = a THEN 0 ELSE h[k - 1] + d[k]]

LEMMA SumsUpExist ==
    ASSUME NEW a \in Int, NEW z \in Int, NEW d, \A k \in a + 1 .. z : d[k] \in Int
    PROVE  \E h : SumsUp(h, d, a, z)
<1> DEFINE S == a .. z
           m == [k \in S |-> k - a]
           step == [k \in S |-> [g \in [S -> Int] |-> IF k = a THEN 0 ELSE g[k - 1] + d[k]]]
<1>1. \A k \in S : k # a => k - 1 \in S /\ d[k] \in Int /\ m[k - 1] < m[k]
  <2> SUFFICES ASSUME NEW k \in S, k # a PROVE k - 1 \in S /\ d[k] \in Int /\ m[k - 1] < m[k]
    OBVIOUS
  <2>1. k - 1 \in S /\ k \in a + 1 .. z
    OBVIOUS
  <2>2. m[k] = k - a /\ m[k - 1] = (k - 1) - a
    BY <2>1
  <2> QED BY <2>1, <2>2
<1>2. m \in [S -> Nat]
  OBVIOUS
<1> HIDE DEF m
<1>3. step \in [S -> [[S -> Int] -> Int]]
  <2> SUFFICES ASSUME NEW k \in S, NEW g \in [S -> Int], k # a PROVE g[k - 1] + d[k] \in Int
    OBVIOUS
  <2>1. g[k - 1] \in Int /\ d[k] \in Int
    BY <1>1
  <2> QED BY <2>1
<1>4. LooksBelow(S, Int, m, step)
  <2> SUFFICES ASSUME NEW k \in S, NEW g \in [S -> Int], NEW h \in [S -> Int],
                      \A y \in S : m[y] < m[k] => g[y] = h[y]
               PROVE  step[k][g] = step[k][h]
    <3> HIDE DEF step, S
    <3> QED BY <1>2, <1>3 DEF LooksBelow
  <2>1. k # a => g[k - 1] = h[k - 1]
    BY <1>1
  <2> HIDE DEF S
  <2> QED BY <2>1
<1>5. PICK h \in [S -> Int] : \A k \in S : h[k] = step[k][h]
  <2> HIDE DEF S, step
  <2> QED BY <1>4, SolutionExists
<1>6. \A k \in S : h[k] = IF k = a THEN 0 ELSE h[k - 1] + d[k]
  <2> HIDE DEF S
  <2> QED BY <1>5
<1>7. h = [k \in S |-> h[k]]
  <2> HIDE DEF S, step
  <2> QED BY <1>5
<1>8. SumsUp(h, d, a, z)
  <2>1. h = [k \in S |-> IF k = a THEN 0 ELSE h[k - 1] + d[k]]
    <3> HIDE DEF S
    <3> QED BY <1>6, <1>7
  <2> QED BY <2>1 DEF SumsUp
<1> QED BY <1>8

LEMMA SumsUpAre ==
    ASSUME NEW a \in Int, NEW z \in Int, a <= z, NEW d, \A k \in a + 1 .. z : d[k] \in Int,
           NEW h, SumsUp(h, d, a, z)
    PROVE  /\ h \in [a .. z -> Int]
           /\ h[a] = 0 /\ \A k \in a + 1 .. z : h[k] = h[k - 1] + d[k]
<1>1. \A k \in a .. z : h[k] = IF k = a THEN 0 ELSE h[k - 1] + d[k]
  BY DEF SumsUp
<1>2. h = [k \in a .. z |-> h[k]]
  BY DEF SumsUp
<1>3. h[a] = 0 /\ \A k \in a + 1 .. z : h[k] = h[k - 1] + d[k]
  <2>1. a \in a .. z /\ \A k \in a + 1 .. z : k \in a .. z /\ k # a
    OBVIOUS
  <2> QED BY <1>1, <2>1
<1> DEFINE U == {x \in Nat : \A k \in a .. z : k - a = x => h[k] \in Int}
<1>4. ASSUME NEW x \in Nat, \A y \in 0 .. x - 1 : y \in U PROVE x \in U
  <2> SUFFICES ASSUME NEW k \in a .. z, k - a = x PROVE h[k] \in Int
    OBVIOUS
  <2>1. CASE k = a
    BY <1>3, <2>1
  <2>2. CASE k # a
    <3>1. k \in a + 1 .. z /\ k - 1 \in a .. z /\ (k - 1) - a \in 0 .. x - 1
      BY <2>2
    <3>2. h[k - 1] \in Int
      BY <1>4, <3>1
    <3>3. d[k] \in Int /\ h[k] = h[k - 1] + d[k]
      BY <1>3, <3>1
    <3> QED BY <3>2, <3>3
  <2> QED BY <2>1, <2>2
<1>5. \A x \in Nat : x \in U
  <2> HIDE DEF U
  <2> QED BY <1>4, FromSmaller
<1>6. \A k \in a .. z : h[k] \in Int
  <2> SUFFICES ASSUME NEW k \in a .. z PROVE h[k] \in Int
    OBVIOUS
  <2>1. k - a \in Nat
    OBVIOUS
  <2> QED BY <1>5, <2>1
<1> QED BY <1>2, <1>3, <1>6

\* What the definition sums up.
LEMMA SumOfIs ==
    ASSUME NEW w \in Seq(Int)
    PROVE  \E f : /\ f \in [0 .. Len(w) -> Int]
                  /\ f[0] = 0 /\ \A k \in 1 .. Len(w) : f[k] = f[k - 1] + w[k]
                  /\ Counting!SumOf(w) = f[Len(w)]
<1> DEFINE n == Len(w)
           Is(h) == h = [k \in 0 .. n |-> IF k = 0 THEN 0 ELSE h[k - 1] + w[k]]
           f == CHOOSE h : Is(h)
<1>1. n \in Nat /\ 0 \in Int /\ n \in Int /\ 0 + 1 = 1 /\ 0 <= n /\ \A k \in 0 + 1 .. n : w[k] \in Int
  OBVIOUS
<1> HIDE DEF n
<1>2. PICK h : SumsUp(h, w, 0, n)
  BY <1>1, SumsUpExist
<1>3. Is(h)
  BY <1>2 DEF SumsUp
<1>4. Is(f)
  <2> HIDE DEF Is
  <2> QED BY <1>3
<1>5. Counting!SumOf(w) = f[n]
  BY DEF Counting!SumOf, n
<1> HIDE DEF f
<1>6. SumsUp(f, w, 0, n)
  BY <1>4 DEF SumsUp
<1>7. /\ f \in [0 .. n -> Int]
      /\ f[0] = 0 /\ \A k \in 0 + 1 .. n : f[k] = f[k - 1] + w[k]
  BY <1>1, <1>6, SumsUpAre
<1> QED BY <1>1, <1>5, <1>7 DEF n

\* The sums that mergeCount is given.
HasPrefixes(nums, n, s) ==
    /\ s \in [1 .. n + 1 -> Int]
    /\ s[1] = 0 /\ \A k \in 1 .. n : s[k + 1] = s[k] + nums[k]

LEMMA PrefixIs ==
    ASSUME NEW nums \in Seq(Int), NEW lower, NEW upper
    PROVE  \E s : /\ HasPrefixes(nums, Len(nums), s)
                  /\ Counting!countRangeSum(nums, lower, upper)
                         = Counting!mergeCount(s, 1, Len(nums) + 2, lower, upper).count
<1> DEFINE n == Len(nums)
           z == n + 1
           Is(h) == h = [k \in 1 .. n + 1 |-> IF k = 1 THEN 0 ELSE h[k - 1] + nums[k - 1]]
           s == CHOOSE h : Is(h)
           d == [k \in 2 .. n + 1 |-> nums[k - 1]]
<1>1. n \in Nat /\ z \in Int /\ 1 \in Int /\ 1 <= z /\ 1 + 1 = 2 /\ z = n + 1
  OBVIOUS
<1>2. \A k \in 2 .. n + 1 : d[k] = nums[k - 1] /\ d[k] \in Int
  <2> SUFFICES ASSUME NEW k \in 2 .. n + 1 PROVE nums[k - 1] \in Int
    OBVIOUS
  <2>1. k - 1 \in 1 .. n
    BY <1>1
  <2> QED BY <2>1
<1> HIDE DEF n, d, z
<1>3. \A k \in 1 + 1 .. z : d[k] \in Int
  BY <1>1, <1>2
<1>4. PICK h : SumsUp(h, d, 1, z)
  BY <1>1, <1>3, SumsUpExist
<1>5. ASSUME NEW f PROVE Is(f) <=> SumsUp(f, d, 1, z)
  <2>1. \A k \in 1 .. n + 1 : k # 1 => d[k] = nums[k - 1]
    BY <1>1, <1>2
  <2>2. [k \in 1 .. n + 1 |-> IF k = 1 THEN 0 ELSE f[k - 1] + nums[k - 1]]
            = [k \in 1 .. n + 1 |-> IF k = 1 THEN 0 ELSE f[k - 1] + d[k]]
    BY <2>1
  <2> QED BY <1>1, <2>2 DEF SumsUp
<1>6. Is(h)
  BY <1>4, <1>5
<1>7. Is(s)
  <2> HIDE DEF Is
  <2> QED BY <1>6
<1>8. Counting!countRangeSum(nums, lower, upper) = Counting!mergeCount(s, 1, n + 2, lower, upper).count
  BY DEF Counting!countRangeSum, n
<1> HIDE DEF s
<1>9. SumsUp(s, d, 1, z)
  BY <1>5, <1>7
<1>10. /\ s \in [1 .. z -> Int]
       /\ s[1] = 0 /\ \A k \in 1 + 1 .. z : s[k] = s[k - 1] + d[k]
  <2> DEFINE e == 1
  <2>1. e \in Int /\ e <= z /\ (\A k \in e + 1 .. z : d[k] \in Int) /\ SumsUp(s, d, e, z)
    BY <1>1, <1>3, <1>9
  <2> HIDE DEF e, Is
  <2>2. /\ s \in [e .. z -> Int]
        /\ s[e] = 0 /\ \A k \in e + 1 .. z : s[k] = s[k - 1] + d[k]
    BY <1>1, <2>1, SumsUpAre
  <2> QED BY <2>2 DEF e
<1>11. ASSUME NEW k \in 1 .. n PROVE s[k + 1] = s[k] + nums[k]
  <2>1. k + 1 \in 1 + 1 .. z /\ k + 1 \in 2 .. n + 1 /\ (k + 1) - 1 = k
    BY <1>1
  <2> QED BY <1>2, <1>10, <2>1
<1>12. HasPrefixes(nums, n, s)
  <2>1. s \in [1 .. n + 1 -> Int] /\ s[1] = 0
    BY <1>1, <1>10
  <2> QED BY <1>11, <2>1 DEF HasPrefixes
<1> QED BY <1>8, <1>12 DEF n

\* The sum of a range is the difference of two of them.
LEMMA RangeSum ==
    ASSUME NEW nums \in Seq(Int), NEW s \in [1 .. Len(nums) + 1 -> Int],
           \A k \in 1 .. Len(nums) : s[k + 1] = s[k] + nums[k],
           NEW x \in 1 .. Len(nums), NEW y \in x .. Len(nums)
    PROVE  Counting!SumOf(SubSeq(nums, x, y)) = s[y + 1] - s[x]
<1> DEFINE n == Len(nums)
           w == SubSeq(nums, x, y)
           m == y - x + 1
<1>1. n \in Nat /\ x \in Int /\ y \in Int /\ m \in Nat /\ x <= y /\ (\A k \in x .. y : nums[k] \in Int) /\ x >= 1 /\ y <= n
      /\ m = y - x + 1
  OBVIOUS
<1>2. w \in Seq(Int) /\ Len(w) = m /\ \A k \in 1 .. m : w[k] = nums[x + k - 1]
  BY <1>1, SubSeqProperties
<1> HIDE DEF w, m
<1>8. \A p \in 1 .. n : nums[p] \in Int
  OBVIOUS
<1>9. \A p \in 1 .. n + 1 : s[p] \in Int
  OBVIOUS
<1>3. PICK f : /\ f \in [0 .. m -> Int]
               /\ f[0] = 0 /\ \A k \in 1 .. m : f[k] = f[k - 1] + w[k]
               /\ Counting!SumOf(w) = f[m]
  BY <1>2, SumOfIs
<1> DEFINE U == {k \in Nat : k <= m => f[k] = s[x + k] - s[x]}
<1>4. ASSUME NEW k \in Nat, \A j \in 0 .. k - 1 : j \in U PROVE k \in U
  <2> SUFFICES ASSUME k <= m PROVE f[k] = s[x + k] - s[x]
    BY Zenon
  <2>0. x \in 1 .. n + 1 /\ s[x] \in Int
    BY <1>1
  <2>1. CASE k = 0
    <3>1. x + k = x
      BY <1>1, <2>1
    <3>2. s[x + k] - s[x] = 0
      BY <2>0, <3>1
    <3> QED BY <1>3, <2>1, <3>2
  <2>2. CASE k # 0
    <3> DEFINE j == k - 1
               q == x + j
    <3>1. k \in 1 .. m /\ j \in 0 .. k - 1 /\ j \in Nat /\ j <= m /\ q \in 1 .. n /\ q \in 1 .. n + 1 /\ q + 1 \in 1 .. n + 1
          /\ q = x + k - 1 /\ q + 1 = x + k
      BY <1>1, <2>2
    <3>2. f[j] = s[q] - s[x]
      BY <1>4, <3>1
    <3>3. f[k] = f[j] + w[k] /\ w[k] = nums[q] /\ s[q + 1] = s[q] + nums[q]
      BY <1>2, <1>3, <3>1
    <3>4. s[q] \in Int /\ nums[q] \in Int /\ s[q + 1] = s[x + k]
      <4>1. q \in 1 .. n /\ q \in 1 .. n + 1 /\ q + 1 = x + k
        BY <3>1
      <4> HIDE DEF q, n
      <4>3. s[q] \in Int /\ nums[q] \in Int
        BY <1>8, <1>9, <4>1
      <4>4. s[q + 1] = s[x + k]
        BY <4>1
      <4> QED BY <4>3, <4>4
    <3> HIDE DEF j, q
    <3>5. f[k] = s[q + 1] - s[x]
      BY <2>0, <3>2, <3>3, <3>4
    <3> QED BY <3>4, <3>5
  <2> QED BY <2>1, <2>2
<1>5. \A k \in Nat : k \in U
  <2> HIDE DEF U
  <2> QED BY <1>4, FromSmaller
<1>6. f[m] = s[x + m] - s[x]
  BY <1>1, <1>5
<1>7. x + m = y + 1
  BY <1>1
<1> QED BY <1>3, <1>6, <1>7 DEF w

\* src/327.c: the count is that of the ranges whose sum is within the bounds.
LEMMA RangesCorrect ==
    ASSUME NEW nums \in Seq(Int), NEW lower \in Int, NEW upper \in Int, lower <= upper
    PROVE  Counting!RangesAreRight(nums, lower, upper)
<1> DEFINE N == Len(nums)
           n == N + 1
           I == lower .. upper
<1>1. N \in Nat /\ n \in Nat /\ n = N + 1 /\ N + 2 = n + 1 /\ 1 \in 1 .. n + 1 /\ n + 1 \in 1 .. n + 1 /\ 1 <= n + 1
  OBVIOUS
<1>20. PICK s : /\ HasPrefixes(nums, Len(nums), s)
                /\ Counting!countRangeSum(nums, lower, upper) = Counting!mergeCount(s, 1, Len(nums) + 2, lower, upper).count
  BY PrefixIs
<1>2. /\ s \in [1 .. n -> Int]
      /\ \A k \in 1 .. N : s[k + 1] = s[k] + nums[k]
      /\ Counting!countRangeSum(nums, lower, upper) = Counting!mergeCount(s, 1, N + 2, lower, upper).count
  BY <1>20 DEF HasPrefixes
<1>3. PICK h \in [MergeInputs(n) -> MergeStates(n)] :
          /\ \A a, z \in 1 .. n + 1, v \in [1 .. n -> Int] : h[<<a, z, v>>] = MergeOf(h, a, z, v, lower, upper)
          /\ Counting!mergeCount(s, 1, n + 1, lower, upper) = h[<<1, n + 1, s>>]
  BY <1>1, <1>2, MergeExists
<1>4. IsMerged(n, lower, upper, 1, n + 1, s, h[<<1, n + 1, s>>])
  BY <1>1, <1>2, <1>3, AllMerged
<1> DEFINE P == PairsIn(s, 1, n + 1, lower, upper)
           R == {r \in (1 .. N) \X (1 .. N) : r[1] <= r[2] /\ Counting!SumOf(SubSeq(nums, r[1], r[2])) \in I}
           f == [p \in P |-> <<p[1], p[2] - 1>>]
<1>5. Counting!countRangeSum(nums, lower, upper) = Cardinality(P)
  <2>1. Counting!mergeCount(s, 1, n + 1, lower, upper).count = Cardinality(P)
    BY <1>3, <1>4 DEF IsMerged
  <2> QED BY <1>1, <1>2, <2>1
<1>6. IsFiniteSet(P)
  <2>1. 1 \in Int /\ n + 1 \in Int /\ 1 <= n + 1 /\ 1 <= 1
    BY <1>1
  <2> QED BY <2>1, PairsSplit
<1>7. P = {p \in (1 .. n) \X (1 .. n) : p[1] < p[2] /\ s[p[2]] - s[p[1]] \in I}
  <2>1. (n + 1) - 1 = n
    BY <1>1
  <2> QED BY <2>1 DEF PairsIn
<1> HIDE DEF P
<1>8. ASSUME NEW x \in 1 .. N, NEW y \in x .. N
      PROVE  Counting!SumOf(SubSeq(nums, x, y)) = s[y + 1] - s[x]
  BY <1>2, RangeSum
<1> HIDE DEF N, n, I
<1>9. ASSUME NEW p \in P
      PROVE  /\ p[1] \in 1 .. N /\ p[2] - 1 \in p[1] .. N /\ (p[2] - 1) + 1 = p[2] /\ p = <<p[1], p[2]>>
             /\ p[1] \in Int /\ p[2] \in Int
             /\ f[p] = <<p[1], p[2] - 1>>
             /\ s[p[2]] - s[p[1]] \in I
  <2>1. p[1] \in 1 .. n /\ p[2] \in 1 .. n /\ p[1] < p[2] /\ p = <<p[1], p[2]>> /\ s[p[2]] - s[p[1]] \in I
    BY <1>7
  <2> DEFINE x == p[1]
             y == p[2]
  <2>2. x \in 1 .. n /\ y \in 1 .. n /\ x < y
    BY <2>1
  <2> HIDE DEF x, y
  <2>3. x \in 1 .. N /\ y - 1 \in x .. N /\ (y - 1) + 1 = y /\ x \in Int /\ y \in Int
    BY <1>1, <2>2
  <2> QED BY <2>1, <2>3 DEF x, y
<1>10. f \in [P -> R]
  <2> SUFFICES ASSUME NEW p \in P PROVE <<p[1], p[2] - 1>> \in R
    OBVIOUS
  <2> DEFINE x == p[1]
             y == p[2] - 1
             r == <<x, y>>
  <2>1. x \in 1 .. N /\ y \in x .. N /\ y + 1 = p[2] /\ s[y + 1] - s[x] \in I
    BY <1>9
  <2> HIDE DEF x, y
  <2>2. Counting!SumOf(SubSeq(nums, x, y)) \in I
    BY <1>8, <2>1
  <2>3. r \in (1 .. N) \X (1 .. N) /\ r[1] = x /\ r[2] = y /\ x <= y
    BY <1>1, <2>1
  <2> HIDE DEF r
  <2>4. r \in R
    BY <2>2, <2>3
  <2> QED BY <2>4 DEF r, x, y
<1>11. ASSUME NEW p \in P, NEW q \in P, f[p] = f[q] PROVE p = q
  <2>1. p[1] = q[1] /\ p[2] - 1 = q[2] - 1
    BY <1>9, <1>11
  <2>2. (p[2] - 1) + 1 = p[2] /\ (q[2] - 1) + 1 = q[2]
    BY <1>9
  <2>3. p[2] = q[2]
    BY <2>1, <2>2
  <2> QED BY <1>9, <2>1, <2>3
<1>12. ASSUME NEW r \in R PROVE \E p \in P : f[p] = r
  <2> DEFINE x == r[1]
             y == r[2]
             p == <<x, y + 1>>
  <2>1. x \in 1 .. N /\ y \in 1 .. N /\ x <= y /\ r = <<x, y>> /\ Counting!SumOf(SubSeq(nums, x, y)) \in I
    OBVIOUS
  <2> HIDE DEF x, y
  <2>2. y \in x .. N /\ x \in 1 .. n /\ y + 1 \in 1 .. n /\ x < y + 1 /\ (y + 1) - 1 = y
    BY <1>1, <2>1
  <2>3. s[y + 1] - s[x] \in I
    BY <1>8, <2>1, <2>2
  <2>4. p \in (1 .. n) \X (1 .. n) /\ p[1] = x /\ p[2] = y + 1
    BY <2>2
  <2> HIDE DEF p
  <2>5. p \in P
    BY <1>7, <2>2, <2>3, <2>4
  <2>6. f[p] = <<x, y>>
    BY <1>9, <2>2, <2>4, <2>5
  <2> QED BY <2>1, <2>5, <2>6
<1>13. Cardinality(R) = Cardinality(P)
  <2> HIDE DEF R, f
  <2> QED BY <1>6, <1>10, <1>11, <1>12, SameSize
<1>14. DOMAIN nums = 1 .. N
  BY DEF N
<1>15. Counting!RangesAreRight(nums, lower, upper) <=> Counting!countRangeSum(nums, lower, upper) = Cardinality(R)
  BY <1>14, SameCount DEF Counting!RangesAreRight, I
<1> QED BY <1>5, <1>13, <1>15

\* src/1649.c, 315.c and 327.c count what their definitions say, of any array: the Fenwick
\* tree, the search tree with counts and the merge sort leave no pair out and take none twice.
THEOREM CountsCorrect == InputSpec => []CountsAreRight
<1>1. InputInit => CountsAreRight
  <2> SUFFICES ASSUME InputInit PROVE CountsAreRight
    OBVIOUS
  <2>1. ASSUME kind = "instructions" PROVE Counting!CostIsRight(input)
    <3>1. input \in Seq(1 .. MAX_VAL)
      BY <2>1 DEF InputInit
    <3> QED BY <3>1, CostCorrect
  <2>2. ASSUME kind = "array"
        PROVE  /\ Counting!SmallerIsRight(input)
               /\ \A lower \in -1 .. 1, upper \in -1 .. 1 :
                      lower <= upper => Counting!RangesAreRight(input, lower, upper)
    <3>1. input \in Seq(Int)
      BY <2>2 DEF InputInit
    <3>2. -1 .. 1 \subseteq Int
      OBVIOUS
    <3> QED BY <3>1, <3>2, SmallerCorrect, RangesCorrect
  <2> QED BY <2>1, <2>2 DEF CountsAreRight
<1>2. CountsAreRight /\ [FALSE]_<<kind, input>> => CountsAreRight'
  BY DEF CountsAreRight
<1> QED BY <1>1, <1>2, PTL DEF InputSpec

-----------------------------------------------------------------------------
\* A node over trees of T, and the trees of every number of levels up to n.
BinOver(T) == [val : Trees!Ints, left : T, right : T]
HasHeights(n, h) ==
    /\ h = [k \in 0 .. n |-> h[k]]
    /\ h[0] = {Trees!NULL}
    /\ \A k \in 1 .. n : h[k] = {Trees!NULL} \cup BinOver(h[k - 1])

\* There are such trees for every number of levels.
LEMMA HeightsExist == ASSUME NEW n \in Nat PROVE \E h : HasHeights(n, h)
<1> DEFINE S == {k \in Nat : \E h : HasHeights(k, h)}
<1>1. ASSUME NEW k \in Nat, \A j \in 0 .. k - 1 : j \in S PROVE k \in S
  <2>1. CASE k = 0
    <3> DEFINE h == [j \in 0 .. 0 |-> {Trees!NULL}]
    <3>1. HasHeights(0, h)
      BY DEF HasHeights
    <3> QED BY <2>1, <3>1
  <2>2. CASE k # 0
    <3>1. k - 1 \in Nat /\ k - 1 \in S
      BY <1>1, <2>2
    <3>2. PICK h : HasHeights(k - 1, h)
      BY <3>1
    <3> DEFINE f == [j \in 0 .. k |-> IF j < k THEN h[j] ELSE {Trees!NULL} \cup BinOver(h[k - 1])]
    <3>3. f = [j \in 0 .. k |-> f[j]]
      OBVIOUS
    <3>4. f[0] = {Trees!NULL}
      <4>1. 0 \in 0 .. k /\ 0 < k
        BY <2>2
      <4> QED BY <3>2, <4>1 DEF HasHeights
    <3>5. ASSUME NEW j \in 1 .. k PROVE f[j] = {Trees!NULL} \cup BinOver(f[j - 1])
      <4>1. j - 1 \in 0 .. k /\ j - 1 < k /\ j \in 0 .. k
        OBVIOUS
      <4>2. f[j - 1] = h[j - 1]
        BY <4>1
      <4>3. CASE j = k
        <5>1. ~(j < k)
          BY <4>3
        <5>2. f[j] = {Trees!NULL} \cup BinOver(h[k - 1])
          BY <4>1, <5>1
        <5> QED BY <4>2, <4>3, <5>2
      <4>4. CASE j # k
        <5>1. j < k /\ j \in 1 .. k - 1
          BY <4>4
        <5>2. f[j] = h[j]
          BY <4>1, <5>1
        <5>3. h[j] = {Trees!NULL} \cup BinOver(h[j - 1])
          BY <3>2, <5>1 DEF HasHeights
        <5> QED BY <4>2, <5>2, <5>3
      <4> QED BY <4>3, <4>4
    <3>6. HasHeights(k, f)
      <4> HIDE DEF f
      <4> QED BY <3>3, <3>4, <3>5 DEF HasHeights
    <3> HIDE DEF f
    <3> QED BY <3>6
  <2> QED BY <2>1, <2>2
<1>2. \A k \in Nat : k \in S
  <2> HIDE DEF S
  <2> QED BY <1>1, FromSmaller
<1> QED BY <1>2

\* Trees of so many levels are the same however many more levels there are.
LEMMA HeightsAgree ==
    ASSUME NEW a \in Nat, NEW b \in Nat, NEW g, NEW h, HasHeights(a, g), HasHeights(b, h)
    PROVE  \A k \in Nat : k <= a /\ k <= b => g[k] = h[k]
<1> DEFINE S == {k \in Nat : k <= a /\ k <= b => g[k] = h[k]}
<1>1. ASSUME NEW k \in Nat, \A j \in 0 .. k - 1 : j \in S PROVE k \in S
  <2> SUFFICES ASSUME k <= a, k <= b PROVE g[k] = h[k]
    OBVIOUS
  <2>1. CASE k = 0
    BY <2>1 DEF HasHeights
  <2>2. CASE k # 0
    <3>1. k - 1 \in 0 .. k - 1 /\ k - 1 <= a /\ k - 1 <= b /\ k \in 1 .. a /\ k \in 1 .. b
      BY <2>2
    <3>2. g[k - 1] = h[k - 1]
      BY <1>1, <3>1
    <3> QED BY <3>1, <3>2 DEF HasHeights
  <2> QED BY <2>1, <2>2
<1> HIDE DEF S
<1>2. \A k \in Nat : k \in S
  BY <1>1, FromSmaller
<1> QED BY <1>2 DEF S

\* The definition by recursion says what it means to.
LEMMA UpToIs ==
    /\ Trees!UpTo(0) = {Trees!NULL}
    /\ \A n \in Nat : Trees!UpTo(n + 1) = {Trees!NULL} \cup BinOver(Trees!UpTo(n))
<1>1. ASSUME NEW n \in Nat PROVE \E h : HasHeights(n, h) /\ Trees!UpTo(n) = h[n]
  <2> DEFINE Is(h) == h = [k \in 0 .. n |-> IF k = 0 THEN {Trees!NULL}
                                            ELSE {Trees!NULL} \cup BinOver(h[k - 1])]
             trees == CHOOSE h : Is(h)
  <2>1. PICK h : HasHeights(n, h)
    BY HeightsExist
  <2>2. Is(h)
    <3>1. \A k \in 0 .. n : h[k] = IF k = 0 THEN {Trees!NULL} ELSE {Trees!NULL} \cup BinOver(h[k - 1])
      <4> SUFFICES ASSUME NEW k \in 0 .. n
                   PROVE  h[k] = IF k = 0 THEN {Trees!NULL} ELSE {Trees!NULL} \cup BinOver(h[k - 1])
        OBVIOUS
      <4>1. k # 0 => k \in 1 .. n
        OBVIOUS
      <4> QED BY <2>1, <4>1 DEF HasHeights
    <3>2. h = [k \in 0 .. n |-> h[k]]
      BY <2>1 DEF HasHeights
    <3> QED BY <3>1, <3>2
  <2>3. Is(trees)
    <3> HIDE DEF Is
    <3> QED BY <2>2
  <2>4. Trees!UpTo(n) = trees[n]
    BY DEF Trees!UpTo, BinOver
  <2> HIDE DEF trees
  <2>5. HasHeights(n, trees)
    <3>1. \A k \in 0 .. n : trees[k] = IF k = 0 THEN {Trees!NULL}
                                       ELSE {Trees!NULL} \cup BinOver(trees[k - 1])
      BY <2>3
    <3>2. trees = [k \in 0 .. n |-> trees[k]]
      BY <2>3
    <3>3. \A k \in 1 .. n : k \in 0 .. n /\ k # 0
      OBVIOUS
    <3> HIDE DEF Is
    <3> QED BY <3>1, <3>2, <3>3 DEF HasHeights
  <2> QED BY <2>4, <2>5
<1>2. Trees!UpTo(0) = {Trees!NULL}
  <2>1. PICK h : HasHeights(0, h) /\ Trees!UpTo(0) = h[0]
    BY <1>1
  <2> QED BY <2>1 DEF HasHeights
<1>3. ASSUME NEW n \in Nat PROVE Trees!UpTo(n + 1) = {Trees!NULL} \cup BinOver(Trees!UpTo(n))
  <2>1. PICK g : HasHeights(n, g) /\ Trees!UpTo(n) = g[n]
    BY <1>1
  <2> DEFINE b == n + 1
  <2>2. b \in Nat /\ n <= b /\ b \in 1 .. b /\ b - 1 = n
    OBVIOUS
  <2>3. PICK h : HasHeights(b, h) /\ Trees!UpTo(b) = h[b]
    BY <1>1, <2>2
  <2> HIDE DEF b
  <2>4. g[n] = h[n]
    BY <2>1, <2>2, <2>3, HeightsAgree
  <2>5. h[b] = {Trees!NULL} \cup BinOver(h[n])
    BY <2>2, <2>3 DEF HasHeights
  <2> QED BY <2>1, <2>3, <2>4, <2>5 DEF b
<1> QED BY <1>2, <1>3

\* Trees of any number of levels.
AllBins == UNION {Trees!UpTo(n) : n \in Nat}

\* A node is not NULL.
LEMMA BinIsNot == \A v, l, r : Trees!TreeNode(v, l, r) # Trees!NULL
<1> SUFFICES ASSUME NEW v, NEW l, NEW r, Trees!TreeNode(v, l, r) = <<>> PROVE FALSE
  BY DEF Trees!NULL
<1>1. DOMAIN Trees!TreeNode(v, l, r) = {"val", "left", "right"}
  BY DEF Trees!TreeNode
<1>2. DOMAIN <<>> = {}
  OBVIOUS
<1> HIDE DEF Trees!TreeNode
<1> QED BY <1>1, <1>2

\* The parts of a node.
LEMMA BinType ==
    ASSUME NEW T, NEW t \in BinOver(T)
    PROVE  /\ t.val \in Trees!Ints /\ t.left \in T /\ t.right \in T
           /\ t = Trees!TreeNode(t.val, t.left, t.right) /\ t # Trees!NULL
<1>1. t.val \in Trees!Ints /\ t.left \in T /\ t.right \in T
  BY DEF BinOver
<1>2. t = Trees!TreeNode(t.val, t.left, t.right)
  BY DEF BinOver, Trees!TreeNode
<1> QED BY <1>1, <1>2, BinIsNot

\* A tree of few levels is one of at most more levels.
LEMMA UpToGrows ==
    ASSUME NEW n \in Nat
    PROVE  \A k \in 0 .. n : Trees!UpTo(k) \subseteq Trees!UpTo(n)
<1> DEFINE S == {k \in Nat : \A j \in 0 .. k : Trees!UpTo(j) \subseteq Trees!UpTo(k)}
           N == Trees!NULL
<1> HIDE DEF N
<1>1. ASSUME NEW k \in Nat, \A j \in 0 .. k - 1 : j \in S PROVE k \in S
  <2> SUFFICES ASSUME NEW j \in 0 .. k, NEW t \in Trees!UpTo(j) PROVE t \in Trees!UpTo(k)
    OBVIOUS
  <2>1. CASE j = k
    BY <2>1
  <2>2. CASE j # k
    <3>1. k - 1 \in Nat /\ j \in 0 .. k - 1 /\ k - 1 \in S /\ (k - 1) + 1 = k
      BY <1>1, <2>2
    <3>2. t \in Trees!UpTo(k - 1)
      BY <3>1
    <3>3. Trees!UpTo(k) = {N} \cup BinOver(Trees!UpTo(k - 1))
      BY <3>1, UpToIs DEF N
    <3>4. CASE k - 1 = 0
      BY <3>2, <3>3, <3>4, UpToIs DEF N
    <3>5. CASE k - 1 # 0
      <4> DEFINE d == k - 2
      <4>1. d \in Nat /\ d + 1 = k - 1 /\ d \in 0 .. k - 1
        BY <3>1, <3>5
      <4>2. Trees!UpTo(k - 1) = {N} \cup BinOver(Trees!UpTo(d))
        <5> HIDE DEF d
        <5>1. Trees!UpTo(d + 1) = {N} \cup BinOver(Trees!UpTo(d))
          BY <4>1, UpToIs DEF N
        <5> QED BY <4>1, <5>1
      <4>3. Trees!UpTo(d) \subseteq Trees!UpTo(k - 1)
        BY <3>1, <4>1
      <4> HIDE DEF d
      <4> QED BY <3>2, <3>3, <4>2, <4>3 DEF BinOver
    <3> QED BY <3>4, <3>5
  <2> QED BY <2>1, <2>2
<1> HIDE DEF S
<1>2. \A k \in Nat : k \in S
  BY <1>1, FromSmaller
<1> QED BY <1>2 DEF S

\* A tree is empty, or a node over trees of fewer levels.
LEMMA BinIs ==
    ASSUME NEW n \in Nat, NEW t \in Trees!UpTo(n), t # Trees!NULL
    PROVE  n # 0 /\ t \in BinOver(Trees!UpTo(n - 1))
<1>1. n # 0
  BY UpToIs
<1>2. n - 1 \in Nat /\ (n - 1) + 1 = n
  BY <1>1
<1>3. Trees!UpTo(n) = {Trees!NULL} \cup BinOver(Trees!UpTo(n - 1))
  BY <1>2, UpToIs
<1> QED BY <1>1, <1>3

\* A node over two trees.
LEMMA BinIsTree ==
    ASSUME NEW n \in Nat, NEW l \in Trees!UpTo(n), NEW r \in Trees!UpTo(n), NEW v \in Trees!Ints
    PROVE  Trees!TreeNode(v, l, r) \in Trees!UpTo(n + 1)
<1>1. Trees!TreeNode(v, l, r) \in BinOver(Trees!UpTo(n))
  BY DEF Trees!TreeNode, BinOver
<1> QED BY <1>1, UpToIs

\* d measures the levels of every tree.
IsHeight(d) ==
    /\ d \in [AllBins -> Nat]
    /\ \A t \in AllBins : t \in Trees!UpTo(d[t])
    /\ \A n \in Nat : \A t \in Trees!UpTo(n) : d[t] <= n

\* Trees have a height.
LEMMA HeightExists == \E d : IsHeight(d)
<1> DEFINE P(t) == {n \in Nat : t \in Trees!UpTo(n)}
           Least(t, m) == m \in P(t) /\ \A n \in P(t) : m <= n
           d == [t \in AllBins |-> CHOOSE m : Least(t, m)]
<1>1. ASSUME NEW t \in AllBins PROVE Least(t, d[t])
  <2>1. P(t) # {} /\ P(t) \in SUBSET Nat
    BY DEF AllBins
  <2>2. \E m : Least(t, m)
    <3> HIDE DEF P
    <3> QED BY <2>1, SmallestOf
  <2> HIDE DEF Least
  <2> QED BY <2>2
<1>2. \A n \in Nat : \A t \in Trees!UpTo(n) : t \in AllBins
  BY DEF AllBins
<1>3. d = [t \in AllBins |-> d[t]]
  OBVIOUS
<1> HIDE DEF d
<1>4. \A t \in AllBins : d[t] \in Nat /\ t \in Trees!UpTo(d[t])
  BY <1>1
<1>5. \A n \in Nat : \A t \in Trees!UpTo(n) : d[t] <= n
  BY <1>1, <1>2
<1>6. d \in [AllBins -> Nat]
  BY <1>3, <1>4
<1> QED BY <1>4, <1>5, <1>6 DEF IsHeight

\* The empty tree, and nodes over trees, are all the trees.
LEMMA AllBinsAre ==
    /\ Trees!NULL \in AllBins
    /\ \A n \in Nat : Trees!UpTo(n) \subseteq AllBins
    /\ \A t \in AllBins : t # Trees!NULL => t \in BinOver(AllBins)
    /\ \A l, r \in AllBins, v \in Trees!Ints : Trees!TreeNode(v, l, r) \in AllBins
<1>1. \A n \in Nat : Trees!UpTo(n) \subseteq AllBins
  BY DEF AllBins
<1>2. Trees!NULL \in AllBins
  BY <1>1, UpToIs
<1>3. ASSUME NEW t \in AllBins, t # Trees!NULL PROVE t \in BinOver(AllBins)
  <2>1. PICK n \in Nat : t \in Trees!UpTo(n)
    BY DEF AllBins
  <2>2. n - 1 \in Nat /\ t \in BinOver(Trees!UpTo(n - 1))
    BY <1>3, <2>1, BinIs
  <2>3. Trees!UpTo(n - 1) \subseteq AllBins
    BY <1>1, <2>2
  <2> QED BY <2>2, <2>3 DEF BinOver
<1>4. ASSUME NEW l \in AllBins, NEW r \in AllBins, NEW v \in Trees!Ints
      PROVE  Trees!TreeNode(v, l, r) \in AllBins
  <2>1. PICK a \in Nat : l \in Trees!UpTo(a)
    BY DEF AllBins
  <2>2. PICK b \in Nat : r \in Trees!UpTo(b)
    BY DEF AllBins
  <2> DEFINE n == IF a <= b THEN b ELSE a
  <2>3. n \in Nat /\ n + 1 \in Nat /\ a \in 0 .. n /\ b \in 0 .. n
    OBVIOUS
  <2> HIDE DEF n
  <2>4. l \in Trees!UpTo(n) /\ r \in Trees!UpTo(n)
    BY <2>1, <2>2, <2>3, UpToGrows
  <2>5. Trees!TreeNode(v, l, r) \in Trees!UpTo(n + 1)
    BY <2>3, <2>4, BinIsTree
  <2> QED BY <1>1, <2>3, <2>5
<1> QED BY <1>1, <1>2, <1>3, <1>4

\* Subtrees are lower.
LEMMA HeightFalls ==
    ASSUME NEW d, IsHeight(d), NEW t \in AllBins, t # Trees!NULL
    PROVE  /\ t.left \in AllBins /\ t.right \in AllBins
           /\ d[t.left] < d[t] /\ d[t.right] < d[t]
<1>1. d[t] \in Nat /\ t \in Trees!UpTo(d[t])
  BY DEF IsHeight
<1> DEFINE n == d[t]
<1>2. n # 0 /\ t \in BinOver(Trees!UpTo(n - 1))
  <2> HIDE DEF n
  <2>1. n \in Nat /\ t \in Trees!UpTo(n)
    BY <1>1 DEF n
  <2> QED BY <2>1, BinIs
<1>3. t.left \in Trees!UpTo(n - 1) /\ t.right \in Trees!UpTo(n - 1) /\ n - 1 \in Nat
  <2>1. t.left \in Trees!UpTo(n - 1) /\ t.right \in Trees!UpTo(n - 1)
    BY <1>2 DEF BinOver
  <2> QED BY <1>1, <1>2, <2>1
<1>4. d[t.left] <= n - 1 /\ d[t.right] <= n - 1 /\ t.left \in AllBins /\ t.right \in AllBins
  BY <1>3, AllBinsAre DEF IsHeight
<1>5. d[t.left] \in Nat /\ d[t.right] \in Nat
  BY <1>4 DEF IsHeight
<1> QED BY <1>1, <1>4, <1>5

\* Trees with a node.
Bins == Trees!Tree \ {Trees!NULL}

\* Subtrees of a tree are trees.
LEMMA TreeParts ==
    /\ Trees!NULL \in Trees!Tree /\ Trees!Tree \subseteq AllBins
    /\ \A t \in Bins :
           /\ t.val \in Trees!Ints /\ t.left \in Trees!Tree /\ t.right \in Trees!Tree
           /\ t = Trees!TreeNode(t.val, t.left, t.right)
<1>1. Levels \in Nat /\ Trees!Tree = Trees!UpTo(Levels)
  BY InputAssumption DEF Trees!Tree
<1>2. Trees!NULL \in Trees!Tree
  <2>1. 0 \in 0 .. Levels
    BY <1>1
  <2> QED BY <1>1, <2>1, UpToIs, UpToGrows
<1>3. Trees!Tree \subseteq AllBins
  BY <1>1, AllBinsAre
<1>4. ASSUME NEW t \in Bins
      PROVE  /\ t.val \in Trees!Ints /\ t.left \in Trees!Tree /\ t.right \in Trees!Tree
             /\ t = Trees!TreeNode(t.val, t.left, t.right)
  <2>1. t \in Trees!UpTo(Levels) /\ t # Trees!NULL
    BY <1>1 DEF Bins
  <2>2. Levels # 0 /\ t \in BinOver(Trees!UpTo(Levels - 1))
    BY <1>1, <2>1, BinIs
  <2>3. Levels - 1 \in 0 .. Levels
    BY <1>1, <2>2
  <2>4. Trees!UpTo(Levels - 1) \subseteq Trees!Tree
    BY <1>1, <2>3, UpToGrows
  <2>5. t.val \in Trees!Ints /\ t.left \in Trees!UpTo(Levels - 1) /\ t.right \in Trees!UpTo(Levels - 1)
        /\ t = Trees!TreeNode(t.val, t.left, t.right)
    BY <2>2, BinType
  <2> QED BY <2>4, <2>5
<1> QED BY <1>2, <1>3, <1>4

\* What the empty tree has, and every node both of whose subtrees have it, every tree has.
LEMMA TreeInduction ==
    ASSUME NEW S, Trees!NULL \in S,
           \A t \in Bins : t.left \in S /\ t.right \in S => t \in S
    PROVE  \A t \in Trees!Tree : t \in S
<1>1. PICK d : IsHeight(d)
  BY HeightExists
<1> DEFINE T == {n \in Nat : \A t \in Trees!Tree : d[t] = n => t \in S}
<1>2. ASSUME NEW n \in Nat, \A k \in 0 .. n - 1 : k \in T PROVE n \in T
  <2> SUFFICES ASSUME NEW t \in Trees!Tree, d[t] = n, t # Trees!NULL PROVE t \in S
    OBVIOUS
  <2>1. t \in Bins /\ t \in AllBins /\ t.left \in Trees!Tree /\ t.right \in Trees!Tree
        /\ t.left \in AllBins /\ t.right \in AllBins
    BY TreeParts DEF Bins
  <2>2. d[t.left] < d[t] /\ d[t.right] < d[t]
    BY <1>1, <2>1, HeightFalls
  <2>3. d[t.left] \in 0 .. n - 1 /\ d[t.right] \in 0 .. n - 1
    BY <1>1, <2>1, <2>2 DEF IsHeight
  <2>4. d[t.left] \in T /\ d[t.right] \in T
    BY <1>2, <2>3
  <2> QED BY <2>1, <2>4
<1>3. \A n \in Nat : n \in T
  <2> HIDE DEF T
  <2> QED BY <1>2, FromSmaller
<1>4. \A t \in Trees!Tree : d[t] \in Nat
  BY <1>1, TreeParts DEF IsHeight
<1> QED BY <1>3, <1>4

\* A function on trees may be defined by its values for the subtrees.
Combines(X, zero, node) == zero \in X /\ node \in [Bins -> [X -> [X -> X]]]

\* Such a function exists.
LEMMA FoldExists ==
    ASSUME NEW X, NEW zero, NEW node, Combines(X, zero, node)
    PROVE  \E g \in [Trees!Tree -> X] :
               /\ g[Trees!NULL] = zero
               /\ \A t \in Bins : g[t] = node[t][g[t.left]][g[t.right]]
<1> DEFINE S == Trees!Tree
           N == Trees!NULL
           step == [t \in S |-> [g \in [S -> X] |-> IF t = N THEN zero ELSE node[t][g[t.left]][g[t.right]]]]
<1>1. PICK d : IsHeight(d)
  BY HeightExists
<1> DEFINE m == [t \in S |-> d[t]]
<1>2. \A t \in S : t # N => t \in Bins /\ t.left \in S /\ t.right \in S
  BY TreeParts DEF Bins
<1>3. m \in [S -> Nat]
  BY <1>1, TreeParts DEF IsHeight
<1>4. \A t \in S : t # N => m[t.left] < m[t] /\ m[t.right] < m[t]
  BY <1>1, <1>2, TreeParts, HeightFalls
<1>5. step \in [S -> [[S -> X] -> X]]
  <2> HIDE DEF S, N
  <2> SUFFICES ASSUME NEW t \in S, NEW g \in [S -> X]
               PROVE  (IF t = N THEN zero ELSE node[t][g[t.left]][g[t.right]]) \in X
    OBVIOUS
  <2>1. t # N => node[t][g[t.left]][g[t.right]] \in X
    BY <1>2 DEF Combines
  <2> QED BY <2>1 DEF Combines
<1> HIDE DEF m, S, N
<1>6. LooksBelow(S, X, m, step)
  <2> SUFFICES ASSUME NEW t \in S, NEW g \in [S -> X], NEW h \in [S -> X],
                      \A y \in S : m[y] < m[t] => g[y] = h[y]
               PROVE  step[t][g] = step[t][h]
    BY <1>3, <1>5 DEF LooksBelow
  <2>1. t # N => g[t.left] = h[t.left] /\ g[t.right] = h[t.right]
    BY <1>2, <1>4
  <2> QED BY <2>1
<1>7. X # {}
  BY DEF Combines
<1>8. PICK g \in [S -> X] : \A t \in S : g[t] = step[t][g]
  <2> HIDE DEF step
  <2> QED BY <1>6, <1>7, SolutionExists
<1>9. \A t \in S : g[t] = IF t = N THEN zero ELSE node[t][g[t.left]][g[t.right]]
  BY <1>8
<1>10. N \in S /\ \A t \in Bins : t \in S /\ t # N
  BY TreeParts DEF Bins, S, N
<1>11. g[N] = zero /\ \A t \in Bins : g[t] = node[t][g[t.left]][g[t.right]]
  BY <1>9, <1>10
<1> QED BY <1>8, <1>11 DEF S, N

-----------------------------------------------------------------------------
\* 1382.c and 104.c, by the subtrees.
LEMMA InorderIs ==
    /\ Trees!inorder(Trees!NULL) = <<>>
    /\ \A t \in Bins : Trees!inorder(t) = Trees!inorder(t.left) \o <<t.val>> \o Trees!inorder(t.right)
    /\ \A t \in Trees!Tree : Trees!inorder(t) \in Seq(Trees!Ints)
<1> DEFINE S == Trees!Tree
           N == Trees!NULL
           X == Seq(Trees!Ints)
           node == [t \in Bins |-> [a \in X |-> [b \in X |-> a \o <<t.val>> \o b]]]
           Is(h) == h = [t \in S |-> IF t = N THEN <<>> ELSE h[t.left] \o <<t.val>> \o h[t.right]]
           arr == CHOOSE h : Is(h)
<1>1. \A t \in Bins, a, b \in X : a \o <<t.val>> \o b \in X
  BY TreeParts
<1>2. node \in [Bins -> [X -> [X -> X]]] /\ <<>> \in X
  BY <1>1
<1> HIDE DEF X
<1>3. PICK g \in [S -> X] : g[N] = <<>> /\ \A t \in Bins : g[t] = node[t][g[t.left]][g[t.right]]
  <2> DEFINE zero == <<>>
  <2>1. Combines(X, zero, node)
    BY <1>2 DEF Combines
  <2> HIDE DEF node, zero
  <2>2. \E g \in [Trees!Tree -> X] :
               /\ g[Trees!NULL] = zero
               /\ \A t \in Bins : g[t] = node[t][g[t.left]][g[t.right]]
    BY <2>1, FoldExists
  <2> QED BY <2>2 DEF zero
<1>4. \A t \in S : t # N => t \in Bins /\ t.left \in S /\ t.right \in S
  BY TreeParts DEF Bins
<1> HIDE DEF S, N
<1>5. \A t \in S : g[t] = IF t = N THEN <<>> ELSE g[t.left] \o <<t.val>> \o g[t.right]
  BY <1>3, <1>4
<1>6. Is(g)
  BY <1>5
<1>7. Is(arr)
  <2> HIDE DEF Is
  <2> QED BY <1>6
<1>8. \A t : Trees!inorder(t) = arr[t]
  BY DEF Trees!inorder, S, N
<1>9. \A t \in S : arr[t] = IF t = N THEN <<>> ELSE arr[t.left] \o <<t.val>> \o arr[t.right]
  BY <1>7
<1> HIDE DEF arr, Is
<1>10. N \in S /\ \A t \in Bins : t \in S /\ t # N
  BY TreeParts DEF Bins, S, N
<1> DEFINE G == {t \in S : arr[t] \in X}
<1>11. \A t \in S : t \in G
  <2>1. N \in G
    BY <1>2, <1>9, <1>10
  <2>2. \A t \in Bins : t.left \in G /\ t.right \in G => t \in G
    BY <1>1, <1>9, <1>10
  <2> HIDE DEF G
  <2> QED BY <2>1, <2>2, TreeInduction DEF S, N
<1>12. arr[N] = <<>> /\ \A t \in Bins : arr[t] = arr[t.left] \o <<t.val>> \o arr[t.right]
  BY <1>9, <1>10
<1>13. \A t \in S : arr[t] \in X
  BY <1>11
<1> QED BY <1>8, <1>12, <1>13 DEF S, N, X

\* The greater of two numbers.
LEMMA MaxOfTwo ==
    ASSUME NEW a \in Int, NEW b \in Int
    PROVE  Trees!Max({a, b}) = IF a <= b THEN b ELSE a
<1> DEFINE c == IF a <= b THEN b ELSE a
           Most(x) == x \in {a, b} /\ \A y \in {a, b} : x >= y
<1>1. Most(c)
  OBVIOUS
<1>2. \A x : Most(x) => x = c
  OBVIOUS
<1>3. Trees!Max({a, b}) = CHOOSE x \in {a, b} : \A y \in {a, b} : x >= y
  BY DEF Trees!Max
<1>4. Most(Trees!Max({a, b}))
  BY <1>1, <1>3
<1> QED BY <1>2, <1>4

\* 104.c.
LEMMA DepthIs ==
    /\ Trees!maxDepth(Trees!NULL) = 0
    /\ \A t \in Bins : Trees!maxDepth(t) = Trees!Max({Trees!maxDepth(t.left), Trees!maxDepth(t.right)}) + 1
    /\ \A t \in Trees!Tree : Trees!maxDepth(t) \in Nat
<1> DEFINE S == Trees!Tree
           N == Trees!NULL
           X == Nat
           M(a, b) == Trees!Max({a, b})
           node == [t \in Bins |-> [a \in X |-> [b \in X |-> M(a, b) + 1]]]
           Is(h) == h = [t \in S |-> IF t = N THEN 0 ELSE M(h[t.left], h[t.right]) + 1]
           depth == CHOOSE h : Is(h)
<1>1. \A a, b \in X : M(a, b) + 1 \in X
  BY MaxOfTwo
<1> HIDE DEF M
<1>2. node \in [Bins -> [X -> [X -> X]]] /\ 0 \in X
  BY <1>1
<1> HIDE DEF X
<1>3. PICK g \in [S -> X] : g[N] = 0 /\ \A t \in Bins : g[t] = node[t][g[t.left]][g[t.right]]
  <2>1. Combines(X, 0, node)
    BY <1>2 DEF Combines
  <2> HIDE DEF node
  <2> QED BY <2>1, FoldExists
<1>4. \A t \in S : t # N => t \in Bins /\ t.left \in S /\ t.right \in S
  BY TreeParts DEF Bins
<1> HIDE DEF S, N
<1>5. \A t \in S : g[t] = IF t = N THEN 0 ELSE M(g[t.left], g[t.right]) + 1
  BY <1>3, <1>4
<1>6. Is(g)
  BY <1>5
<1>7. Is(depth)
  <2> HIDE DEF Is
  <2> QED BY <1>6
<1>8. \A t : Trees!maxDepth(t) = depth[t]
  BY DEF Trees!maxDepth, S, N, M
<1>9. \A t \in S : depth[t] = IF t = N THEN 0 ELSE M(depth[t.left], depth[t.right]) + 1
  BY <1>7
<1> HIDE DEF depth, Is
<1>10. N \in S /\ \A t \in Bins : t \in S /\ t # N
  BY TreeParts DEF Bins, S, N
<1> DEFINE G == {t \in S : depth[t] \in X}
<1>11. \A t \in S : t \in G
  <2>1. N \in G
    BY <1>2, <1>9, <1>10
  <2>2. \A t \in Bins : t.left \in G /\ t.right \in G => t \in G
    BY <1>1, <1>9, <1>10
  <2> HIDE DEF G
  <2> QED BY <2>1, <2>2, TreeInduction DEF S, N
<1>12. depth[N] = 0 /\ \A t \in Bins : depth[t] = M(depth[t.left], depth[t.right]) + 1
  BY <1>9, <1>10
<1>13. \A t \in S : depth[t] \in X
  BY <1>11
<1> QED BY <1>8, <1>12, <1>13 DEF S, N, X, M

\* 98.c.
LEMMA HelperIs ==
    /\ \A a, b \in Int : Trees!helper(Trees!NULL, a, b)
    /\ \A t \in Bins, a, b \in Int :
           Trees!helper(t, a, b) <=> /\ a < t.val /\ t.val < b
                                     /\ Trees!helper(t.left, a, t.val) /\ Trees!helper(t.right, t.val, b)
    /\ \A t \in Trees!Tree, a, b \in Int : Trees!helper(t, a, b) \in BOOLEAN
<1> DEFINE S == Trees!Tree
           N == Trees!NULL
           P == Int \X Int
           X == [P -> BOOLEAN]
           zero == [b \in P |-> TRUE]
           Within(t, l, r, b) == /\ t.val > b[1] /\ t.val < b[2]
                                 /\ l[<<b[1], t.val>>] /\ r[<<t.val, b[2]>>]
           node == [t \in Bins |-> [l \in X |-> [r \in X |-> [b \in P |-> Within(t, l, r, b)]]]]
           Is(h) == h = [t \in S |-> [b \in P |-> t = N \/ Within(t, h[t.left], h[t.right], b)]]
           within == CHOOSE h : Is(h)
<1>1. ASSUME NEW t \in Bins, NEW l \in X, NEW r \in X, NEW b \in P
      PROVE  Within(t, l, r, b) \in BOOLEAN
  OBVIOUS
<1>2. \A t, h : [b \in P |-> t = N \/ Within(t, h[t.left], h[t.right], b)] \in X
  OBVIOUS
<1>3. Combines(X, zero, node)
  <2>1. zero \in X
    OBVIOUS
  <2>2. \A t \in Bins, l \in X, r \in X : [b \in P |-> Within(t, l, r, b)] \in X
    BY <1>1
  <2> HIDE DEF X, zero, Within
  <2>3. node \in [Bins -> [X -> [X -> X]]]
    BY <2>2
  <2> HIDE DEF node
  <2> QED BY <2>1, <2>3 DEF Combines
<1>4. PICK g \in [S -> X] : g[N] = zero /\ \A t \in Bins : g[t] = node[t][g[t.left]][g[t.right]]
  <2> HIDE DEF node, zero, X
  <2> QED BY <1>3, FoldExists
<1>5. \A t \in S : t # N => t \in Bins /\ t.left \in S /\ t.right \in S
  BY TreeParts DEF Bins
<1> HIDE DEF S, N
<1>6. ASSUME NEW t \in S PROVE g[t] = [b \in P |-> t = N \/ Within(t, g[t.left], g[t.right], b)]
  <2>1. CASE t = N
    BY <1>4, <2>1
  <2>2. CASE t # N
    <3>1. t \in Bins /\ g[t.left] \in X /\ g[t.right] \in X
      BY <1>4, <1>5, <2>2
    <3>2. g[t] = [b \in P |-> Within(t, g[t.left], g[t.right], b)]
      <4> HIDE DEF X, Within
      <4> QED BY <1>4, <3>1
    <3> QED BY <2>2, <3>2
  <2> QED BY <2>1, <2>2
<1>7. Is(g)
  <2> HIDE DEF Within, P, X
  <2>1. g = [t \in S |-> g[t]]
    OBVIOUS
  <2> QED BY <1>6, <2>1
<1>8. Is(within)
  <2> HIDE DEF Is
  <2> QED BY <1>7
<1>9. \A t, a, b : Trees!helper(t, a, b) = within[t][<<a, b>>]
  BY DEF Trees!helper, S, N
<1>10. \A t \in S : within[t] = [b \in P |-> t = N \/ Within(t, within[t.left], within[t.right], b)]
  <2> HIDE DEF within, Within, P
  <2> QED BY <1>8
<1> HIDE DEF within, Is
<1>11. N \in S /\ \A t \in Bins : t \in S /\ t # N
  BY TreeParts DEF Bins, S, N
<1>12. ASSUME NEW a \in Int, NEW b \in Int PROVE Trees!helper(N, a, b)
  BY <1>9, <1>10, <1>11
<1>13. ASSUME NEW t \in Bins, NEW a \in Int, NEW b \in Int
       PROVE  Trees!helper(t, a, b) <=> /\ a < t.val /\ t.val < b
                                        /\ Trees!helper(t.left, a, t.val) /\ Trees!helper(t.right, t.val, b)
  <2>1. t.val \in Int
    BY TreeParts, InputAssumption DEF Trees!Ints, Trees!LONG_MIN
  <2>2. within[t][<<a, b>>] <=> Within(t, within[t.left], within[t.right], <<a, b>>)
    <3> HIDE DEF Within
    <3> QED BY <1>10, <1>11
  <2> QED BY <1>9, <2>1, <2>2
<1>14. ASSUME NEW t \in S, NEW a \in Int, NEW b \in Int PROVE Trees!helper(t, a, b) \in BOOLEAN
  <2> DEFINE f == [c \in P |-> t = N \/ Within(t, within[t.left], within[t.right], c)]
  <2>1. f \in X
    OBVIOUS
  <2>2. within[t] = f
    BY <1>10
  <2> HIDE DEF f, Within
  <2>3. within[t] \in X
    BY <2>1, <2>2
  <2> QED BY <1>9, <2>3
<1> QED BY <1>12, <1>13, <1>14 DEF S, N

\* 450.c.
LEMMA FindMinIs ==
    \A t \in Bins :
        /\ Trees!findMin(t) \in Bins
        /\ Trees!findMin(t) = IF t.left = Trees!NULL THEN t ELSE Trees!findMin(t.left)
<1> DEFINE N == Trees!NULL
           X == AllBins
           step == [t \in Bins |-> [g \in [Bins -> X] |-> IF t.left = N THEN t ELSE g[t.left]]]
           Is(h) == h = [t \in Bins |-> IF t.left = N THEN t ELSE h[t.left]]
           least == CHOOSE h : Is(h)
<1>1. PICK d : IsHeight(d)
  BY HeightExists
<1> DEFINE m == [t \in Bins |-> d[t]]
<1>2. \A t \in Bins : t \in AllBins /\ (t.left # N => t.left \in Bins)
  BY TreeParts DEF Bins
<1>3. m \in [Bins -> Nat]
  BY <1>1, <1>2 DEF IsHeight
<1>4. \A t \in Bins : t.left # N => m[t.left] < m[t]
  BY <1>1, <1>2, HeightFalls DEF Bins
<1>5. step \in [Bins -> [[Bins -> X] -> X]]
  BY <1>2
<1> HIDE DEF m, N
<1>6. LooksBelow(Bins, X, m, step)
  <2> SUFFICES ASSUME NEW t \in Bins, NEW g \in [Bins -> X], NEW h \in [Bins -> X],
                      \A y \in Bins : m[y] < m[t] => g[y] = h[y]
               PROVE  step[t][g] = step[t][h]
    <3> HIDE DEF step
    <3> QED BY <1>3, <1>5 DEF LooksBelow
  <2>1. t.left # N => g[t.left] = h[t.left]
    BY <1>2, <1>4
  <2> QED BY <2>1
<1>7. X # {}
  BY AllBinsAre
<1>8. PICK g \in [Bins -> X] : \A t \in Bins : g[t] = step[t][g]
  <2> HIDE DEF step, X
  <2> QED BY <1>6, <1>7, SolutionExists
<1>9. \A t \in Bins : g[t] = IF t.left = N THEN t ELSE g[t.left]
  BY <1>8
<1>10. Is(g)
  BY <1>9
<1>11. Is(least)
  <2> HIDE DEF Is
  <2> QED BY <1>10
<1>12. \A t : Trees!findMin(t) = least[t]
  BY DEF Trees!findMin, Bins, N
<1>13. \A t \in Bins : least[t] = IF t.left = N THEN t ELSE least[t.left]
  BY <1>11
<1> HIDE DEF least, Is
<1> DEFINE G == {t \in Trees!Tree : t # N => least[t] \in Bins}
<1>14. \A t \in Trees!Tree : t \in G
  <2>1. Trees!NULL \in G
    BY TreeParts DEF N
  <2>2. ASSUME NEW t \in Bins, t.left \in G, t.right \in G PROVE t \in G
    <3>1. t \in Trees!Tree
      BY DEF Bins
    <3>2. t.left # N => least[t.left] \in Bins
      BY <2>2
    <3> QED BY <1>13, <3>1, <3>2
  <2> HIDE DEF G
  <2> QED BY <2>1, <2>2, TreeInduction
<1>15. \A t \in Bins : least[t] \in Bins
  BY <1>14 DEF Bins, N
<1> QED BY <1>12, <1>13, <1>15 DEF N

\* 700.c.
LEMMA SearchIs ==
    ASSUME NEW v \in Int
    PROVE  /\ Trees!searchBST(Trees!NULL, v) = Trees!NULL
           /\ \A t \in Bins :
                  Trees!searchBST(t, v) = IF t.val = v THEN t
                                          ELSE IF v < t.val THEN Trees!searchBST(t.left, v)
                                          ELSE Trees!searchBST(t.right, v)
<1> DEFINE S == Trees!Tree
           N == Trees!NULL
           Pick(t, a, b) == IF t.val = v THEN t ELSE IF v < t.val THEN a ELSE b
           node == [t \in Bins |-> [a \in S |-> [b \in S |-> Pick(t, a, b)]]]
           Is(h) == h = [t \in S |-> IF t = N \/ t.val = v THEN t
                                     ELSE h[IF v < t.val THEN t.left ELSE t.right]]
           found == CHOOSE h : Is(h)
<1>1. N \in S /\ \A t \in Bins : t \in S /\ t # N
  BY TreeParts DEF Bins
<1>2. Combines(S, N, node)
  <2> HIDE DEF S
  <2>1. node \in [Bins -> [S -> [S -> S]]]
    BY <1>1
  <2> HIDE DEF node
  <2> QED BY <1>1, <2>1 DEF Combines
<1>3. PICK g \in [S -> S] : g[N] = N /\ \A t \in Bins : g[t] = node[t][g[t.left]][g[t.right]]
  <2> HIDE DEF node
  <2> QED BY <1>2, FoldExists
<1>4. \A t \in S : t # N => t \in Bins /\ t.left \in S /\ t.right \in S
  BY TreeParts DEF Bins
<1> HIDE DEF S, N
<1>5. \A t \in S : g[t] = IF t = N \/ t.val = v THEN t ELSE g[IF v < t.val THEN t.left ELSE t.right]
  <2> SUFFICES ASSUME NEW t \in S
               PROVE  g[t] = IF t = N \/ t.val = v THEN t ELSE g[IF v < t.val THEN t.left ELSE t.right]
    OBVIOUS
  <2>1. CASE t = N
    BY <1>3, <2>1
  <2>2. CASE t # N
    <3>1. g[t] = Pick(t, g[t.left], g[t.right])
      <4> HIDE DEF Pick
      <4>1. t \in Bins /\ g[t.left] \in S /\ g[t.right] \in S
        BY <1>3, <1>4, <2>2
      <4> QED BY <1>3, <4>1
    <3> QED BY <2>2, <3>1
  <2> QED BY <2>1, <2>2
<1>6. Is(g)
  BY <1>5
<1>7. Is(found)
  <2> HIDE DEF Is
  <2> QED BY <1>6
<1>8. \A t : Trees!searchBST(t, v) = found[t]
  BY DEF Trees!searchBST, S, N
<1>9. \A t \in S : found[t] = IF t = N \/ t.val = v THEN t ELSE found[IF v < t.val THEN t.left ELSE t.right]
  BY <1>7
<1> HIDE DEF found, Is
<1>10. found[N] = N
  BY <1>1, <1>9
<1>11. \A t \in Bins : found[t] = IF t.val = v THEN t ELSE IF v < t.val THEN found[t.left] ELSE found[t.right]
  <2> SUFFICES ASSUME NEW t \in Bins
               PROVE  found[t] = IF t.val = v THEN t ELSE IF v < t.val THEN found[t.left] ELSE found[t.right]
    OBVIOUS
  <2>1. found[t] = IF t.val = v THEN t ELSE found[IF v < t.val THEN t.left ELSE t.right]
    BY <1>1, <1>9
  <2> QED BY <2>1
<1> QED BY <1>8, <1>10, <1>11 DEF S, N

\* 100.c compares trees.
LEMMA SameIs ==
    \A t, u \in Trees!Tree : Trees!isSameTree(t, u) <=> t = u
<1> DEFINE S == Trees!Tree
           N == Trees!NULL
           X == [S -> BOOLEAN]
           zero == [u \in S |-> u = N]
           Both(t, l, r, u) == u # N /\ t.val = u.val /\ l[u.left] /\ r[u.right]
           node == [t \in Bins |-> [l \in X |-> [r \in X |-> [u \in S |-> Both(t, l, r, u)]]]]
           Body(h, t, u) == IF t = N \/ u = N THEN t = N /\ u = N
                            ELSE t.val = u.val /\ h[t.left][u.left] /\ h[t.right][u.right]
           Is(h) == h = [t \in S |-> [u \in S |-> Body(h, t, u)]]
           same == CHOOSE h : Is(h)
<1>1. N \in S /\ \A t \in Bins : t \in S /\ t # N
  BY TreeParts DEF Bins
<1>2. \A t \in S : t # N => t \in Bins /\ t.left \in S /\ t.right \in S
  BY TreeParts DEF Bins
<1> HIDE DEF S, N
<1>3. Combines(X, zero, node)
  <2>1. zero \in X
    OBVIOUS
  <2>2. \A t \in Bins, l \in X, r \in X : [u \in S |-> Both(t, l, r, u)] \in X
    OBVIOUS
  <2> HIDE DEF X, zero, Both
  <2>3. node \in [Bins -> [X -> [X -> X]]]
    BY <2>2
  <2> HIDE DEF node
  <2> QED BY <2>1, <2>3 DEF Combines
<1>4. PICK g \in [S -> X] : g[N] = zero /\ \A t \in Bins : g[t] = node[t][g[t.left]][g[t.right]]
  <2> HIDE DEF node, zero, X
  <2> QED BY <1>3, FoldExists DEF S, N
<1>5. ASSUME NEW t \in S PROVE g[t] = [u \in S |-> Body(g, t, u)]
  <2>1. CASE t = N
    BY <1>4, <2>1
  <2>2. CASE t # N
    <3>1. t \in Bins /\ g[t.left] \in X /\ g[t.right] \in X
      <4> HIDE DEF X
      <4> QED BY <1>2, <1>4, <2>2
    <3>2. g[t] = [u \in S |-> Both(t, g[t.left], g[t.right], u)]
      <4> HIDE DEF X, Both
      <4> QED BY <1>4, <3>1
    <3>3. \A u \in S : Both(t, g[t.left], g[t.right], u) = Body(g, t, u)
      BY <2>2, <3>1
    <3> HIDE DEF Both, Body
    <3> QED BY <3>2, <3>3
  <2> QED BY <2>1, <2>2
<1>6. Is(g)
  <2> HIDE DEF Body, X
  <2>1. g = [t \in S |-> g[t]]
    OBVIOUS
  <2> QED BY <1>5, <2>1
<1>7. Is(same)
  <2> HIDE DEF Is
  <2> QED BY <1>6
<1>8. \A t, u : Trees!isSameTree(t, u) = same[t][u]
  BY DEF Trees!isSameTree, S, N
<1>9. \A t, u \in S : same[t][u] = Body(same, t, u)
  <2> HIDE DEF same, Body
  <2>1. \A t \in S : same[t] = [u \in S |-> Body(same, t, u)]
    BY <1>7
  <2> QED BY <2>1
<1> HIDE DEF same, Is
<1> DEFINE G == {t \in S : \A u \in S : same[t][u] <=> t = u}
<1>10. \A t \in S : t \in G
  <2>1. N \in G
    BY <1>1, <1>9
  <2>2. ASSUME NEW t \in Bins, t.left \in G, t.right \in G PROVE t \in G
    <3>1. t \in S /\ t # N
      BY <1>1
    <3> SUFFICES ASSUME NEW u \in S PROVE same[t][u] <=> t = u
      BY <3>1
    <3>2. CASE u = N
      BY <1>9, <3>1, <3>2
    <3>3. CASE u # N
      <4>1. u \in Bins /\ u.left \in S /\ u.right \in S
        BY <1>2, <3>3
      <4>2. same[t][u] <=> t.val = u.val /\ t.left = u.left /\ t.right = u.right
        BY <1>9, <2>2, <3>1, <3>3, <4>1
      <4>3. t = Trees!TreeNode(t.val, t.left, t.right) /\ u = Trees!TreeNode(u.val, u.left, u.right)
        BY <4>1, TreeParts
      <4> QED BY <4>2, <4>3
    <3> QED BY <3>2, <3>3
  <2> HIDE DEF G
  <2> QED BY <2>1, <2>2, TreeInduction DEF S, N
<1> QED BY <1>8, <1>10 DEF S

\* 450.c: what is left of a node without the key, given what is left of its subtrees.
Without(t, l, r, k) ==
    IF k < t.val THEN Trees!TreeNode(t.val, l[k], t.right)
    ELSE IF k > t.val THEN Trees!TreeNode(t.val, t.left, r[k])
    ELSE IF t.left = Trees!NULL THEN t.right
    ELSE IF t.right = Trees!NULL THEN t.left
    ELSE Trees!TreeNode(Trees!findMin(t.right).val, t.left, r[Trees!findMin(t.right).val])

\* It is a tree of any number of levels.
LEMMA WithoutType ==
    ASSUME NEW t \in Bins, NEW l \in [Int -> AllBins], NEW r \in [Int -> AllBins], NEW k \in Int
    PROVE  Without(t, l, r, k) \in AllBins
<1>1. t.val \in Trees!Ints /\ t.left \in AllBins /\ t.right \in AllBins
  BY TreeParts
<1>2. \A v \in Trees!Ints : v \in Int
  BY InputAssumption DEF Trees!Ints, Trees!LONG_MIN
<1>3. l[k] \in AllBins /\ r[k] \in AllBins
  OBVIOUS
<1>4. \A v \in Trees!Ints, a, b \in AllBins : Trees!TreeNode(v, a, b) \in AllBins
  BY AllBinsAre
<1>5. t.right # Trees!NULL => /\ Trees!findMin(t.right).val \in Trees!Ints
                              /\ r[Trees!findMin(t.right).val] \in AllBins
  <2> SUFFICES ASSUME t.right # Trees!NULL
               PROVE  /\ Trees!findMin(t.right).val \in Trees!Ints
                      /\ r[Trees!findMin(t.right).val] \in AllBins
    OBVIOUS
  <2>1. t.right \in Bins
    BY TreeParts DEF Bins
  <2>2. Trees!findMin(t.right) \in Bins
    BY <2>1, FindMinIs
  <2>3. Trees!findMin(t.right).val \in Trees!Ints
    BY <2>2, TreeParts
  <2> QED BY <1>2, <2>3
<1> HIDE DEF Without
<1>6. CASE k < t.val
  <2>1. Without(t, l, r, k) = Trees!TreeNode(t.val, l[k], t.right)
    BY <1>6 DEF Without
  <2> QED BY <1>1, <1>3, <1>4, <2>1
<1>7. CASE ~(k < t.val) /\ k > t.val
  <2>1. Without(t, l, r, k) = Trees!TreeNode(t.val, t.left, r[k])
    BY <1>7 DEF Without
  <2> QED BY <1>1, <1>3, <1>4, <2>1
<1>8. CASE ~(k < t.val) /\ ~(k > t.val) /\ t.left = Trees!NULL
  BY <1>1, <1>8 DEF Without
<1>9. CASE ~(k < t.val) /\ ~(k > t.val) /\ t.left # Trees!NULL /\ t.right = Trees!NULL
  BY <1>1, <1>9 DEF Without
<1>10. CASE ~(k < t.val) /\ ~(k > t.val) /\ t.left # Trees!NULL /\ t.right # Trees!NULL
  <2>1. Without(t, l, r, k)
            = Trees!TreeNode(Trees!findMin(t.right).val, t.left, r[Trees!findMin(t.right).val])
    BY <1>10 DEF Without
  <2> QED BY <1>1, <1>4, <1>5, <1>10, <2>1
<1> QED BY <1>6, <1>7, <1>8, <1>9, <1>10

\* 450.c does that.
LEMMA DeleteIs ==
    \E h \in [Trees!Tree -> [Int -> AllBins]] :
        /\ \A t \in Trees!Tree, k \in Int : Trees!deleteNode(t, k) = h[t][k]
        /\ \A k \in Int : h[Trees!NULL][k] = Trees!NULL
        /\ \A t \in Bins, k \in Int : h[t][k] = Without(t, h[t.left], h[t.right], k)
<1> DEFINE S == Trees!Tree
           N == Trees!NULL
           X == [Int -> AllBins]
           zero == [k \in Int |-> N]
           node == [t \in Bins |-> [l \in X |-> [r \in X |-> [k \in Int |-> Without(t, l, r, k)]]]]
           Is(h) == h = [t \in S |-> [k \in Int |-> IF t = N THEN N ELSE Without(t, h[t.left], h[t.right], k)]]
           without == CHOOSE h : Is(h)
<1>1. N \in S /\ \A t \in Bins : t \in S /\ t # N
  BY TreeParts DEF Bins
<1>2. \A t \in S : t # N => t \in Bins /\ t.left \in S /\ t.right \in S
  BY TreeParts DEF Bins
<1>3. Combines(X, zero, node)
  <2>1. zero \in X
    BY AllBinsAre
  <2>2. \A t \in Bins, l \in X, r \in X : [k \in Int |-> Without(t, l, r, k)] \in X
    <3> SUFFICES ASSUME NEW t \in Bins, NEW l \in X, NEW r \in X, NEW k \in Int
                 PROVE  Without(t, l, r, k) \in AllBins
      OBVIOUS
    <3> QED BY WithoutType
  <2> HIDE DEF X, zero
  <2>3. node \in [Bins -> [X -> [X -> X]]]
    BY <2>2
  <2> HIDE DEF node
  <2> QED BY <2>1, <2>3 DEF Combines
<1>4. PICK g \in [S -> X] : g[N] = zero /\ \A t \in Bins : g[t] = node[t][g[t.left]][g[t.right]]
  <2> HIDE DEF node, zero, X
  <2> QED BY <1>3, FoldExists
<1> HIDE DEF S, N
<1>5. ASSUME NEW t \in S
      PROVE  g[t] = [k \in Int |-> IF t = N THEN N ELSE Without(t, g[t.left], g[t.right], k)]
  <2>1. CASE t = N
    BY <1>4, <2>1
  <2>2. CASE t # N
    <3> HIDE DEF X
    <3>1. t \in Bins /\ g[t.left] \in X /\ g[t.right] \in X
      BY <1>2, <1>4, <2>2
    <3>2. g[t] = [k \in Int |-> Without(t, g[t.left], g[t.right], k)]
      BY <1>4, <3>1
    <3> QED BY <2>2, <3>2
  <2> QED BY <2>1, <2>2
<1>6. Is(g)
  <2> HIDE DEF X
  <2>1. g = [t \in S |-> g[t]]
    OBVIOUS
  <2> QED BY <1>5, <2>1
<1>7. Is(without)
  <2> HIDE DEF Is
  <2> QED BY <1>6
<1>8. \A t, k : Trees!deleteNode(t, k) = without[t][k]
  BY DEF Trees!deleteNode, Without, S, N
<1>9. \A t \in S : without[t] = [k \in Int |-> IF t = N THEN N ELSE Without(t, without[t.left], without[t.right], k)]
  <2> HIDE DEF without
  <2> QED BY <1>7
<1>10. without = [t \in S |-> without[t]]
  <2> DEFINE F(h) == [t \in S |-> [k \in Int |-> IF t = N THEN N ELSE Without(t, h[t.left], h[t.right], k)]]
  <2>1. without = F(without)
    <3> HIDE DEF without
    <3> QED BY <1>7
  <2> HIDE DEF without
  <2> QED BY <2>1
<1> HIDE DEF without, Is
<1> DEFINE G == {t \in S : without[t] \in X}
<1>11. \A t \in S : t \in G
  <2>1. N \in G
    BY <1>1, <1>3, <1>9, AllBinsAre DEF N
  <2>2. ASSUME NEW t \in Bins, t.left \in G, t.right \in G PROVE t \in G
    <3>1. t \in S /\ t # N
      BY <1>1
    <3>2. \A k \in Int : Without(t, without[t.left], without[t.right], k) \in AllBins
      BY <2>2, WithoutType
    <3>3. without[t] = [k \in Int |-> Without(t, without[t.left], without[t.right], k)]
      BY <1>9, <3>1
    <3> QED BY <3>1, <3>2, <3>3
  <2> HIDE DEF G
  <2> QED BY <2>1, <2>2, TreeInduction DEF S, N
<1>12. without \in [S -> X]
  <2> HIDE DEF X
  <2> QED BY <1>10, <1>11
<1>13. \A k \in Int : without[N][k] = N
  BY <1>1, <1>9
<1>14. \A t \in Bins, k \in Int : without[t][k] = Without(t, without[t.left], without[t.right], k)
  BY <1>1, <1>9
<1> QED BY <1>8, <1>12, <1>13, <1>14 DEF S, N

\* Taking something out makes no tree higher.
LEMMA DeleteType ==
    \A t \in Trees!Tree : \A n \in Nat : t \in Trees!UpTo(n) =>
        \A k \in Int : Trees!deleteNode(t, k) \in Trees!UpTo(n)
<1> DEFINE D(t, k) == Trees!deleteNode(t, k)
<1>1. PICK h \in [Trees!Tree -> [Int -> AllBins]] :
          /\ \A t \in Trees!Tree, k \in Int : D(t, k) = h[t][k]
          /\ \A k \in Int : h[Trees!NULL][k] = Trees!NULL
          /\ \A t \in Bins, k \in Int : h[t][k] = Without(t, h[t.left], h[t.right], k)
  BY DeleteIs
<1> HIDE DEF D
<1> DEFINE G == {t \in Trees!Tree : \A n \in Nat : t \in Trees!UpTo(n) => \A k \in Int : D(t, k) \in Trees!UpTo(n)}
<1>2. Trees!NULL \in G
  BY <1>1, TreeParts
<1>3. ASSUME NEW t \in Bins, t.left \in G, t.right \in G PROVE t \in G
  <2>1. t \in Trees!Tree /\ t # Trees!NULL /\ t.left \in Trees!Tree /\ t.right \in Trees!Tree /\ t.val \in Trees!Ints
    BY TreeParts DEF Bins
  <2> SUFFICES ASSUME NEW n \in Nat, t \in Trees!UpTo(n), NEW k \in Int
               PROVE  D(t, k) \in Trees!UpTo(n)
    BY <2>1
  <2>2. n # 0 /\ t \in BinOver(Trees!UpTo(n - 1))
    BY <2>1, BinIs
  <2> DEFINE j == n - 1
  <2>3. j \in Nat /\ j + 1 = n /\ j \in 0 .. n
    BY <2>2
  <2>4. t.left \in Trees!UpTo(j) /\ t.right \in Trees!UpTo(j)
    BY <2>2 DEF BinOver
  <2> HIDE DEF j
  <2>5. \A x \in Int : D(t.left, x) \in Trees!UpTo(j) /\ D(t.right, x) \in Trees!UpTo(j)
    BY <1>3, <2>3, <2>4
  <2>6. \A v \in Trees!Ints, a, b \in Trees!UpTo(j) : Trees!TreeNode(v, a, b) \in Trees!UpTo(n)
    BY <2>3, BinIsTree
  <2>7. Trees!UpTo(j) \subseteq Trees!UpTo(n)
    BY <2>3, UpToGrows
  <2>8. \A v \in Trees!Ints : v \in Int
    BY InputAssumption DEF Trees!Ints, Trees!LONG_MIN
  <2> DEFINE w == Trees!findMin(t.right).val
  <2>9. t.right # Trees!NULL => w \in Trees!Ints
    BY <2>1, FindMinIs, TreeParts DEF Bins
  <2> DEFINE l == h[t.left]
             r == h[t.right]
  <2>10. \A x \in Int : l[x] \in Trees!UpTo(j) /\ r[x] \in Trees!UpTo(j)
    BY <1>1, <2>1, <2>5
  <2>11. D(t, k) = Without(t, l, r, k)
    BY <1>1, <2>1
  <2> HIDE DEF l, r
  <2>12. CASE k < t.val
    <3>1. Without(t, l, r, k) = Trees!TreeNode(t.val, l[k], t.right)
      BY <2>12 DEF Without
    <3> QED BY <2>1, <2>4, <2>6, <2>10, <2>11, <3>1
  <2>13. CASE ~(k < t.val) /\ k > t.val
    <3>1. Without(t, l, r, k) = Trees!TreeNode(t.val, t.left, r[k])
      BY <2>13 DEF Without
    <3> QED BY <2>1, <2>4, <2>6, <2>10, <2>11, <3>1
  <2>14. CASE ~(k < t.val) /\ ~(k > t.val) /\ t.left = Trees!NULL
    BY <2>4, <2>7, <2>11, <2>14 DEF Without
  <2>15. CASE ~(k < t.val) /\ ~(k > t.val) /\ t.left # Trees!NULL /\ t.right = Trees!NULL
    BY <2>4, <2>7, <2>11, <2>15 DEF Without
  <2>16. CASE ~(k < t.val) /\ ~(k > t.val) /\ t.left # Trees!NULL /\ t.right # Trees!NULL
    <3>1. Without(t, l, r, k) = Trees!TreeNode(w, t.left, r[w])
      BY <2>16 DEF Without
    <3>2. w \in Trees!Ints /\ r[w] \in Trees!UpTo(j)
      BY <2>8, <2>9, <2>10, <2>16
    <3> HIDE DEF w
    <3> QED BY <2>4, <2>6, <2>11, <3>1, <3>2
  <2> QED BY <2>12, <2>13, <2>14, <2>15, <2>16
<1>4. \A t \in Trees!Tree : t \in G
  <2> HIDE DEF G
  <2> QED BY <1>2, <1>3, TreeInduction
<1> QED BY <1>4 DEF D

-----------------------------------------------------------------------------
\* An ascending sequence, and one with a number in its middle.
LEMMA AscendingIs ==
    ASSUME NEW s \in Seq(Int)
    PROVE  Trees!Ascending(s) <=> \A a, b \in 1 .. Len(s) : a < b => s[a] < s[b]
<1>1. ASSUME \A a, b \in 1 .. Len(s) : a < b => s[a] < s[b] PROVE Trees!Ascending(s)
  BY <1>1 DEF Trees!Ascending
<1>2. ASSUME Trees!Ascending(s), NEW a \in 1 .. Len(s) PROVE \A b \in 1 .. Len(s) : a < b => s[a] < s[b]
  <2> DEFINE T == {b \in Nat : b \in 1 .. Len(s) /\ a < b => s[a] < s[b]}
  <2>1. ASSUME NEW b \in Nat, \A c \in 0 .. b - 1 : c \in T PROVE b \in T
    <3> SUFFICES ASSUME b \in 1 .. Len(s), a < b PROVE s[a] < s[b]
      OBVIOUS
    <3>1. b - 1 \in 0 .. b - 1 /\ b - 1 \in 1 .. Len(s) /\ b \in 2 .. Len(s)
      OBVIOUS
    <3>2. s[b - 1] < s[b]
      BY <1>2, <3>1 DEF Trees!Ascending
    <3>3. a = b - 1 \/ s[a] < s[b - 1]
      BY <2>1, <3>1
    <3> QED BY <3>1, <3>2, <3>3
  <2> HIDE DEF T
  <2>2. \A b \in Nat : b \in T
    BY <2>1, FromSmaller
  <2> QED BY <2>2 DEF T
<1> QED BY <1>1, <1>2

Middled(s, v, u) == s \o <<v>> \o u

\* The values of such a sequence.
LEMMA MiddledIs ==
    ASSUME NEW s \in Seq(Int), NEW v \in Int, NEW u \in Seq(Int)
    PROVE  /\ Middled(s, v, u) \in Seq(Int) /\ Len(Middled(s, v, u)) = Len(s) + 1 + Len(u)
           /\ \A a \in 1 .. Len(s) : Middled(s, v, u)[a] = s[a]
           /\ Middled(s, v, u)[Len(s) + 1] = v
           /\ \A a \in 1 .. Len(u) : Middled(s, v, u)[Len(s) + 1 + a] = u[a]
  BY DEF Middled

\* A place behind the first k of k + n, and the way back.
LEMMA PlaceBehind ==
    ASSUME NEW k \in Nat, NEW n \in Nat
    PROVE  /\ \A a \in 1 .. n : k + a \in 1 .. k + n /\ k + a > k
           /\ \A a, b \in 1 .. n : a < b => k + a < k + b
           /\ \A c \in 1 .. k + n : c \notin 1 .. k => c > k /\ c - k \in 1 .. n /\ k + (c - k) = c
  OBVIOUS

\* What such a sequence holds.
LEMMA MiddledRange ==
    ASSUME NEW s \in Seq(Int), NEW v \in Int, NEW u \in Seq(Int)
    PROVE  Trees!Range(Middled(s, v, u)) = Trees!Range(s) \cup {v} \cup Trees!Range(u)
<1> DEFINE w == Middled(s, v, u)
<1>1. w \in Seq(Int) /\ Len(w) = Len(s) + 1 + Len(u) /\ Len(s) \in Nat /\ Len(u) \in Nat
  BY MiddledIs
<1>2. /\ \A a \in 1 .. Len(s) : w[a] = s[a]
      /\ w[Len(s) + 1] = v
      /\ \A a \in 1 .. Len(u) : w[Len(s) + 1 + a] = u[a]
  BY MiddledIs
<1> HIDE DEF w
<1>3. /\ Trees!Range(w) = {w[a] : a \in 1 .. Len(w)}
      /\ Trees!Range(s) = {s[a] : a \in 1 .. Len(s)}
      /\ Trees!Range(u) = {u[a] : a \in 1 .. Len(u)}
  <2>1. DOMAIN w = 1 .. Len(w) /\ DOMAIN s = 1 .. Len(s) /\ DOMAIN u = 1 .. Len(u)
    BY <1>1
  <2> QED BY <2>1 DEF Trees!Range
<1>4. ASSUME NEW a \in 1 .. Len(w) PROVE w[a] \in Trees!Range(s) \cup {v} \cup Trees!Range(u)
  <2>1. CASE a \in 1 .. Len(s)
    BY <1>2, <1>3, <2>1
  <2>2. CASE a = Len(s) + 1
    BY <1>2, <2>2
  <2>3. CASE a > Len(s) + 1
    <3>1. a - Len(s) - 1 \in 1 .. Len(u) /\ Len(s) + 1 + (a - Len(s) - 1) = a
      BY <1>1, <2>3
    <3>2. w[a] = u[a - Len(s) - 1]
      BY <1>2, <3>1
    <3> QED BY <1>3, <3>1, <3>2
  <2> QED BY <1>1, <2>1, <2>2, <2>3
<1>5. \A a \in 1 .. Len(s) : s[a] \in Trees!Range(w)
  <2> SUFFICES ASSUME NEW a \in 1 .. Len(s) PROVE s[a] \in Trees!Range(w)
    OBVIOUS
  <2>1. a \in 1 .. Len(w) /\ w[a] = s[a]
    BY <1>1, <1>2
  <2> QED BY <1>3, <2>1
<1>6. v \in Trees!Range(w)
  BY <1>1, <1>2, <1>3
<1>7. \A a \in 1 .. Len(u) : u[a] \in Trees!Range(w)
  <2> SUFFICES ASSUME NEW a \in 1 .. Len(u) PROVE u[a] \in Trees!Range(w)
    OBVIOUS
  <2>1. Len(s) + 1 + a \in 1 .. Len(w) /\ w[Len(s) + 1 + a] = u[a]
    BY <1>1, <1>2
  <2> QED BY <1>3, <2>1
<1> QED BY <1>3, <1>4, <1>5, <1>6, <1>7 DEF w

\* When such a sequence ascends.
LEMMA MiddledAscends ==
    ASSUME NEW s \in Seq(Int), NEW v \in Int, NEW u \in Seq(Int)
    PROVE  Trees!Ascending(Middled(s, v, u)) <=>
               /\ Trees!Ascending(s) /\ Trees!Ascending(u)
               /\ \A x \in Trees!Range(s) : x < v
               /\ \A x \in Trees!Range(u) : v < x
<1> DEFINE w == Middled(s, v, u)
           m == Len(s) + 1
           Up(q) == \A a, b \in 1 .. Len(q) : a < b => q[a] < q[b]
<1>1. w \in Seq(Int) /\ Len(w) = m + Len(u) /\ Len(s) \in Nat /\ Len(u) \in Nat /\ m \in 1 .. Len(w)
  BY MiddledIs
<1>2. (Trees!Ascending(s) <=> Up(s)) /\ (Trees!Ascending(u) <=> Up(u)) /\ (Trees!Ascending(w) <=> Up(w))
  BY <1>1, AscendingIs
<1>3. /\ \A a \in 1 .. Len(s) : w[a] = s[a]
      /\ w[m] = v
      /\ \A a \in 1 .. Len(u) : w[m + a] = u[a]
  BY MiddledIs
<1> HIDE DEF w
<1>4. /\ \A x : x \in Trees!Range(s) <=> \E a \in 1 .. Len(s) : x = s[a]
      /\ \A x : x \in Trees!Range(u) <=> \E a \in 1 .. Len(u) : x = u[a]
  BY DEF Trees!Range
<1>5. ASSUME Up(w)
      PROVE  /\ Up(s) /\ Up(u)
             /\ \A x \in Trees!Range(s) : x < v
             /\ \A x \in Trees!Range(u) : v < x
  <2>1. Up(s)
    <3>1. \A a \in 1 .. Len(s) : a \in 1 .. Len(w)
      BY <1>1
    <3> QED BY <1>3, <1>5, <3>1
  <2>2. Up(u)
    <3> SUFFICES ASSUME NEW a \in 1 .. Len(u), NEW b \in 1 .. Len(u), a < b PROVE u[a] < u[b]
      OBVIOUS
    <3>1. m + a \in 1 .. Len(w) /\ m + b \in 1 .. Len(w) /\ m + a < m + b
      <4>1. m \in Nat /\ Len(u) \in Nat /\ Len(w) = m + Len(u)
        BY <1>1
      <4> HIDE DEF m, Up
      <4> QED BY <4>1, PlaceBehind
    <3>2. w[m + a] < w[m + b]
      BY <1>5, <3>1
    <3> QED BY <1>3, <3>2
  <2>3. \A a \in 1 .. Len(s) : s[a] < v
    <3> SUFFICES ASSUME NEW a \in 1 .. Len(s) PROVE s[a] < v
      OBVIOUS
    <3>1. a \in 1 .. Len(w) /\ a < m
      BY <1>1
    <3>2. w[a] < w[m]
      BY <1>1, <1>5, <3>1
    <3> QED BY <1>3, <3>2
  <2>4. \A a \in 1 .. Len(u) : v < u[a]
    <3> SUFFICES ASSUME NEW a \in 1 .. Len(u) PROVE v < u[a]
      OBVIOUS
    <3>1. m + a \in 1 .. Len(w) /\ m < m + a
      BY <1>1
    <3>2. w[m] < w[m + a]
      BY <1>1, <1>5, <3>1
    <3> QED BY <1>3, <3>2
  <2> HIDE DEF Up
  <2> QED BY <1>4, <2>1, <2>2, <2>3, <2>4
<1>6. ASSUME Up(s), Up(u), \A x \in Trees!Range(s) : x < v, \A x \in Trees!Range(u) : v < x
      PROVE  Up(w)
  <2> SUFFICES ASSUME NEW a \in 1 .. Len(w), NEW b \in 1 .. Len(w), a < b PROVE w[a] < w[b]
    OBVIOUS
  <2>0. \A c \in Int, n \in Nat : c >= 1 => c \in 1 .. n \/ c = n + 1 \/ c > n + 1
    OBVIOUS
  <2>1. \A c \in 1 .. Len(w) : \/ c \in 1 .. Len(s) /\ w[c] = s[c] /\ s[c] < v
                               \/ c = m
                               \/ c > m /\ c - m \in 1 .. Len(u) /\ w[c] = u[c - m] /\ v < u[c - m]
    <3> SUFFICES ASSUME NEW c \in 1 .. Len(w), c \notin 1 .. Len(s), c # m
                 PROVE  c > m /\ c - m \in 1 .. Len(u) /\ w[c] = u[c - m] /\ v < u[c - m]
      BY <1>3, <1>4, <1>6
    <3>1. c > m /\ c - m \in 1 .. Len(u) /\ m + (c - m) = c
      <4>1. m \in Nat /\ Len(u) \in Nat /\ Len(w) = m + Len(u) /\ c \notin 1 .. m
        BY <1>1
      <4> HIDE DEF m, Up
      <4> QED BY <4>1, PlaceBehind
    <3>2. w[c] = u[c - m]
      BY <1>3, <3>1
    <3> QED BY <1>4, <1>6, <3>1, <3>2
  <2>2. CASE b \in 1 .. Len(s)
    <3>1. a \in 1 .. Len(s)
      BY <1>1, <2>2
    <3>2. s[a] < s[b]
      BY <1>6, <2>2, <3>1
    <3> QED BY <1>3, <2>2, <3>1, <3>2
  <2>3. CASE b = m
    <3>1. a \in 1 .. Len(s)
      BY <1>1, <2>3
    <3> QED BY <1>3, <1>4, <1>6, <2>3, <3>1
  <2>4. CASE b > m
    <3>1. b - m \in 1 .. Len(u) /\ w[b] = u[b - m] /\ v < u[b - m] /\ u[b - m] \in Int
      <4>1. b \notin 1 .. Len(s) /\ b # m
        BY <1>1, <2>4
      <4>2. b - m \in 1 .. Len(u) /\ w[b] = u[b - m] /\ v < u[b - m]
        BY <2>1, <4>1
      <4> QED BY <4>2
    <3>2. CASE a \in 1 .. Len(s)
      <4>1. w[a] = s[a] /\ s[a] < v /\ s[a] \in Int
        BY <1>3, <1>4, <1>6, <3>2
      <4> QED BY <3>1, <4>1
    <3>3. CASE a = m
      BY <1>3, <3>1, <3>3
    <3>4. CASE a > m
      <4>1. a - m \in 1 .. Len(u) /\ w[a] = u[a - m]
        <5>1. a \notin 1 .. Len(s) /\ a # m
          BY <1>1, <3>4
        <5> QED BY <2>1, <5>1
      <4>2. a - m < b - m
        BY <1>1
      <4>3. u[a - m] < u[b - m]
        BY <1>6, <3>1, <4>1, <4>2
      <4> QED BY <3>1, <4>1, <4>3
    <3>5. a \in 1 .. Len(s) \/ a = m \/ a > m
      BY <2>0
    <3> QED BY <3>2, <3>3, <3>4, <3>5
  <2>5. b \in 1 .. Len(s) \/ b = m \/ b > m
    BY <2>0
  <2> QED BY <2>2, <2>3, <2>4, <2>5
<1> HIDE DEF Up
<1>7. Trees!Ascending(w) <=> Up(w)
  BY <1>2
<1> QED BY <1>2, <1>5, <1>6, <1>7 DEF w

-----------------------------------------------------------------------------
\* The values of a tree, and trees whose values are in order.
ValuesOf(t) == Trees!Range(Trees!inorder(t))
Climbs(t) == Trees!Ascending(Trees!inorder(t))

\* Values lie between the bounds of 98.c.
LEMMA IntsAre == \A v \in Trees!Ints : v \in Int /\ Trees!LONG_MIN < v /\ v < LONG_MAX
  BY InputAssumption DEF Trees!Ints, Trees!LONG_MIN

\* The values of a tree are those of its subtrees and its own.
LEMMA ValuesAre ==
    /\ ValuesOf(Trees!NULL) = {} /\ Climbs(Trees!NULL)
    /\ \A t \in Trees!Tree : ValuesOf(t) \subseteq Trees!Ints /\ Trees!inorder(t) \in Seq(Int)
    /\ \A t \in Bins :
           /\ ValuesOf(t) = ValuesOf(t.left) \cup {t.val} \cup ValuesOf(t.right)
           /\ Climbs(t) <=> /\ Climbs(t.left) /\ Climbs(t.right)
                            /\ \A x \in ValuesOf(t.left) : x < t.val
                            /\ \A x \in ValuesOf(t.right) : t.val < x
<1>1. ValuesOf(Trees!NULL) = {}
  BY InorderIs DEF ValuesOf, Trees!Range
<1>2. Climbs(Trees!NULL)
  <2>1. Trees!inorder(Trees!NULL) = <<>> /\ Len(<<>>) = 0
    BY InorderIs
  <2> QED BY <2>1 DEF Climbs, Trees!Ascending
<1>3. ASSUME NEW t \in Trees!Tree PROVE ValuesOf(t) \subseteq Trees!Ints /\ Trees!inorder(t) \in Seq(Int)
  <2> DEFINE s == Trees!inorder(t)
  <2>1. s \in Seq(Trees!Ints)
    BY InorderIs
  <2> HIDE DEF s
  <2>2. \A a \in 1 .. Len(s) : s[a] \in Trees!Ints
    BY <2>1
  <2>3. Trees!Range(s) \subseteq Trees!Ints
    BY <2>1, <2>2 DEF Trees!Range
  <2>4. s \in Seq(Int)
    BY <2>1, <2>2, IntsAre
  <2> QED BY <2>3, <2>4 DEF s, ValuesOf
<1>4. ASSUME NEW t \in Bins
      PROVE  /\ ValuesOf(t) = ValuesOf(t.left) \cup {t.val} \cup ValuesOf(t.right)
             /\ Climbs(t) <=> /\ Climbs(t.left) /\ Climbs(t.right)
                              /\ \A x \in ValuesOf(t.left) : x < t.val
                              /\ \A x \in ValuesOf(t.right) : t.val < x
  <2> DEFINE s == Trees!inorder(t.left)
             u == Trees!inorder(t.right)
  <2>1. t.val \in Int /\ t.left \in Trees!Tree /\ t.right \in Trees!Tree
    BY TreeParts, IntsAre
  <2>2. s \in Seq(Int) /\ u \in Seq(Int)
    BY <1>3, <2>1
  <2>3. Trees!inorder(t) = Middled(s, t.val, u)
    BY InorderIs DEF Middled
  <2> HIDE DEF s, u
  <2> QED BY <2>1, <2>2, <2>3, MiddledRange, MiddledAscends DEF s, u, ValuesOf, Climbs
<1> QED BY <1>1, <1>2, <1>3, <1>4

\* 98.c takes a tree for a search tree exactly if its values ascend.
LEMMA ValidIs ==
    \A t \in Trees!Tree : Trees!isValidBST(t) = Climbs(t)
<1> DEFINE P(t, a, b) == Climbs(t) /\ \A x \in ValuesOf(t) : a < x /\ x < b
           G == {t \in Trees!Tree : \A a, b \in Int : Trees!helper(t, a, b) <=> P(t, a, b)}
<1>1. Trees!NULL \in G
  BY HelperIs, ValuesAre, TreeParts
<1>2. ASSUME NEW t \in Bins, t.left \in G, t.right \in G PROVE t \in G
  <2>1. t \in Trees!Tree /\ t.val \in Int
    BY TreeParts, IntsAre DEF Bins
  <2> SUFFICES ASSUME NEW a \in Int, NEW b \in Int PROVE Trees!helper(t, a, b) <=> P(t, a, b)
    BY <2>1
  <2>2. Trees!helper(t, a, b) <=> /\ a < t.val /\ t.val < b
                                  /\ P(t.left, a, t.val) /\ P(t.right, t.val, b)
    BY <1>2, <2>1, HelperIs
  <2>3. /\ ValuesOf(t) = ValuesOf(t.left) \cup {t.val} \cup ValuesOf(t.right)
        /\ Climbs(t) <=> /\ Climbs(t.left) /\ Climbs(t.right)
                         /\ \A x \in ValuesOf(t.left) : x < t.val
                         /\ \A x \in ValuesOf(t.right) : t.val < x
    BY ValuesAre
  <2>4. \A x \in ValuesOf(t) : x \in Int
    BY <2>1, ValuesAre, IntsAre
  <2>5. ASSUME Trees!helper(t, a, b) PROVE P(t, a, b)
    <3>1. a < t.val /\ t.val < b /\ P(t.left, a, t.val) /\ P(t.right, t.val, b)
      BY <2>2, <2>5
    <3> QED BY <2>1, <2>3, <2>4, <3>1
  <2>6. ASSUME P(t, a, b) PROVE Trees!helper(t, a, b)
    BY <2>2, <2>3, <2>6
  <2> QED BY <2>5, <2>6
<1>3. \A t \in Trees!Tree : t \in G
  <2> HIDE DEF G
  <2> QED BY <1>1, <1>2, TreeInduction
<1> SUFFICES ASSUME NEW t \in Trees!Tree PROVE Trees!isValidBST(t) = Climbs(t)
  OBVIOUS
<1>4. Trees!LONG_MIN \in Int /\ LONG_MAX \in Int
  BY InputAssumption DEF Trees!LONG_MIN
<1>5. Trees!helper(t, Trees!LONG_MIN, LONG_MAX) <=> P(t, Trees!LONG_MIN, LONG_MAX)
  BY <1>3, <1>4
<1>6. P(t, Trees!LONG_MIN, LONG_MAX) <=> Climbs(t)
  BY ValuesAre, IntsAre
<1>7. Trees!helper(t, Trees!LONG_MIN, LONG_MAX) \in BOOLEAN /\ Climbs(t) \in BOOLEAN
  BY <1>4, HelperIs DEF Climbs, Trees!Ascending
<1> QED BY <1>5, <1>6, <1>7 DEF Trees!isValidBST

\* 450.c: the node that findMin stops at has the smallest value.
LEMMA FindMinFinds ==
    \A t \in Bins : /\ Trees!findMin(t).val \in ValuesOf(t)
                    /\ Climbs(t) => \A x \in ValuesOf(t) : Trees!findMin(t).val <= x
<1> DEFINE F(t) == Trees!findMin(t).val
           P(t) == F(t) \in ValuesOf(t) /\ (Climbs(t) => \A x \in ValuesOf(t) : F(t) <= x)
           G == {t \in Trees!Tree : t # Trees!NULL => P(t)}
<1>1. Trees!NULL \in G
  BY TreeParts
<1>2. ASSUME NEW t \in Bins, t.left \in G, t.right \in G PROVE t \in G
  <2>1. t \in Trees!Tree /\ t.val \in Int
    BY TreeParts, IntsAre DEF Bins
  <2>2. /\ ValuesOf(t) = ValuesOf(t.left) \cup {t.val} \cup ValuesOf(t.right)
        /\ Climbs(t) => /\ Climbs(t.left)
                        /\ \A x \in ValuesOf(t.left) : x < t.val
                        /\ \A x \in ValuesOf(t.right) : t.val < x
        /\ \A x \in ValuesOf(t) : x \in Int
    BY <2>1, ValuesAre, IntsAre
  <2>3. CASE t.left = Trees!NULL
    <3>1. F(t) = t.val
      BY <2>3, FindMinIs
    <3>2. ValuesOf(t.left) = {}
      BY <2>3, ValuesAre
    <3>3. P(t)
      BY <2>1, <2>2, <3>1, <3>2
    <3> QED BY <2>1, <3>3
  <2>4. CASE t.left # Trees!NULL
    <3>1. F(t) = F(t.left)
      BY <2>4, FindMinIs
    <3>2. P(t.left)
      BY <1>2, <2>4
    <3> DEFINE w == F(t.left)
    <3>3. w \in ValuesOf(t.left) /\ w \in Int /\ (Climbs(t.left) => \A x \in ValuesOf(t.left) : w <= x)
      BY <2>2, <3>2
    <3> HIDE DEF w
    <3>4. w \in ValuesOf(t)
      BY <2>2, <3>3
    <3>5. ASSUME Climbs(t), NEW x \in ValuesOf(t) PROVE w <= x
      <4>1. w < t.val
        BY <2>2, <3>3, <3>5
      <4>2. x \in Int
        BY <2>2
      <4>3. x \in ValuesOf(t.right) => t.val < x
        BY <2>2, <3>5
      <4> QED BY <2>1, <2>2, <3>3, <3>5, <4>1, <4>2, <4>3
    <3>6. P(t)
      BY <3>1, <3>4, <3>5 DEF w
    <3> QED BY <2>1, <3>6
  <2> QED BY <2>3, <2>4
<1>3. \A t \in Trees!Tree : t \in G
  <2> HIDE DEF G
  <2> QED BY <1>1, <1>2, TreeInduction
<1> QED BY <1>3 DEF Bins

\* 700.c finds what is there, in a search tree.
LEMMA SearchFinds ==
    ASSUME NEW k \in Int
    PROVE  \A t \in Trees!Tree : Climbs(t) =>
               /\ Trees!searchBST(t, k) = Trees!NULL <=> k \notin ValuesOf(t)
               /\ Trees!searchBST(t, k) # Trees!NULL => Trees!searchBST(t, k).val = k
<1> DEFINE F(t) == Trees!searchBST(t, k)
           N == Trees!NULL
           P(t) == (F(t) = N <=> k \notin ValuesOf(t)) /\ (F(t) # N => F(t).val = k)
           G == {t \in Trees!Tree : Climbs(t) => P(t)}
<1>1. N \in G
  BY SearchIs, ValuesAre, TreeParts
<1>2. ASSUME NEW t \in Bins, t.left \in G, t.right \in G PROVE t \in G
  <2>1. t \in Trees!Tree /\ t.val \in Int /\ t # N
    BY TreeParts, IntsAre DEF Bins
  <2> SUFFICES ASSUME Climbs(t) PROVE P(t)
    BY <2>1
  <2>2. /\ ValuesOf(t) = ValuesOf(t.left) \cup {t.val} \cup ValuesOf(t.right)
        /\ Climbs(t.left) /\ Climbs(t.right)
        /\ \A x \in ValuesOf(t.left) : x < t.val
        /\ \A x \in ValuesOf(t.right) : t.val < x
    BY ValuesAre
  <2>3. P(t.left) /\ P(t.right)
    BY <1>2, <2>2
  <2>4. F(t) = IF t.val = k THEN t ELSE IF k < t.val THEN F(t.left) ELSE F(t.right)
    BY SearchIs
  <2> HIDE DEF F, N
  <2>5. CASE t.val = k
    BY <2>1, <2>2, <2>4, <2>5
  <2>6. CASE t.val # k /\ k < t.val
    <3>1. k \notin ValuesOf(t.right)
      BY <2>1, <2>2, <2>6
    <3> QED BY <2>2, <2>3, <2>4, <2>6, <3>1
  <2>7. CASE t.val # k /\ ~(k < t.val)
    <3>1. k \notin ValuesOf(t.left)
      BY <2>1, <2>2, <2>7
    <3> QED BY <2>2, <2>3, <2>4, <2>7, <3>1
  <2> QED BY <2>5, <2>6, <2>7
<1>3. \A t \in Trees!Tree : t \in G
  <2> HIDE DEF G
  <2> QED BY <1>1, <1>2, TreeInduction DEF N
<1> QED BY <1>3

\* 450.c, in a search tree: exactly the key goes, and the others stay in order.
LEMMA DeleteTakesOut ==
    \A t \in Trees!Tree : Climbs(t) =>
        \A k \in Int : /\ Trees!deleteNode(t, k) \in Trees!Tree
                       /\ Climbs(Trees!deleteNode(t, k))
                       /\ ValuesOf(Trees!deleteNode(t, k)) = ValuesOf(t) \ {k}
                       /\ k \notin ValuesOf(t) => Trees!deleteNode(t, k) = t
<1> DEFINE D(t, k) == Trees!deleteNode(t, k)
           N == Trees!NULL
           P(t, k) == /\ Climbs(D(t, k)) /\ ValuesOf(D(t, k)) = ValuesOf(t) \ {k}
                      /\ k \notin ValuesOf(t) => D(t, k) = t
           G == {t \in Trees!Tree : Climbs(t) => \A k \in Int : P(t, k)}
<1>1. PICK h \in [Trees!Tree -> [Int -> AllBins]] :
          /\ \A t \in Trees!Tree, k \in Int : D(t, k) = h[t][k]
          /\ \A k \in Int : h[N][k] = N
          /\ \A t \in Bins, k \in Int : h[t][k] = Without(t, h[t.left], h[t.right], k)
  BY DeleteIs
<1>2. \A t \in Trees!Tree, k \in Int : D(t, k) \in Trees!Tree
  <2>1. Levels \in Nat /\ Trees!Tree = Trees!UpTo(Levels)
    BY InputAssumption DEF Trees!Tree
  <2> QED BY <2>1, DeleteType
<1>3. N \in G
  <2>1. N \in Trees!Tree /\ \A k \in Int : D(N, k) = N
    BY <1>1, TreeParts
  <2> HIDE DEF D
  <2> QED BY <2>1, ValuesAre DEF N
<1>4. ASSUME NEW t \in Bins, t.left \in G, t.right \in G PROVE t \in G
  <2>1. t \in Trees!Tree /\ t.val \in Int /\ t # N /\ t.left \in Trees!Tree /\ t.right \in Trees!Tree
        /\ t.val \in Trees!Ints
    BY TreeParts, IntsAre DEF Bins
  <2> SUFFICES ASSUME Climbs(t), NEW k \in Int PROVE P(t, k)
    BY <2>1
  <2> DEFINE l == t.left
             r == t.right
             w == Trees!findMin(r).val
  <2>2. /\ ValuesOf(t) = ValuesOf(l) \cup {t.val} \cup ValuesOf(r)
        /\ Climbs(l) /\ Climbs(r)
        /\ \A x \in ValuesOf(l) : x < t.val
        /\ \A x \in ValuesOf(r) : t.val < x
        /\ \A x \in ValuesOf(l) \cup ValuesOf(r) : x \in Int
    BY <2>1, ValuesAre, IntsAre
  <2>3. \A x \in Int : P(l, x) /\ P(r, x) /\ D(l, x) \in Trees!Tree /\ D(r, x) \in Trees!Tree
    BY <1>2, <1>4, <2>1, <2>2
  <2>4. D(t, k) = Without(t, h[l], h[r], k) /\ D(t, k) \in Trees!Tree
    BY <1>1, <1>2, <2>1
  <2>5. \A x \in Int : h[l][x] = D(l, x) /\ h[r][x] = D(r, x)
    BY <1>1, <2>1
  <2>6. t = Trees!TreeNode(t.val, l, r)
    BY TreeParts
  \* A tree put together in order.
  <2>7. ASSUME NEW v \in Trees!Ints, NEW a \in Trees!Tree, NEW b \in Trees!Tree,
               Trees!TreeNode(v, a, b) \in Trees!Tree, Climbs(a), Climbs(b),
               \A x \in ValuesOf(a) : x < v, \A x \in ValuesOf(b) : v < x
        PROVE  /\ Climbs(Trees!TreeNode(v, a, b))
               /\ ValuesOf(Trees!TreeNode(v, a, b)) = ValuesOf(a) \cup {v} \cup ValuesOf(b)
    <3> DEFINE s == Trees!TreeNode(v, a, b)
    <3>1. s.val = v /\ s.left = a /\ s.right = b
      BY DEF Trees!TreeNode
    <3>2. s \in Bins
      BY <2>7, BinIsNot DEF Bins
    <3> HIDE DEF s
    <3>3. Climbs(s) /\ ValuesOf(s) = ValuesOf(a) \cup {v} \cup ValuesOf(b)
      <4> HIDE DEF P, G, w, l, r, D
      <4> QED BY <2>7, <3>1, <3>2, ValuesAre
    <3> QED BY <3>3 DEF s
  <2> HIDE DEF D, l, r
  <2>8. CASE k < t.val
    <3>1. D(t, k) = Trees!TreeNode(t.val, D(l, k), r)
      BY <2>4, <2>5, <2>8 DEF Without, r
    <3>2. D(l, k) \in Trees!Tree /\ Climbs(D(l, k)) /\ ValuesOf(D(l, k)) = ValuesOf(l) \ {k}
          /\ (k \notin ValuesOf(l) => D(l, k) = l)
      BY <2>3
    <3>3. r \in Trees!Tree
      BY <2>1 DEF r
    <3> HIDE DEF w
    <3>4. Climbs(D(t, k)) /\ ValuesOf(D(t, k)) = ValuesOf(D(l, k)) \cup {t.val} \cup ValuesOf(r)
      BY <2>1, <2>2, <2>4, <2>7, <3>1, <3>2, <3>3
    <3>5. k # t.val /\ k \notin ValuesOf(r)
      BY <2>1, <2>2, <2>8
    <3>6. ValuesOf(D(t, k)) = ValuesOf(t) \ {k}
      BY <2>2, <3>2, <3>4, <3>5
    <3>7. k \notin ValuesOf(t) => D(t, k) = t
      BY <2>2, <2>6, <3>1, <3>2
    <3> QED BY <3>4, <3>6, <3>7
  <2>9. CASE ~(k < t.val) /\ k > t.val
    <3>1. D(t, k) = Trees!TreeNode(t.val, l, D(r, k))
      BY <2>4, <2>5, <2>9 DEF Without, l
    <3>2. D(r, k) \in Trees!Tree /\ Climbs(D(r, k)) /\ ValuesOf(D(r, k)) = ValuesOf(r) \ {k}
          /\ (k \notin ValuesOf(r) => D(r, k) = r)
      BY <2>3
    <3>3. l \in Trees!Tree
      BY <2>1 DEF l
    <3> HIDE DEF w
    <3>4. Climbs(D(t, k)) /\ ValuesOf(D(t, k)) = ValuesOf(l) \cup {t.val} \cup ValuesOf(D(r, k))
      BY <2>1, <2>2, <2>4, <2>7, <3>1, <3>2, <3>3
    <3>5. k # t.val /\ k \notin ValuesOf(l)
      BY <2>1, <2>2, <2>9
    <3>6. ValuesOf(D(t, k)) = ValuesOf(t) \ {k}
      BY <2>2, <3>2, <3>4, <3>5
    <3>7. k \notin ValuesOf(t) => D(t, k) = t
      BY <2>2, <2>6, <3>1, <3>2
    <3> QED BY <3>4, <3>6, <3>7
  <2>10. CASE ~(k < t.val) /\ ~(k > t.val)
    <3>1. k = t.val /\ k \in ValuesOf(t) /\ k \notin ValuesOf(l) /\ k \notin ValuesOf(r)
      BY <2>1, <2>2, <2>10
    <3>2. CASE l = N
      <4>1. D(t, k) = r
        BY <2>4, <2>10, <3>2 DEF Without, l, r
      <4>2. ValuesOf(l) = {}
        BY <3>2, ValuesAre
      <4> QED BY <2>2, <3>1, <4>1, <4>2
    <3>3. CASE l # N /\ r = N
      <4>1. D(t, k) = l
        BY <2>4, <2>10, <3>3 DEF Without, l, r
      <4>2. ValuesOf(r) = {}
        BY <3>3, ValuesAre
      <4> QED BY <2>2, <3>1, <4>1, <4>2
    <3>4. CASE l # N /\ r # N
      <4>1. r \in Bins /\ l \in Trees!Tree
        BY <2>1, <3>4 DEF Bins, l, r
      <4>2. w \in ValuesOf(r) /\ w \in Trees!Ints /\ w \in Int /\ \A x \in ValuesOf(r) : w <= x
        BY <2>2, <4>1, FindMinFinds, FindMinIs, TreeParts, IntsAre
      <4>3. D(t, k) = Trees!TreeNode(w, l, h[r][w])
        <5>1. D(t, k) = Trees!TreeNode(Trees!findMin(t.right).val, t.left, h[r][Trees!findMin(t.right).val])
          BY <2>4, <2>10, <3>4 DEF Without, l, r
        <5> QED BY <5>1 DEF l, r
      <4> HIDE DEF w
      <4>4. D(t, k) = Trees!TreeNode(w, l, D(r, w))
        BY <2>5, <4>2, <4>3
      <4>5. D(r, w) \in Trees!Tree /\ Climbs(D(r, w)) /\ ValuesOf(D(r, w)) = ValuesOf(r) \ {w}
        BY <2>3, <4>2
      <4>6. \A x \in ValuesOf(l) : x < w
        BY <2>1, <2>2, <4>2
      <4>7. \A x \in ValuesOf(D(r, w)) : w < x
        BY <2>2, <4>2, <4>5
      <4>8. Climbs(D(t, k)) /\ ValuesOf(D(t, k)) = ValuesOf(l) \cup {w} \cup ValuesOf(D(r, w))
        BY <2>4, <2>2, <2>7, <4>1, <4>2, <4>4, <4>5, <4>6, <4>7
      <4>9. ValuesOf(D(t, k)) = ValuesOf(t) \ {k}
        BY <2>2, <3>1, <4>2, <4>5, <4>8
      <4> QED BY <3>1, <4>8, <4>9
    <3> QED BY <3>2, <3>3, <3>4
  <2> QED BY <2>8, <2>9, <2>10
<1>5. \A t \in Trees!Tree : t \in G
  <2> HIDE DEF G
  <2> QED BY <1>3, <1>4, TreeInduction DEF N
<1> QED BY <1>2, <1>5

\* 98.c, 700.c, 450.c and 100.c agree about every search tree.
LEMMA SearchCorrect == \A t \in Trees!Tree : Trees!SearchIsRight(t)
<1> SUFFICES ASSUME NEW t \in Trees!Tree, Climbs(t),
                    NEW k \in UNION {v - 1 .. v + 1 : v \in ValuesOf(t) \cup {0}}
             PROVE  /\ Climbs(Trees!deleteNode(t, k))
                    /\ ValuesOf(Trees!deleteNode(t, k)) = ValuesOf(t) \ {k}
                    /\ Trees!searchBST(t, k) = Trees!NULL <=> k \notin ValuesOf(t)
                    /\ Trees!searchBST(t, k) # Trees!NULL => Trees!searchBST(t, k).val = k
                    /\ Trees!isSameTree(t, Trees!deleteNode(t, k)) <=> k \notin ValuesOf(t)
  BY ValidIs DEF Trees!SearchIsRight, Climbs, ValuesOf
<1> DEFINE u == Trees!deleteNode(t, k)
<1>1. k \in Int
  OBVIOUS
<1>2. u \in Trees!Tree /\ Climbs(u) /\ ValuesOf(u) = ValuesOf(t) \ {k} /\ (k \notin ValuesOf(t) => u = t)
  BY <1>1, DeleteTakesOut
<1>3. Trees!isSameTree(t, u) <=> t = u
  BY <1>2, SameIs
<1>4. k \in ValuesOf(t) => u # t
  BY <1>2
<1> QED BY <1>1, <1>2, <1>3, <1>4, SearchFinds

-----------------------------------------------------------------------------
\* 94.c.  What the stack still stands for: each node on it and its right subtree.
IsRest(F) ==
    /\ F \in [Seq(Bins) -> Seq(Int)]
    /\ F[<<>>] = <<>>
    /\ \A s \in Seq(Bins) : s # <<>> =>
           F[s] = <<Trees!Last(s).val>> \o Trees!inorder(Trees!Last(s).right) \o F[Trees!Front(s)]

\* The top of the stack and the rest of it.
LEMMA LastFront ==
    ASSUME NEW T, NEW s \in Seq(T)
    PROVE  /\ s # <<>> => /\ Trees!Last(s) \in T /\ Trees!Front(s) \in Seq(T)
                          /\ Len(Trees!Front(s)) < Len(s)
           /\ \A x \in T : /\ Append(s, x) \in Seq(T) /\ Append(s, x) # <<>>
                           /\ Trees!Last(Append(s, x)) = x /\ Trees!Front(Append(s, x)) = s
<1>1. ASSUME s # <<>>
      PROVE  Trees!Last(s) \in T /\ Trees!Front(s) \in Seq(T) /\ Len(Trees!Front(s)) < Len(s)
  <2>1. Len(s) \in Nat /\ Len(s) # 0
    BY <1>1, EmptySeq
  <2>2. Trees!Last(s) \in T
    BY <2>1 DEF Trees!Last
  <2>3. SubSeq(s, 1, Len(s) - 1) \in Seq(T) /\ Len(SubSeq(s, 1, Len(s) - 1)) = Len(s) - 1
    <3>1. \A a \in 1 .. Len(s) - 1 : s[a] \in T
      BY <2>1
    <3> DEFINE k == Len(s)
               n == k - 1
    <3>0. k \in Nat /\ k # 0
      BY <2>1
    <3> HIDE DEF k
    <3>2. n \in Int /\ 1 \in Int /\ (1 <= n \/ n = 0)
      BY <3>0
    <3> HIDE DEF n
    <3>3. \A a \in 1 .. n : s[a] \in T
      BY <3>1 DEF n, k
    <3>4. SubSeq(s, 1, n) \in Seq(T) /\ Len(SubSeq(s, 1, n)) = n
      BY <3>2, <3>3, SubSeqProperties
    <3> QED BY <3>4 DEF n, k
  <2> QED BY <2>1, <2>2, <2>3 DEF Trees!Front
<1>2. ASSUME NEW x \in T
      PROVE  /\ Append(s, x) \in Seq(T) /\ Append(s, x) # <<>>
             /\ Trees!Last(Append(s, x)) = x /\ Trees!Front(Append(s, x)) = s
  <2> DEFINE u == Append(s, x)
  <2>1. u \in Seq(T) /\ Len(u) = Len(s) + 1 /\ u[Len(s) + 1] = x /\ \A a \in 1 .. Len(s) : u[a] = s[a]
    BY AppendProperties
  <2>2. u # <<>>
    BY <2>1, EmptySeq
  <2> HIDE DEF u
  <2>3. Trees!Last(u) = x
    BY <2>1 DEF Trees!Last
  <2>4. SubSeq(u, 1, Len(u) - 1) = s
    <3>1. SubSeq(u, 1, Len(u) - 1) \in Seq(T) /\ Len(SubSeq(u, 1, Len(u) - 1)) = Len(s)
      BY <2>1
    <3>2. \A a \in 1 .. Len(s) : SubSeq(u, 1, Len(u) - 1)[a] = s[a]
      BY <2>1
    <3> QED BY <3>1, <3>2, SeqEqual
  <2> QED BY <2>1, <2>2, <2>3, <2>4 DEF u, Trees!Front
<1> QED BY <1>1, <1>2

\* Joining sequences is associative.
LEMMA ThreeInSeq ==
    ASSUME NEW a \in Seq(Int), NEW b \in Seq(Int), NEW c \in Seq(Int)
    PROVE  (a \o b) \o c = a \o (b \o c)
  BY ConcatAssociative

Associate(a, b, c) == (a \o b) \o c = a \o (b \o c)

LEMMA AllAssociate == \A a, b, c \in Seq(Int) : Associate(a, b, c)
  BY ThreeInSeq DEF Associate

LEMMA TwoInSeq == \A a, b \in Seq(Int) : a \o b \in Seq(Int)
  BY ConcatProperties

\* Such a function exists.
LEMMA RestExists == \E F : IsRest(F)
<1> DEFINE S == Seq(Bins)
           X == Seq(Int)
           V(s) == <<Trees!Last(s).val>> \o Trees!inorder(Trees!Last(s).right)
           step == [s \in S |-> [g \in [S -> X] |-> IF s = <<>> THEN <<>> ELSE V(s) \o g[Trees!Front(s)]]]
           m == [s \in S |-> Len(s)]
<1>1. \A s \in S : s # <<>> => /\ Trees!Last(s) \in Bins /\ Trees!Front(s) \in S
                               /\ Len(Trees!Front(s)) < Len(s)
  BY LastFront
<1>2. \A s \in S : s # <<>> => V(s) \in X
  <2> SUFFICES ASSUME NEW t \in Bins PROVE <<t.val>> \o Trees!inorder(t.right) \in X
    BY <1>1
  <2> QED BY TreeParts, IntsAre, ValuesAre
<1>3. m \in [S -> Nat]
  OBVIOUS
<1>4. \A s \in S : s # <<>> => m[Trees!Front(s)] < m[s]
  BY <1>1
<1> HIDE DEF V, m, S
<1>5. step \in [S -> [[S -> X] -> X]]
  <2> SUFFICES ASSUME NEW s \in S, NEW g \in [S -> X]
               PROVE  (IF s = <<>> THEN <<>> ELSE V(s) \o g[Trees!Front(s)]) \in X
    OBVIOUS
  <2> QED BY <1>1, <1>2
<1> HIDE DEF X
<1>6. LooksBelow(S, X, m, step)
  <2> SUFFICES ASSUME NEW s \in S, NEW g \in [S -> X], NEW h \in [S -> X],
                      \A y \in S : m[y] < m[s] => g[y] = h[y]
               PROVE  step[s][g] = step[s][h]
    <3> HIDE DEF step
    <3> QED BY <1>3, <1>5 DEF LooksBelow
  <2>1. s # <<>> => g[Trees!Front(s)] = h[Trees!Front(s)]
    BY <1>1, <1>4
  <2> QED BY <2>1
<1>7. X # {}
  <2>1. <<>> \in X
    BY DEF X
  <2> QED BY <2>1
<1>8. PICK g \in [S -> X] : \A s \in S : g[s] = step[s][g]
  <2> HIDE DEF step
  <2> QED BY <1>6, <1>7, SolutionExists
<1>9. \A s \in S : g[s] = IF s = <<>> THEN <<>> ELSE V(s) \o g[Trees!Front(s)]
  BY <1>8
<1>10. <<>> \in S
  BY DEF S
<1>11. g[<<>>] = <<>> /\ \A s \in S : s # <<>> => g[s] = V(s) \o g[Trees!Front(s)]
  BY <1>9, <1>10
<1>12. g \in [Seq(Bins) -> Seq(Int)]
  BY DEF S, X
<1> QED BY <1>11, <1>12 DEF IsRest, V, S

\* The root, the stack and the result of 94.c, and an iteration of its loop.
Visiting == Trees!Tree \X Seq(Bins) \X Seq(Int)
Visited(h, p) ==
    IF p[1] # Trees!NULL THEN h[<<p[1].left, Append(p[2], p[1]), p[3]>>]
    ELSE IF p[2] = <<>> THEN p[3]
    ELSE h[<<Trees!Last(p[2]).right, Trees!Front(p[2]), Append(p[3], Trees!Last(p[2]).val)>>]
Visits(h) == h = [p \in Visiting |-> Visited(h, p)]

\* The loop of 94.c returns from every state.
LEMMA VisitsExist == \E h : Visits(h)
<1>1. PICK F : IsRest(F)
  BY RestExists
<1> DEFINE in(t) == Trees!inorder(t)
           h == [p \in Visiting |-> (p[3] \o in(p[1])) \o F[p[2]]]
<1>2. \A t \in Trees!Tree : in(t) \in Seq(Int)
  BY ValuesAre
<1>3. \A t \in Bins : /\ t.left \in Trees!Tree /\ t.right \in Trees!Tree /\ t.val \in Int
                      /\ t # Trees!NULL /\ t \in Trees!Tree
                      /\ in(t) = (in(t.left) \o <<t.val>>) \o in(t.right)
  BY TreeParts, IntsAre, InorderIs DEF Bins
<1>4. in(Trees!NULL) = <<>>
  BY InorderIs
<1> HIDE DEF in
<1>5. ASSUME NEW t \in Trees!Tree, NEW s \in Seq(Bins), NEW q \in Seq(Int), t # Trees!NULL
      PROVE  (q \o in(t)) \o F[s] = (q \o in(t.left)) \o F[Append(s, t)]
  <2> DEFINE a == in(t.left)
             v == <<t.val>>
             b == in(t.right)
             f == F[s]
  <2>1. t \in Bins
    BY <1>5 DEF Bins
  <2>2. a \in Seq(Int) /\ b \in Seq(Int) /\ v \in Seq(Int) /\ in(t) = (a \o v) \o b
    BY <1>2, <1>3, <2>1
  <2>3. f \in Seq(Int)
    BY <1>1 DEF IsRest
  <2>4. F[Append(s, t)] = (v \o b) \o f
    <3>1. /\ Append(s, t) \in Seq(Bins) /\ Append(s, t) # <<>>
          /\ Trees!Last(Append(s, t)) = t /\ Trees!Front(Append(s, t)) = s
      BY <2>1, LastFront
    <3> QED BY <1>1, <3>1 DEF IsRest, in
  <2> HIDE DEF a, v, b, f
  <2>5. (q \o ((a \o v) \o b)) \o f = (q \o a) \o ((v \o b) \o f)
    <3>1. a \o v \in Seq(Int) /\ v \o b \in Seq(Int) /\ q \o a \in Seq(Int) /\ (v \o b) \o f \in Seq(Int)
      BY <2>2, <2>3, TwoInSeq
    <3>2. Associate(a, v, b)
      BY <2>2, AllAssociate
    <3>3. Associate(q, a, v \o b)
      BY <2>2, <3>1, AllAssociate
    <3>4. Associate(q \o a, v \o b, f)
      BY <2>3, <3>1, AllAssociate
    <3> QED BY <3>2, <3>3, <3>4 DEF Associate
  <2>6. in(t.left) = a /\ F[s] = f
    BY DEF a, f
  <2> QED BY <2>2, <2>4, <2>5, <2>6
<1>6. ASSUME NEW s \in Seq(Bins), NEW q \in Seq(Int), s # <<>>
      PROVE  (q \o <<>>) \o F[s]
                 = (Append(q, Trees!Last(s).val) \o in(Trees!Last(s).right)) \o F[Trees!Front(s)]
  <2> DEFINE t == Trees!Last(s)
             v == <<t.val>>
             b == in(t.right)
             f == F[Trees!Front(s)]
  <2>1. t \in Bins /\ Trees!Front(s) \in Seq(Bins)
    BY <1>6, LastFront
  <2>2. v \in Seq(Int) /\ b \in Seq(Int) /\ f \in Seq(Int)
    <3>1. t.val \in Int /\ t.right \in Trees!Tree
      BY <1>3, <2>1
    <3>2. f \in Seq(Int)
      BY <1>1, <2>1 DEF IsRest
    <3> HIDE DEF t
    <3>3. b \in Seq(Int)
      BY <1>2, <3>1
    <3> QED BY <3>1, <3>2, <3>3
  <2>3. F[s] = (v \o b) \o f
    BY <1>1, <1>6 DEF IsRest, in
  <2>4. Append(q, t.val) = q \o v
    BY <1>3, <2>1, AppendIsConcat
  <2>5. q \o <<>> = q
    BY ConcatEmptySeq
  <2> HIDE DEF v, b, f
  <2>6. q \o ((v \o b) \o f) = ((q \o v) \o b) \o f
    <3>1. v \o b \in Seq(Int)
      BY <2>2, TwoInSeq
    <3>4. Associate(q, v \o b, f) /\ Associate(q, v, b)
      BY <2>2, <3>1, AllAssociate
    <3>2. q \o ((v \o b) \o f) = (q \o (v \o b)) \o f
      BY <3>4 DEF Associate
    <3>3. q \o (v \o b) = (q \o v) \o b
      BY <3>4 DEF Associate
    <3> QED BY <3>2, <3>3
  <2>7. in(Trees!Last(s).right) = b /\ F[Trees!Front(s)] = f
    BY DEF b, f
  <2> QED BY <2>3, <2>4, <2>5, <2>6, <2>7
<1>7. ASSUME NEW p \in Visiting PROVE h[p] = Visited(h, p)
  <2>1. p[1] \in Trees!Tree /\ p[2] \in Seq(Bins) /\ p[3] \in Seq(Int) /\ p = <<p[1], p[2], p[3]>>
    BY DEF Visiting
  <2>2. CASE p[1] # Trees!NULL
    <3> DEFINE r == <<p[1].left, Append(p[2], p[1]), p[3]>>
    <3>1. p[1] \in Bins
      BY <2>1, <2>2 DEF Bins
    <3>2. r \in Visiting /\ r[1] = p[1].left /\ r[2] = Append(p[2], p[1]) /\ r[3] = p[3]
      <4>1. p[1].left \in Trees!Tree /\ Append(p[2], p[1]) \in Seq(Bins)
        BY <1>3, <2>1, <3>1, LastFront
      <4> QED BY <2>1, <4>1 DEF Visiting
    <3> HIDE DEF r
    <3>3. h[r] = (p[3] \o in(p[1].left)) \o F[Append(p[2], p[1])]
      BY <3>2
    <3>4. h[p] = (p[3] \o in(p[1])) \o F[p[2]]
      OBVIOUS
    <3>5. h[p] = h[r]
      BY <1>5, <2>1, <2>2, <3>3, <3>4
    <3> HIDE DEF h
    <3> QED BY <2>2, <3>5 DEF Visited, r
  <2>3. CASE p[1] = Trees!NULL /\ p[2] = <<>>
    <3>1. h[p] = (p[3] \o <<>>) \o <<>>
      BY <1>1, <1>4, <2>3 DEF IsRest
    <3>2. h[p] = p[3]
      BY <2>1, <3>1, ConcatEmptySeq
    <3> HIDE DEF h
    <3> QED BY <2>3, <3>2 DEF Visited
  <2>4. CASE p[1] = Trees!NULL /\ p[2] # <<>>
    <3> DEFINE t == Trees!Last(p[2])
               r == <<t.right, Trees!Front(p[2]), Append(p[3], t.val)>>
    <3>1. t \in Bins /\ Trees!Front(p[2]) \in Seq(Bins)
      BY <2>1, <2>4, LastFront
    <3>2. r \in Visiting /\ r[1] = t.right /\ r[2] = Trees!Front(p[2]) /\ r[3] = Append(p[3], t.val)
      <4> HIDE DEF t
      <4>1. t.right \in Trees!Tree /\ Append(p[3], t.val) \in Seq(Int)
        BY <1>3, <2>1, <3>1, AppendProperties
      <4> QED BY <3>1, <4>1 DEF Visiting
    <3> HIDE DEF r
    <3>3. h[r] = (Append(p[3], t.val) \o in(t.right)) \o F[Trees!Front(p[2])]
      BY <3>2
    <3>4. h[p] = (p[3] \o <<>>) \o F[p[2]]
      BY <1>4, <2>4
    <3>5. h[p] = h[r]
      BY <1>6, <2>1, <2>4, <3>3, <3>4
    <3> HIDE DEF h
    <3> QED BY <2>4, <3>5 DEF Visited, r
  <2> QED BY <2>2, <2>3, <2>4
<1>8. h = [p \in Visiting |-> h[p]]
  OBVIOUS
<1>9. Visits(h)
  <2> HIDE DEF h
  <2> QED BY <1>7, <1>8 DEF Visits
<1> HIDE DEF h
<1> QED BY <1>9

\* The stack gives the order that the recursion of 1382.c gives.
LEMMA TraversalIs ==
    \A t \in Trees!Tree : Trees!inorderTraversal(t) = Trees!inorder(t)
<1> DEFINE h == CHOOSE x : Visits(x)
           in(t) == Trees!inorder(t)
           N == Trees!NULL
<1>1. Visits(h)
  BY VisitsExist
<1>2. \A t : Trees!inorderTraversal(t) = h[<<t, <<>>, <<>>>>]
  BY DEF Trees!inorderTraversal, Visits, Visited, Visiting, Bins
<1> HIDE DEF h
<1>3. \A p \in Visiting : h[p] = Visited(h, p)
  BY <1>1 DEF Visits
<1>4. /\ \A t \in Trees!Tree : in(t) \in Seq(Int)
      /\ \A t \in Bins : /\ t.left \in Trees!Tree /\ t.right \in Trees!Tree /\ t.val \in Int
                         /\ t # N /\ t \in Trees!Tree
                         /\ in(t) = (in(t.left) \o <<t.val>>) \o in(t.right)
      /\ in(N) = <<>> /\ N \in Trees!Tree
  BY TreeParts, IntsAre, InorderIs, ValuesAre DEF Bins
<1> HIDE DEF in
<1> DEFINE G == {t \in Trees!Tree : \A s \in Seq(Bins), q \in Seq(Int) :
                     h[<<t, s, q>>] = h[<<N, s, q \o in(t)>>]}
<1>5. N \in G
  BY <1>4, ConcatEmptySeq
<1>6. ASSUME NEW t \in Bins, t.left \in G, t.right \in G PROVE t \in G
  <2> SUFFICES ASSUME NEW s \in Seq(Bins), NEW q \in Seq(Int)
               PROVE  h[<<t, s, q>>] = h[<<N, s, q \o in(t)>>]
    BY <1>4
  <2> DEFINE u == Append(s, t)
             a == in(t.left)
             b == in(t.right)
             v == <<t.val>>
  <2>1. u \in Seq(Bins) /\ u # <<>> /\ Trees!Last(u) = t /\ Trees!Front(u) = s
    BY LastFront
  <2>2. a \in Seq(Int) /\ b \in Seq(Int) /\ v \in Seq(Int)
    <3>1. t.val \in Int /\ t.left \in Trees!Tree /\ t.right \in Trees!Tree
      BY <1>4
    <3> QED BY <1>4, <3>1
  <2> HIDE DEF u, a, b
  <2>3. q \o a \in Seq(Int) /\ Append(q \o a, t.val) \in Seq(Int) /\ Append(q \o a, t.val) = (q \o a) \o v
    <3>1. q \o a \in Seq(Int)
      BY <2>2
    <3> QED BY <1>4, <3>1, AppendIsConcat, AppendProperties
  <2>4. h[<<t, s, q>>] = h[<<t.left, u, q>>]
    <3>1. <<t, s, q>> \in Visiting
      BY <1>4 DEF Visiting
    <3> QED BY <1>3, <1>4, <3>1 DEF Visited, u
  <2>5. h[<<t.left, u, q>>] = h[<<N, u, q \o a>>]
    BY <1>6, <2>1 DEF a
  <2>6. h[<<N, u, q \o a>>] = h[<<t.right, s, (q \o a) \o v>>]
    <3>1. <<N, u, q \o a>> \in Visiting
      BY <1>4, <2>1, <2>3 DEF Visiting
    <3>2. h[<<N, u, q \o a>>] = Visited(h, <<N, u, q \o a>>)
      BY <1>3, <3>1
    <3> QED BY <2>1, <2>3, <3>2 DEF Visited
  <2>7. h[<<t.right, s, (q \o a) \o v>>] = h[<<N, s, ((q \o a) \o v) \o b>>]
    BY <1>6, <2>3 DEF b
  <2>8. ((q \o a) \o v) \o b = q \o in(t)
    <3> HIDE DEF v
    <3>1. Associate(q, a, v) /\ a \o v \in Seq(Int)
      BY <2>2, AllAssociate, TwoInSeq
    <3>2. Associate(q, a \o v, b)
      BY <2>2, <3>1, AllAssociate
    <3>3. in(t) = (a \o v) \o b
      BY <1>4 DEF a, b, v
    <3> QED BY <3>1, <3>2, <3>3 DEF Associate
  <2> QED BY <2>4, <2>5, <2>6, <2>7, <2>8
<1>7. \A t \in Trees!Tree : t \in G
  <2> HIDE DEF G
  <2> QED BY <1>5, <1>6, TreeInduction DEF N
<1>8. ASSUME NEW t \in Trees!Tree PROVE h[<<t, <<>>, <<>>>>] = in(t)
  <2>1. <<>> \in Seq(Bins) /\ <<>> \in Seq(Int) /\ in(t) \in Seq(Int)
    BY <1>4
  <2>2. h[<<t, <<>>, <<>>>>] = h[<<N, <<>>, <<>> \o in(t)>>]
    BY <1>7, <2>1
  <2>3. <<>> \o in(t) = in(t)
    BY <2>1, ConcatEmptySeq
  <2>4. <<N, <<>>, in(t)>> \in Visiting
    BY <1>4, <2>1 DEF Visiting
  <2>5. h[<<N, <<>>, in(t)>>] = Visited(h, <<N, <<>>, in(t)>>)
    BY <1>3, <2>4
  <2>6. h[<<N, <<>>, in(t)>>] = in(t)
    BY <2>5 DEF Visited
  <2> QED BY <2>2, <2>3, <2>6
<1> QED BY <1>2, <1>8 DEF in

\* 94.c and 98.c.
LEMMA TraversalCorrect == \A t \in Trees!Tree : Trees!TraversalIsRight(t)
  BY TraversalIs, ValidIs DEF Trees!TraversalIsRight, Climbs

-----------------------------------------------------------------------------
\* How many nodes so many levels hold, and how many levels so many nodes need.
Full == CHOOSE f : f = [d \in Nat |-> IF d = 0 THEN 0 ELSE 2 * f[d - 1] + 1]

\* Each further level doubles the nodes and adds one.
LEMMA FullIs ==
    /\ Full \in [Nat -> Nat]
    /\ Full[0] = 0
    /\ \A d \in Nat : Full[d + 1] = 2 * Full[d] + 1
<1> DEFINE S == Nat
           X == Nat
           m == [d \in S |-> d]
           step == [d \in S |-> [g \in [S -> X] |-> IF d = 0 THEN 0 ELSE 2 * g[d - 1] + 1]]
           Is(f) == f = [d \in Nat |-> IF d = 0 THEN 0 ELSE 2 * f[d - 1] + 1]
<1>1. step \in [S -> [[S -> X] -> X]]
  <2> SUFFICES ASSUME NEW d \in S, NEW g \in [S -> X]
               PROVE  (IF d = 0 THEN 0 ELSE 2 * g[d - 1] + 1) \in X
    OBVIOUS
  <2>1. d # 0 => d - 1 \in S
    OBVIOUS
  <2>2. d # 0 => g[d - 1] \in Nat
    BY <2>1
  <2> QED BY <2>2
<1>2. LooksBelow(S, X, m, step)
  <2>1. ASSUME NEW d \in S, NEW g \in [S -> X], NEW h \in [S -> X],
               \A y \in S : m[y] < m[d] => g[y] = h[y]
        PROVE  step[d][g] = step[d][h]
    <3>1. d # 0 => d - 1 \in S /\ m[d - 1] < m[d]
      OBVIOUS
    <3>2. d # 0 => g[d - 1] = h[d - 1]
      BY <2>1, <3>1
    <3> QED BY <3>2
  <2>2. m \in [S -> Nat]
    OBVIOUS
  <2> HIDE DEF step, m, S, X
  <2> QED BY <1>1, <2>1, <2>2 DEF LooksBelow
<1>3. PICK g \in [S -> X] : \A d \in S : g[d] = step[d][g]
  <2>1. X # {}
    OBVIOUS
  <2> HIDE DEF step, m, S, X
  <2> QED BY <1>2, <2>1, SolutionExists
<1>4. Is(g)
  BY <1>3
<1>5. Is(Full)
  <2>1. Full = CHOOSE f : Is(f)
    BY DEF Full
  <2> HIDE DEF Is
  <2> QED BY <1>4, <2>1
<1>6. \A d \in Nat : Full[d] = IF d = 0 THEN 0 ELSE 2 * Full[d - 1] + 1
  BY <1>5
<1> DEFINE T == {d \in Nat : Full[d] \in Nat}
<1>7. ASSUME NEW n \in Nat, \A k \in 0 .. n - 1 : k \in T PROVE n \in T
  <2>1. n # 0 => n - 1 \in 0 .. n - 1
    OBVIOUS
  <2>2. n # 0 => Full[n - 1] \in Nat
    BY <1>7, <2>1
  <2> QED BY <1>6, <2>2
<1>8. \A n \in Nat : n \in T
  <2> HIDE DEF T
  <2> QED BY <1>7, FromSmaller
<1>9. Full \in [Nat -> Nat]
  <2>1. Full = [d \in Nat |-> Full[d]]
    BY <1>5
  <2> QED BY <1>8, <2>1
<1>10. Full[0] = 0
  BY <1>6
<1>11. ASSUME NEW d \in Nat PROVE Full[d + 1] = 2 * Full[d] + 1
  <2>1. d + 1 \in Nat /\ d + 1 # 0 /\ (d + 1) - 1 = d
    OBVIOUS
  <2> QED BY <1>6, <2>1
<1> QED BY <1>9, <1>10, <1>11

\* So many levels hold at least as many nodes.
LEMMA FullGrows == \A d \in Nat : d <= Full[d]
<1> DEFINE T == {d \in Nat : d <= Full[d]}
<1>1. ASSUME NEW n \in Nat, \A k \in 0 .. n - 1 : k \in T PROVE n \in T
  <2>1. CASE n = 0
    BY <2>1, FullIs
  <2>2. CASE n # 0
    <3> DEFINE k == n - 1
    <3>1. k \in 0 .. n - 1 /\ k \in Nat /\ k + 1 = n
      BY <2>2
    <3> HIDE DEF k
    <3>2. k <= Full[k] /\ Full[k] \in Nat /\ Full[k + 1] = 2 * Full[k] + 1
      BY <1>1, <3>1, FullIs
    <3> QED BY <3>1, <3>2
  <2> QED BY <2>1, <2>2
<1> HIDE DEF T
<1>2. \A n \in Nat : n \in T
  BY <1>1, FromSmaller
<1> QED BY <1>2 DEF T

\* So many levels are enough, and fewer are not.
LEMMA LowestIs ==
    ASSUME NEW n \in Nat
    PROVE  /\ Trees!Lowest(n) \in Nat /\ n <= Full[Trees!Lowest(n)]
           /\ \A d \in Nat : n <= Full[d] => Trees!Lowest(n) <= d
<1> DEFINE D == {d \in 0 .. n : n <= Full[d]}
           least == CHOOSE x \in D : \A y \in D : x <= y
<1>1. Trees!Lowest(n) = least
  BY DEF Trees!Lowest, Trees!Min, Full
<1>2. n \in D /\ D \in SUBSET Nat
  BY FullGrows
<1>3. \E x \in D : \A y \in D : x <= y
  <2> HIDE DEF D
  <2> QED BY <1>2, SmallestOf
<1>4. least \in D /\ \A y \in D : least <= y
  <2> HIDE DEF D
  <2> QED BY <1>3
<1> HIDE DEF least
<1>5. ASSUME NEW d \in Nat, n <= Full[d] PROVE least <= d
  <2>1. CASE d <= n
    BY <1>4, <1>5, <2>1
  <2>2. CASE n < d
    BY <1>4, <2>2
  <2> QED BY <2>1, <2>2
<1> QED BY <1>1, <1>4, <1>5

\* Halving a number.
LEMMA Halves ==
    ASSUME NEW n \in Nat
    PROVE  /\ n \div 2 \in Nat
           /\ n = 2 * (n \div 2) \/ n = 2 * (n \div 2) + 1
  OBVIOUS

\* More nodes need no fewer levels.
LEMMA LowestGrows ==
    ASSUME NEW a \in Nat, NEW b \in Nat, a <= b
    PROVE  Trees!Lowest(a) <= Trees!Lowest(b)
<1> DEFINE d == Trees!Lowest(b)
<1>1. d \in Nat /\ b <= Full[d]
  BY LowestIs
<1>2. Full[d] \in Nat
  BY <1>1, FullIs
<1> HIDE DEF d
<1>3. a <= Full[d]
  BY <1>1, <1>2
<1> QED BY <1>1, <1>3, LowestIs DEF d

\* A root takes one level, and half of the others go below it on each side.
LEMMA LowestSteps ==
    /\ Trees!Lowest(0) = 0
    /\ \A n \in Nat : n # 0 => Trees!Lowest(n) = Trees!Lowest(n \div 2) + 1
<1>1. Trees!Lowest(0) = 0
  BY LowestIs, FullIs
<1>2. ASSUME NEW n \in Nat, n # 0 PROVE Trees!Lowest(n) = Trees!Lowest(n \div 2) + 1
  <2> DEFINE k == n \div 2
             d == Trees!Lowest(n)
             e == Trees!Lowest(k)
             c == d - 1
  <2>1. k \in Nat /\ (n = 2 * k \/ n = 2 * k + 1)
    BY Halves
  <2> HIDE DEF k
  <2>2. d \in Nat /\ n <= Full[d] /\ \A x \in Nat : n <= Full[x] => d <= x
    BY LowestIs
  <2>3. e \in Nat /\ k <= Full[e] /\ \A x \in Nat : k <= Full[x] => e <= x
    BY <2>1, LowestIs
  <2> HIDE DEF d, e
  <2>4. d # 0
    BY <1>2, <2>2, FullIs
  <2>5. c \in Nat /\ c + 1 = d
    BY <2>2, <2>4
  <2> HIDE DEF c
  <2>6. Full[c] \in Nat /\ Full[d] = 2 * Full[c] + 1 /\ Full[e] \in Nat /\ Full[e + 1] = 2 * Full[e] + 1
    BY <2>3, <2>5, FullIs
  <2>7. k <= Full[c]
    BY <2>1, <2>2, <2>6
  <2>8. e <= c
    BY <2>3, <2>5, <2>7
  <2>9. e + 1 \in Nat /\ n <= Full[e + 1]
    BY <2>1, <2>3, <2>6
  <2>10. d <= e + 1
    BY <2>2, <2>9
  <2>11. d = e + 1
    BY <2>2, <2>3, <2>5, <2>8, <2>10
  <2> QED BY <2>11 DEF d, e, k
<1> QED BY <1>1, <1>2

\* The nodes of a tree fit into its levels.
LEMMA NodesFit ==
    ASSUME NEW t \in Trees!Tree
    PROVE  Trees!inorder(t) \in Seq(Trees!Ints) /\ Trees!Lowest(Len(Trees!inorder(t))) <= Levels
<1>1. Levels \in Nat /\ Trees!Tree = Trees!UpTo(Levels)
  BY InputAssumption DEF Trees!Tree
<1> DEFINE T == {n \in Nat : n <= Levels => \A u \in Trees!UpTo(n) : Len(Trees!inorder(u)) <= Full[n]}
<1>2. ASSUME NEW n \in Nat, \A k \in 0 .. n - 1 : k \in T PROVE n \in T
  <2> SUFFICES ASSUME n <= Levels, NEW u \in Trees!UpTo(n) PROVE Len(Trees!inorder(u)) <= Full[n]
    OBVIOUS
  <2>1. CASE u = Trees!NULL
    BY <2>1, InorderIs, FullIs
  <2>2. CASE u # Trees!NULL
    <3> DEFINE k == n - 1
               a == Trees!inorder(u.left)
               b == Trees!inorder(u.right)
               v == <<u.val>>
    <3>1. n # 0 /\ u \in BinOver(Trees!UpTo(n - 1))
      BY <2>2, BinIs
    <3>2. k \in 0 .. n - 1 /\ k \in Nat /\ k + 1 = n /\ k <= Levels
      BY <1>1, <3>1
    <3>3. u.left \in Trees!UpTo(k) /\ u.right \in Trees!UpTo(k)
      BY <3>1, BinType
    <3>4. u \in Trees!Tree /\ u \in Bins
      <4>1. n \in 0 .. Levels
        BY <1>1
      <4> QED BY <1>1, <2>2, <4>1, UpToGrows DEF Bins
    <3> HIDE DEF k
    <3>5. Len(a) <= Full[k] /\ Len(b) <= Full[k]
      BY <1>2, <3>2, <3>3
    <3>6. a \in Seq(Trees!Ints) /\ b \in Seq(Trees!Ints) /\ v \in Seq(Trees!Ints)
      BY <3>4, TreeParts, InorderIs
    <3>7. Trees!inorder(u) = (a \o v) \o b
      BY <3>4, InorderIs
    <3>8. Len(v) = 1
      OBVIOUS
    <3> HIDE DEF a, b, v
    <3>9. Len((a \o v) \o b) = Len(a) + 1 + Len(b) /\ Len(a) \in Nat /\ Len(b) \in Nat
      <4>1. a \o v \in Seq(Trees!Ints) /\ Len(a \o v) = Len(a) + Len(v)
        BY <3>6, ConcatProperties
      <4>2. Len((a \o v) \o b) = Len(a \o v) + Len(b)
        BY <3>6, <4>1, ConcatProperties
      <4>3. Len(a) \in Nat /\ Len(b) \in Nat
        BY <3>6, LenProperties
      <4> QED BY <3>8, <4>1, <4>2, <4>3
    <3>10. Full[k] \in Nat /\ Full[n] = 2 * Full[k] + 1
      BY <3>2, FullIs
    <3> QED BY <3>5, <3>7, <3>9, <3>10
  <2> QED BY <2>1, <2>2
<1>3. \A n \in Nat : n \in T
  <2> HIDE DEF T
  <2> QED BY <1>2, FromSmaller
<1>4. Trees!inorder(t) \in Seq(Trees!Ints) /\ Len(Trees!inorder(t)) <= Full[Levels]
  BY <1>1, <1>3, InorderIs
<1>5. Len(Trees!inorder(t)) \in Nat
  BY <1>4
<1> QED BY <1>1, <1>4, <1>5, LowestIs

-----------------------------------------------------------------------------
\* A tree built from the values of s from a to b.
Holds(t, s, a, b) ==
    /\ t \in Trees!UpTo(Trees!Lowest(b - a + 1))
    /\ Trees!inorder(t) = SubSeq(s, a, b)
    /\ Trees!maxDepth(t) = Trees!Lowest(b - a + 1)

\* The empty tree is built from no values.
LEMMA NothingHeld ==
    ASSUME NEW s \in Seq(Trees!Ints), NEW a \in 1 .. Len(s) + 1
    PROVE  Holds(Trees!NULL, s, a, a - 1)
<1>1. (a - 1) - a + 1 = 0 /\ a \in Int /\ a - 1 \in Int /\ a - 1 < a
  OBVIOUS
<1>2. SubSeq(s, a, a - 1) = <<>>
  BY <1>1, SubSeqEmpty
<1> QED BY <1>1, <1>2, LowestSteps, UpToIs, InorderIs, DepthIs DEF Holds

\* The value in the middle over trees of the two halves.
LEMMA JoinedHolds ==
    ASSUME NEW s \in Seq(Trees!Ints), NEW a \in 1 .. Len(s), NEW b \in a .. Len(s), NEW c \in a .. b,
           Trees!Lowest(Len(s)) <= Levels,
           NEW l, Holds(l, s, a, c - 1), NEW r, Holds(r, s, c + 1, b),
           \/ c - a = (b - a + 1) \div 2 /\ b - c <= c - a
           \/ b - c = (b - a + 1) \div 2 /\ c - a <= b - c
    PROVE  Holds(Trees!TreeNode(s[c], l, r), s, a, b)
<1> DEFINE n == b - a + 1
           p == c - a
           q == b - c
           k == n \div 2
           h == Trees!Lowest(k)
           t == Trees!TreeNode(s[c], l, r)
<1>0. /\ Len(s) \in Nat /\ a \in Int /\ b \in Int /\ c \in Int
      /\ n \in Nat /\ n # 0 /\ n <= Len(s) /\ p \in Nat /\ q \in Nat
      /\ (c - 1) - a + 1 = p /\ b - (c + 1) + 1 = q /\ c \in 1 .. Len(s)
  OBVIOUS
<1>1. k \in Nat /\ ((p = k /\ q <= k) \/ (q = k /\ p <= k))
  BY <1>0, Halves
<1> HIDE DEF p, q, n, k
<1>2. /\ Trees!Lowest(n) = h + 1 /\ h \in Nat /\ Trees!Lowest(n) <= Levels
  <2>1. Trees!Lowest(n) <= Trees!Lowest(Len(s))
    BY <1>0, LowestGrows
  <2>2. Trees!Lowest(n) \in Nat /\ Trees!Lowest(Len(s)) \in Nat /\ Levels \in Nat
    BY <1>0, LowestIs, InputAssumption
  <2>3. Trees!Lowest(n) = h + 1
    BY <1>0, LowestSteps DEF k
  <2>4. h \in Nat
    BY <1>1, LowestIs
  <2> HIDE DEF h
  <2> QED BY <2>1, <2>2, <2>3, <2>4
<1>3. /\ Trees!Lowest(p) \in 0 .. h /\ Trees!Lowest(q) \in 0 .. h
      /\ Trees!Lowest(p) = h \/ Trees!Lowest(q) = h
  <2>1. Trees!Lowest(p) <= h /\ Trees!Lowest(q) <= h
    BY <1>0, <1>1, LowestGrows
  <2>2. Trees!Lowest(p) \in Nat /\ Trees!Lowest(q) \in Nat
    BY <1>0, LowestIs
  <2>3. Trees!Lowest(p) = h \/ Trees!Lowest(q) = h
    BY <1>1
  <2> HIDE DEF h
  <2> QED BY <1>2, <2>1, <2>2, <2>3
<1>4. /\ l \in Trees!UpTo(Trees!Lowest(p)) /\ Trees!inorder(l) = SubSeq(s, a, c - 1)
      /\ Trees!maxDepth(l) = Trees!Lowest(p)
      /\ r \in Trees!UpTo(Trees!Lowest(q)) /\ Trees!inorder(r) = SubSeq(s, c + 1, b)
      /\ Trees!maxDepth(r) = Trees!Lowest(q)
  BY <1>0 DEF Holds
<1>5. l \in Trees!UpTo(h) /\ r \in Trees!UpTo(h)
  <2> HIDE DEF h
  <2> QED BY <1>2, <1>3, <1>4, UpToGrows
<1>6. s[c] \in Trees!Ints
  BY <1>0, ElementOfSeq
<1>7. t \in Trees!UpTo(h + 1)
  <2> HIDE DEF h
  <2> QED BY <1>2, <1>5, <1>6, BinIsTree
<1>8. t \in Bins /\ t.val = s[c] /\ t.left = l /\ t.right = r
  <2>1. t.val = s[c] /\ t.left = l /\ t.right = r
    BY DEF Trees!TreeNode
  <2>2. t # Trees!NULL
    BY BinIsNot
  <2>3. Levels \in Nat /\ h + 1 \in 0 .. Levels
    BY <1>2, InputAssumption
  <2> HIDE DEF t, h
  <2>4. t \in Trees!Tree
    BY <1>7, <2>3, UpToGrows DEF Trees!Tree
  <2> QED BY <2>1, <2>2, <2>4 DEF Bins
<1> HIDE DEF t, h
<1>9. Trees!maxDepth(t) = h + 1
  <2> DEFINE x == Trees!Lowest(p)
             y == Trees!Lowest(q)
  <2>1. x \in Int /\ y \in Int /\ (IF x <= y THEN y ELSE x) = h
    <3>1. x \in 0 .. h /\ y \in 0 .. h /\ (x = h \/ y = h) /\ h \in Nat
      BY <1>2, <1>3
    <3> HIDE DEF x, y
    <3> QED BY <3>1
  <2>2. Trees!maxDepth(t) = Trees!Max({Trees!maxDepth(l), Trees!maxDepth(r)}) + 1
    BY <1>8, DepthIs
  <2>3. Trees!maxDepth(l) = x /\ Trees!maxDepth(r) = y
    BY <1>4
  <2> HIDE DEF x, y
  <2>4. Trees!Max({x, y}) = h
    BY <2>1, MaxOfTwo
  <2> QED BY <2>2, <2>3, <2>4
<1>10. Trees!inorder(t) = SubSeq(s, a, b)
  <2>1. Trees!inorder(t) = SubSeq(s, a, c - 1) \o <<s[c]>> \o SubSeq(s, c + 1, b)
    BY <1>4, <1>8, InorderIs
  <2>2. SubSeq(s, a, c - 1) \o <<s[c]>> = SubSeq(s, a, c)
    <3>1. a \in 1 .. Len(s) /\ c \in a .. Len(s)
      BY <1>0
    <3> QED BY <3>1, SubSeqRecursiveSecond
  <2>3. SubSeq(s, a, c) \o SubSeq(s, c + 1, b) = SubSeq(s, a, b)
    <3>1. a \in 1 .. Len(s) + 1 /\ c \in a - 1 .. Len(s) /\ b \in c .. Len(s)
      BY <1>0
    <3> QED BY <3>1, ConcatAdjacentSubSeq
  <2> QED BY <2>1, <2>2, <2>3
<1> QED BY <1>2, <1>7, <1>9, <1>10 DEF Holds, n, t

-----------------------------------------------------------------------------
\* 109.c and 876.c.
LEMMA MiddleIs ==
    ASSUME NEW a \in Nat, NEW b \in Nat, a <= b
    PROVE  Trees!Middle(a, b) = a + (b - a) \div 2
<1> DEFINE S == Nat \X (0 .. b)
           Is(h) == h = [p \in S |-> IF p[2] # b /\ p[2] + 1 # b THEN h[<<p[1] + 1, p[2] + 2>>] ELSE p[1]]
           slow == CHOOSE h : Is(h)
           g == [p \in S |-> p[1] + (b - p[2]) \div 2]
<1>1. ASSUME NEW x \in Nat, NEW f \in 0 .. b, f # b, f + 1 # b
      PROVE  <<x + 1, f + 2>> \in S /\ (x + 1) + (b - (f + 2)) \div 2 = x + (b - f) \div 2
  <2>1. f + 2 \in 0 .. b
    BY <1>1
  <2> QED BY <2>1
<1>2. ASSUME NEW f \in 0 .. b, f = b \/ f + 1 = b
      PROVE  (b - f) \div 2 = 0
  BY <1>2
<1>3. ASSUME NEW p \in S
      PROVE  g[p] = IF p[2] # b /\ p[2] + 1 # b THEN g[<<p[1] + 1, p[2] + 2>>] ELSE p[1]
  <2>1. p[1] \in Nat /\ p[2] \in 0 .. b
    OBVIOUS
  <2>2. CASE p[2] # b /\ p[2] + 1 # b
    <3> DEFINE r == <<p[1] + 1, p[2] + 2>>
    <3>1. r \in S /\ r[1] = p[1] + 1 /\ r[2] = p[2] + 2
      BY <1>1, <2>1, <2>2
    <3>2. g[r] = (p[1] + 1) + (b - (p[2] + 2)) \div 2
      <4> HIDE DEF r
      <4> QED BY <3>1
    <3>3. g[p] = p[1] + (b - p[2]) \div 2
      OBVIOUS
    <3> HIDE DEF g
    <3> QED BY <1>1, <2>1, <2>2, <3>2, <3>3
  <2>3. CASE p[2] = b \/ p[2] + 1 = b
    BY <1>2, <2>1, <2>3
  <2> QED BY <2>2, <2>3
<1>4. Is(g)
  <2>1. g = [p \in S |-> g[p]]
    OBVIOUS
  <2> HIDE DEF g, S
  <2> QED BY <1>3, <2>1
<1>5. Is(slow)
  <2> HIDE DEF Is
  <2> QED BY <1>4
<1>6. Trees!Middle(a, b) = slow[<<a, a>>]
  BY DEF Trees!Middle
<1>7. \A p \in S : slow[p] = IF p[2] # b /\ p[2] + 1 # b THEN slow[<<p[1] + 1, p[2] + 2>>] ELSE p[1]
  <2> HIDE DEF slow, S
  <2> QED BY <1>5
<1> HIDE DEF slow, Is, g
<1> DEFINE T == {n \in Nat : \A x \in Nat, f \in 0 .. b : b - f = n => slow[<<x, f>>] = x + (b - f) \div 2}
<1>8. ASSUME NEW n \in Nat, \A k \in 0 .. n - 1 : k \in T PROVE n \in T
  <2> SUFFICES ASSUME NEW x \in Nat, NEW f \in 0 .. b, b - f = n
               PROVE  slow[<<x, f>>] = x + (b - f) \div 2
    OBVIOUS
  <2>1. <<x, f>> \in S
    OBVIOUS
  <2>2. slow[<<x, f>>] = IF f # b /\ f + 1 # b THEN slow[<<x + 1, f + 2>>] ELSE x
    <3> HIDE DEF S
    <3> QED BY <1>7, <2>1
  <2>3. CASE f # b /\ f + 1 # b
    <3>1. x + 1 \in Nat /\ f + 2 \in 0 .. b /\ b - (f + 2) \in 0 .. n - 1
      BY <2>3
    <3>2. b - (f + 2) \in T
      BY <1>8, <3>1
    <3>3. slow[<<x + 1, f + 2>>] = (x + 1) + (b - (f + 2)) \div 2
      BY <3>1, <3>2
    <3> HIDE DEF T
    <3> QED BY <1>1, <2>2, <2>3, <3>3
  <2>4. CASE f = b \/ f + 1 = b
    BY <1>2, <2>2, <2>4
  <2> QED BY <2>3, <2>4
<1>9. \A n \in Nat : n \in T
  <2> HIDE DEF T
  <2> QED BY <1>8, FromSmaller
<1>10. a \in 0 .. b /\ b - a \in Nat
  OBVIOUS
<1>11. b - a \in T
  BY <1>9, <1>10
<1> QED BY <1>6, <1>10, <1>11

\* A function on stretches of a list that makes a tree of the value in the middle and of
\* what it makes of the two sides.
\* It makes nothing of the stretches in E.
Splits(P, E, mid, lo, hi, m, s) ==
    /\ m \in [P -> Nat]
    /\ \A p \in P : p \notin E => /\ mid[p] \in 1 .. Len(s)
                                  /\ <<p[1], lo[p]>> \in P /\ <<hi[p], p[2]>> \in P
                                  /\ m[<<p[1], lo[p]>>] < m[p] /\ m[<<hi[p], p[2]>>] < m[p]
Builds(P, E, mid, lo, hi, s, g) ==
    /\ g = [p \in P |-> g[p]]
    /\ \A p \in P : g[p] = IF p \in E THEN Trees!NULL
                           ELSE Trees!TreeNode(s[mid[p]], g[<<p[1], lo[p]>>], g[<<hi[p], p[2]>>])

\* Such a function exists.
LEMMA BuildingExists ==
    ASSUME NEW s \in Seq(Trees!Ints), NEW P, NEW E, NEW mid, NEW lo, NEW hi, NEW m,
           Splits(P, E, mid, lo, hi, m, s)
    PROVE  \E g : Builds(P, E, mid, lo, hi, s, g)
<1> DEFINE N == Trees!NULL
           X == AllBins
           left(p) == <<p[1], lo[p]>>
           right(p) == <<hi[p], p[2]>>
           node(p, l, r) == Trees!TreeNode(s[mid[p]], l, r)
           step == [p \in P |-> [g \in [P -> X] |-> IF p \in E THEN N ELSE node(p, g[left(p)], g[right(p)])]]
<1>1. N \in X /\ X # {}
  BY AllBinsAre
<1>2. \A p \in P, l, r \in X : p \notin E => node(p, l, r) \in X
  BY AllBinsAre, ElementOfSeq DEF Splits
<1>0. m \in [P -> Nat]
  BY DEF Splits
<1>3. \A p \in P : p \notin E => left(p) \in P /\ right(p) \in P /\ m[left(p)] < m[p] /\ m[right(p)] < m[p]
  BY DEF Splits
<1> HIDE DEF N, X, left, right, node
<1>4. step \in [P -> [[P -> X] -> X]]
  <2> SUFFICES ASSUME NEW p \in P, NEW g \in [P -> X]
               PROVE  (IF p \in E THEN N ELSE node(p, g[left(p)], g[right(p)])) \in X
    OBVIOUS
  <2> QED BY <1>1, <1>2, <1>3
<1>5. LooksBelow(P, X, m, step)
  <2>1. ASSUME NEW p \in P, NEW g \in [P -> X], NEW h \in [P -> X],
               \A y \in P : m[y] < m[p] => g[y] = h[y]
        PROVE  step[p][g] = step[p][h]
    <3>1. p \notin E => g[left(p)] = h[left(p)] /\ g[right(p)] = h[right(p)]
      BY <1>3, <2>1
    <3> QED BY <3>1
  <2> HIDE DEF step
  <2> QED BY <1>0, <1>4, <2>1 DEF LooksBelow
<1>6. PICK g \in [P -> X] : \A p \in P : g[p] = step[p][g]
  <2> HIDE DEF step
  <2> QED BY <1>1, <1>5, SolutionExists
<1>7. \A p \in P : g[p] = IF p \in E THEN N ELSE node(p, g[left(p)], g[right(p)])
  BY <1>6
<1>8. g = [p \in P |-> g[p]]
  OBVIOUS
<1> QED BY <1>7, <1>8 DEF Builds, N, left, right, node

-----------------------------------------------------------------------------
\* 1382.c.
LEMMA Middling ==
    ASSUME NEW a \in Int, NEW b \in Int, a <= b
    PROVE  LET c == a + (b - a) \div 2
           IN  /\ c \in a .. b
               /\ b - c = (b - a + 1) \div 2 /\ c - a <= b - c
<1> DEFINE n == b - a
           k == n \div 2
           j == (n + 1) \div 2
<1>1. n \in Nat /\ n + 1 \in Nat /\ b = a + n
  OBVIOUS
<1> HIDE DEF n
<1>2. k \in Nat /\ (n = 2 * k \/ n = 2 * k + 1) /\ j \in Nat /\ (n + 1 = 2 * j \/ n + 1 = 2 * j + 1)
  BY <1>1, Halves
<1>3. (b - a + 1) \div 2 = j /\ (b - a) \div 2 = k
  BY DEF n
<1> HIDE DEF k, j
<1>4. j = n - k
  BY <1>1, <1>2
<1> QED BY <1>1, <1>2, <1>3, <1>4

\* What buildBalanced makes of the whole array.
LEMMA BalancedIs ==
    ASSUME NEW s \in Seq(Trees!Ints), Trees!Lowest(Len(s)) <= Levels
    PROVE  Holds(Trees!buildBalanced(s, 1, Len(s)), s, 1, Len(s))
<1> DEFINE P == (1 .. Len(s) + 1) \X (0 .. Len(s))
           N == Trees!NULL
           mid(p) == p[1] + (p[2] - p[1]) \div 2
           Is(h) == h = [p \in P |->
                            IF p[1] > p[2] THEN N
                            ELSE LET c == p[1] + (p[2] - p[1]) \div 2
                                 IN  Trees!TreeNode(s[c], h[<<p[1], c - 1>>], h[<<c + 1, p[2]>>])]
           built == CHOOSE h : Is(h)
<1>1. Len(s) \in Nat
  OBVIOUS
<1>2. ASSUME NEW p \in P, ~(p[1] > p[2])
      PROVE  /\ p[1] \in 1 .. Len(s) /\ p[2] \in p[1] .. Len(s) /\ mid(p) \in p[1] .. p[2]
             /\ p[2] - mid(p) = (p[2] - p[1] + 1) \div 2 /\ mid(p) - p[1] <= p[2] - mid(p)
  <2>1. p[1] \in 1 .. Len(s) /\ p[2] \in p[1] .. Len(s) /\ p[1] \in Int /\ p[2] \in Int /\ p[1] <= p[2]
    BY <1>2
  <2> QED BY <2>1, Middling
<1>3. \E g : Is(g)
  <2> DEFINE E == {p \in P : p[1] > p[2]}
             md == [p \in P |-> mid(p)]
             lo == [p \in P |-> mid(p) - 1]
             hi == [p \in P |-> mid(p) + 1]
             m == [p \in P |-> IF p[1] > p[2] THEN 0 ELSE p[2] - p[1] + 1]
  <2> HIDE DEF mid
  <2>1. ASSUME NEW p \in P, ~(p[1] > p[2])
        PROVE  /\ mid(p) \in 1 .. Len(s)
               /\ <<p[1], mid(p) - 1>> \in P /\ <<mid(p) + 1, p[2]>> \in P
               /\ m[<<p[1], mid(p) - 1>>] < m[p] /\ m[<<mid(p) + 1, p[2]>>] < m[p]
    <3> DEFINE c == mid(p)
               u == <<p[1], c - 1>>
               v == <<c + 1, p[2]>>
    <3>1. p[1] \in 1 .. Len(s) /\ p[2] \in p[1] .. Len(s) /\ c \in p[1] .. p[2]
      BY <1>2, <2>1
    <3> HIDE DEF c
    <3>2. u \in P /\ v \in P /\ u[1] = p[1] /\ u[2] = c - 1 /\ v[1] = c + 1 /\ v[2] = p[2] /\ c \in 1 .. Len(s)
      BY <1>1, <3>1
    <3> HIDE DEF u, v
    <3>3. m[p] = p[2] - p[1] + 1
      BY <2>1
    <3>4. m[u] = IF p[1] > c - 1 THEN 0 ELSE (c - 1) - p[1] + 1
      BY <3>2
    <3>5. m[v] = IF c + 1 > p[2] THEN 0 ELSE p[2] - (c + 1) + 1
      BY <3>2
    <3> HIDE DEF m
    <3>6. m[u] < m[p] /\ m[v] < m[p]
      BY <1>1, <3>1, <3>3, <3>4, <3>5
    <3> QED BY <3>2, <3>6 DEF c, u, v
  <2>2. m \in [P -> Nat]
    BY <1>1
  <2>3. \A p \in P : (p \in E <=> p[1] > p[2]) /\ md[p] = mid(p) /\ lo[p] = mid(p) - 1 /\ hi[p] = mid(p) + 1
    OBVIOUS
  <2> HIDE DEF E, md, lo, hi, m, P, N
  <2>4. Splits(P, E, md, lo, hi, m, s)
    BY <2>1, <2>2, <2>3 DEF Splits
  <2>6. PICK g : Builds(P, E, md, lo, hi, s, g)
    BY <2>4, BuildingExists
  <2>7. ASSUME NEW p \in P
        PROVE  g[p] = IF p[1] > p[2] THEN N
                      ELSE Trees!TreeNode(s[mid(p)], g[<<p[1], mid(p) - 1>>], g[<<mid(p) + 1, p[2]>>])
    <3>1. g[p] = IF p \in E THEN N ELSE Trees!TreeNode(s[md[p]], g[<<p[1], lo[p]>>], g[<<hi[p], p[2]>>])
      BY <2>6 DEF Builds, N
    <3> QED BY <2>3, <3>1
  <2>8. g = [p \in P |-> g[p]]
    BY <2>6 DEF Builds
  <2>9. g = [p \in P |-> IF p[1] > p[2] THEN N
                         ELSE Trees!TreeNode(s[mid(p)], g[<<p[1], mid(p) - 1>>], g[<<mid(p) + 1, p[2]>>])]
    BY <2>7, <2>8
  <2>10. Is(g)
    BY <2>9 DEF mid
  <2> HIDE DEF Is
  <2> QED BY <2>10
<1>4. Is(built)
  <2> HIDE DEF Is
  <2> QED BY <1>3
<1>5. \A a, b : Trees!buildBalanced(s, a, b) = built[<<a, b>>]
  BY DEF Trees!buildBalanced
<1>6. \A p \in P : built[p] = IF p[1] > p[2] THEN N
                              ELSE Trees!TreeNode(s[mid(p)], built[<<p[1], mid(p) - 1>>], built[<<mid(p) + 1, p[2]>>])
  <2> HIDE DEF built, P
  <2> QED BY <1>4
<1> HIDE DEF built, Is
<1> DEFINE T == {n \in Nat : \A a \in 1 .. Len(s) + 1, b \in 0 .. Len(s) :
                     b - a + 1 = n => Holds(built[<<a, b>>], s, a, b)}
<1>7. ASSUME NEW n \in Nat, \A k \in 0 .. n - 1 : k \in T PROVE n \in T
  <2> SUFFICES ASSUME NEW a \in 1 .. Len(s) + 1, NEW b \in 0 .. Len(s), b - a + 1 = n
               PROVE  Holds(built[<<a, b>>], s, a, b)
    OBVIOUS
  <2> DEFINE p == <<a, b>>
  <2>1. p \in P /\ p[1] = a /\ p[2] = b
    OBVIOUS
  <2>2. CASE n = 0
    <3>1. b = a - 1 /\ a > b
      BY <1>1, <2>2
    <3>2. built[p] = N
      <4> HIDE DEF p, P, mid
      <4> QED BY <1>6, <2>1, <3>1
    <3> QED BY <3>1, <3>2, NothingHeld
  <2>3. CASE n # 0
    <3> DEFINE c == mid(p)
    <3>1. ~(a > b)
      BY <1>1, <2>3
    <3>2. /\ a \in 1 .. Len(s) /\ b \in a .. Len(s) /\ c \in a .. b
          /\ b - c = (b - a + 1) \div 2 /\ c - a <= b - c
      <4> HIDE DEF p, P, mid
      <4> QED BY <1>2, <2>1, <3>1
    <3>3. built[p] = Trees!TreeNode(s[c], built[<<a, c - 1>>], built[<<c + 1, b>>])
      <4> HIDE DEF p, P, mid
      <4> QED BY <1>6, <2>1, <3>1
    <3> HIDE DEF c
    <3>4. Holds(built[<<a, c - 1>>], s, a, c - 1)
      <4>1. c - 1 \in 0 .. Len(s) /\ (c - 1) - a + 1 \in 0 .. n - 1
        BY <1>1, <3>2
      <4>2. (c - 1) - a + 1 \in T
        BY <1>7, <4>1
      <4> QED BY <4>1, <4>2
    <3>5. Holds(built[<<c + 1, b>>], s, c + 1, b)
      <4>1. c + 1 \in 1 .. Len(s) + 1 /\ b - (c + 1) + 1 \in 0 .. n - 1
        BY <1>1, <3>2
      <4>2. b - (c + 1) + 1 \in T
        BY <1>7, <4>1
      <4> QED BY <4>1, <4>2
    <3> DEFINE l == built[<<a, c - 1>>]
               r == built[<<c + 1, b>>]
    <3>6. Holds(l, s, a, c - 1) /\ Holds(r, s, c + 1, b)
      BY <3>4, <3>5
    <3> HIDE DEF l, r, T
    <3>7. Holds(Trees!TreeNode(s[c], l, r), s, a, b)
      BY <3>2, <3>6, JoinedHolds
    <3> QED BY <3>3, <3>7 DEF l, r
  <2> QED BY <2>2, <2>3
<1>8. \A n \in Nat : n \in T
  <2> HIDE DEF T
  <2> QED BY <1>7, FromSmaller
<1>9. Len(s) \in T
  BY <1>1, <1>8
<1>10. 1 \in 1 .. Len(s) + 1 /\ Len(s) \in 0 .. Len(s) /\ Len(s) - 1 + 1 = Len(s)
  BY <1>1
<1> QED BY <1>5, <1>9, <1>10

\* 109.c.
LEMMA FromListIs ==
    ASSUME NEW s \in Seq(Trees!Ints), Trees!Lowest(Len(s)) <= Levels
    PROVE  Holds(Trees!sortedListToBST(s), s, 1, Len(s))
<1> DEFINE P == {p \in (1 .. Len(s) + 1) \X (1 .. Len(s) + 1) : p[1] <= p[2]}
           N == Trees!NULL
           mid(p) == Trees!Middle(p[1], p[2])
           Is(h) == h = [p \in P |->
                            IF p[1] = p[2] THEN N
                            ELSE LET c == Trees!Middle(p[1], p[2])
                                 IN  Trees!TreeNode(s[c], h[<<p[1], c>>], h[<<c + 1, p[2]>>])]
           built == CHOOSE h : Is(h)
<1>1. Len(s) \in Nat
  OBVIOUS
<1>2. ASSUME NEW p \in P, p[1] # p[2]
      PROVE  /\ p[1] \in 1 .. Len(s) /\ p[2] \in p[1] + 1 .. Len(s) + 1 /\ mid(p) \in p[1] .. p[2] - 1
             /\ mid(p) - p[1] = (p[2] - p[1]) \div 2 /\ p[2] - 1 - mid(p) <= mid(p) - p[1]
  <2>1. /\ p[1] \in 1 .. Len(s) /\ p[2] \in p[1] + 1 .. Len(s) + 1
        /\ p[1] \in Nat /\ p[2] \in Nat /\ p[1] <= p[2]
    BY <1>1, <1>2
  <2> DEFINE a == p[1]
             b == p[2]
             n == b - a
             k == n \div 2
  <2>2. mid(p) = a + k
    BY <2>1, MiddleIs
  <2>3. a \in Nat /\ b \in Nat /\ n \in Nat /\ b = a + n /\ n # 0
    BY <2>1
  <2> HIDE DEF a, b, n, mid
  <2>4. k \in Nat /\ (n = 2 * k \/ n = 2 * k + 1)
    BY <2>3, Halves
  <2> HIDE DEF k
  <2>5. mid(p) \in a .. b - 1 /\ mid(p) - a = k /\ b - 1 - mid(p) <= mid(p) - a
    BY <2>2, <2>3, <2>4
  <2> QED BY <2>1, <2>5 DEF a, b, n, k
<1> HIDE DEF mid
<1>3. \E g : Is(g)
  <2> DEFINE E == {p \in P : p[1] = p[2]}
             md == [p \in P |-> mid(p)]
             hi == [p \in P |-> mid(p) + 1]
             m == [p \in P |-> p[2] - p[1]]
  <2>1. ASSUME NEW p \in P, p[1] # p[2]
        PROVE  /\ mid(p) \in 1 .. Len(s)
               /\ <<p[1], mid(p)>> \in P /\ <<mid(p) + 1, p[2]>> \in P
               /\ m[<<p[1], mid(p)>>] < m[p] /\ m[<<mid(p) + 1, p[2]>>] < m[p]
    <3> DEFINE c == mid(p)
               u == <<p[1], c>>
               v == <<c + 1, p[2]>>
    <3>1. p[1] \in 1 .. Len(s) /\ p[2] \in p[1] + 1 .. Len(s) + 1 /\ c \in p[1] .. p[2] - 1
      BY <1>2, <2>1
    <3> HIDE DEF c
    <3>2. u \in P /\ v \in P /\ u[1] = p[1] /\ u[2] = c /\ v[1] = c + 1 /\ v[2] = p[2] /\ c \in 1 .. Len(s)
      BY <1>1, <3>1
    <3> HIDE DEF u, v
    <3>3. m[p] = p[2] - p[1]
      OBVIOUS
    <3>4. m[u] = c - p[1]
      BY <3>2
    <3>5. m[v] = p[2] - (c + 1)
      BY <3>2
    <3> HIDE DEF m
    <3>6. m[u] < m[p] /\ m[v] < m[p]
      BY <1>1, <3>1, <3>3, <3>4, <3>5
    <3> QED BY <3>2, <3>6 DEF c, u, v
  <2>2. m \in [P -> Nat]
    BY <1>1
  <2>3. \A p \in P : (p \in E <=> p[1] = p[2]) /\ md[p] = mid(p) /\ hi[p] = mid(p) + 1
    OBVIOUS
  <2> HIDE DEF E, md, hi, m, P, N
  <2>4. Splits(P, E, md, md, hi, m, s)
    BY <2>1, <2>2, <2>3 DEF Splits
  <2>6. PICK g : Builds(P, E, md, md, hi, s, g)
    BY <2>4, BuildingExists
  <2>7. ASSUME NEW p \in P
        PROVE  g[p] = IF p[1] = p[2] THEN N
                      ELSE Trees!TreeNode(s[mid(p)], g[<<p[1], mid(p)>>], g[<<mid(p) + 1, p[2]>>])
    <3>1. g[p] = IF p \in E THEN N ELSE Trees!TreeNode(s[md[p]], g[<<p[1], md[p]>>], g[<<hi[p], p[2]>>])
      BY <2>6 DEF Builds, N
    <3> QED BY <2>3, <3>1
  <2>8. g = [p \in P |-> g[p]]
    BY <2>6 DEF Builds
  <2>9. g = [p \in P |-> IF p[1] = p[2] THEN N
                         ELSE Trees!TreeNode(s[mid(p)], g[<<p[1], mid(p)>>], g[<<mid(p) + 1, p[2]>>])]
    BY <2>7, <2>8
  <2>10. Is(g)
    BY <2>9 DEF mid
  <2> HIDE DEF Is
  <2> QED BY <2>10
<1>4. Is(built)
  <2> HIDE DEF Is
  <2> QED BY <1>3
<1>5. Trees!sortedListToBST(s) = built[<<1, Len(s) + 1>>]
  BY DEF Trees!sortedListToBST, Trees!buildTree
<1>6. \A p \in P : built[p] = IF p[1] = p[2] THEN N
                              ELSE Trees!TreeNode(s[mid(p)], built[<<p[1], mid(p)>>], built[<<mid(p) + 1, p[2]>>])
  <2> HIDE DEF built, P
  <2> QED BY <1>4 DEF mid
<1> HIDE DEF built, Is
<1> DEFINE T == {n \in Nat : \A a, b \in 1 .. Len(s) + 1 :
                     b - a = n => Holds(built[<<a, b>>], s, a, b - 1)}
<1>7. ASSUME NEW n \in Nat, \A k \in 0 .. n - 1 : k \in T PROVE n \in T
  <2> SUFFICES ASSUME NEW a \in 1 .. Len(s) + 1, NEW b \in 1 .. Len(s) + 1, b - a = n
               PROVE  Holds(built[<<a, b>>], s, a, b - 1)
    OBVIOUS
  <2> DEFINE p == <<a, b>>
  <2>1. p \in P /\ p[1] = a /\ p[2] = b
    BY <1>1
  <2>2. CASE n = 0
    <3>1. b = a
      BY <1>1, <2>2
    <3>2. built[p] = N
      <4> HIDE DEF p, P
      <4> QED BY <1>6, <2>1, <3>1
    <3> QED BY <3>1, <3>2, NothingHeld
  <2>3. CASE n # 0
    <3> DEFINE c == mid(p)
    <3>1. a # b
      BY <1>1, <2>3
    <3>2. /\ a \in 1 .. Len(s) /\ b \in a + 1 .. Len(s) + 1 /\ c \in a .. b - 1
          /\ c - a = (b - a) \div 2 /\ b - 1 - c <= c - a
      <4> HIDE DEF p, P
      <4> QED BY <1>2, <2>1, <3>1
    <3>3. built[p] = Trees!TreeNode(s[c], built[<<a, c>>], built[<<c + 1, b>>])
      <4> HIDE DEF p, P
      <4> QED BY <1>6, <2>1, <3>1
    <3> HIDE DEF c
    <3>4. Holds(built[<<a, c>>], s, a, c - 1)
      <4>1. c \in 1 .. Len(s) + 1 /\ c - a \in 0 .. n - 1
        BY <1>1, <3>2
      <4>2. c - a \in T
        BY <1>7, <4>1
      <4> QED BY <4>1, <4>2
    <3>5. Holds(built[<<c + 1, b>>], s, c + 1, b - 1)
      <4>1. c + 1 \in 1 .. Len(s) + 1 /\ b - (c + 1) \in 0 .. n - 1
        BY <1>1, <3>2
      <4>2. b - (c + 1) \in T
        BY <1>7, <4>1
      <4> QED BY <4>1, <4>2
    <3> DEFINE l == built[<<a, c>>]
               r == built[<<c + 1, b>>]
               d == b - 1
    <3>6. Holds(l, s, a, c - 1) /\ Holds(r, s, c + 1, d)
      BY <3>4, <3>5
    <3>7. /\ d \in a .. Len(s) /\ c \in a .. d
          /\ c - a = (d - a + 1) \div 2 /\ d - c <= c - a
      <4>1. d - a + 1 = b - a /\ d - c = b - 1 - c
        BY <1>1, <3>2
      <4> QED BY <1>1, <3>2, <4>1
    <3> HIDE DEF l, r, d, T
    <3>8. Holds(Trees!TreeNode(s[c], l, r), s, a, d)
      BY <3>2, <3>6, <3>7, JoinedHolds
    <3> QED BY <3>3, <3>8 DEF l, r, d
  <2> QED BY <2>2, <2>3
<1>8. \A n \in Nat : n \in T
  <2> HIDE DEF T
  <2> QED BY <1>7, FromSmaller
<1>9. Len(s) \in T /\ 1 \in 1 .. Len(s) + 1 /\ Len(s) + 1 \in 1 .. Len(s) + 1
      /\ Len(s) + 1 - 1 = Len(s)
  BY <1>1, <1>8
<1> QED BY <1>5, <1>9

\* 1382.c, 109.c and 876.c.
LEMMA BuiltCorrect == \A t \in Trees!Tree : Trees!BuiltIsRight(t)
<1> SUFFICES ASSUME NEW t \in Trees!Tree PROVE Trees!BuiltIsRight(t)
  OBVIOUS
<1> DEFINE s == Trees!inorder(t)
<1>1. s \in Seq(Trees!Ints) /\ Trees!Lowest(Len(s)) <= Levels
  BY NodesFit
<1>2. Trees!balanceBST(t) = Trees!buildBalanced(s, 1, Len(s))
  BY DEF Trees!balanceBST
<1>3. Trees!BuiltIsRight(t) <=>
          /\ \A u \in {Trees!balanceBST(t), Trees!sortedListToBST(s)} :
                 Trees!inorder(u) = s /\ Trees!maxDepth(u) = Trees!Lowest(Len(s))
          /\ s # <<>> => Trees!middleNode(s) = Len(s) \div 2 + 1
  BY DEF Trees!BuiltIsRight
<1> HIDE DEF s
<1>4. Len(s) \in Nat /\ Len(s) - 1 + 1 = Len(s) /\ SubSeq(s, 1, Len(s)) = s
  <2>1. SubSeq(s, 1, Len(s)) = s
    BY <1>1, SubSeqFull
  <2>2. Len(s) \in Nat
    BY <1>1
  <2> QED BY <2>1, <2>2
<1>5. Holds(Trees!balanceBST(t), s, 1, Len(s)) /\ Holds(Trees!sortedListToBST(s), s, 1, Len(s))
  BY <1>1, <1>2, BalancedIs, FromListIs
<1>6. \A u : Holds(u, s, 1, Len(s)) => Trees!inorder(u) = s /\ Trees!maxDepth(u) = Trees!Lowest(Len(s))
  BY <1>4 DEF Holds
<1>7. Trees!middleNode(s) = Len(s) \div 2 + 1
  <2> DEFINE n == Len(s)
             b == n + 1
  <2>1. n \in Nat /\ 1 \in Nat /\ b \in Nat /\ 1 <= b
    BY <1>4
  <2>2. Trees!middleNode(s) = Trees!Middle(1, b)
    BY DEF Trees!middleNode
  <2>3. b - 1 = n
    BY <2>1
  <2> HIDE DEF n, b
  <2>4. Trees!Middle(1, b) = 1 + (b - 1) \div 2
    BY <2>1, MiddleIs
  <2>5. n \div 2 \in Nat
    BY <2>1, Halves
  <2> QED BY <2>2, <2>3, <2>4, <2>5 DEF n
<1> QED BY <1>3, <1>5, <1>6, <1>7
-----------------------------------------------------------------------------
\* src/450.c, 98.c, 700.c, 94.c, 104.c, 100.c, 109.c, 1382.c and 876.c agree with each
\* other on every tree of at most Levels levels, however many those are.
THEOREM TreesCorrect == InputSpec => []TreesAreRight
<1>1. InputInit => TreesAreRight
  <2> SUFFICES ASSUME InputInit, kind = "tree"
               PROVE  Trees!TraversalIsRight(input) /\ Trees!SearchIsRight(input) /\ Trees!BuiltIsRight(input)
    BY DEF TreesAreRight
  <2>1. input \in Trees!Tree
    BY DEF InputInit
  <2> QED BY <2>1, TraversalCorrect, SearchCorrect, BuiltCorrect
<1>2. TreesAreRight /\ [FALSE]_<<kind, input>> => TreesAreRight'
  BY DEF TreesAreRight
<1> QED BY <1>1, <1>2, PTL DEF InputSpec

=============================================================================
