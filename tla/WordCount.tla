----------------------------- MODULE WordCount -----------------------------
(***************************************************************************)
(* src/wordcount.c: main reads a file, cuts it into one chunk per thread,  *)
(* moves the cuts to the ends of words, and the threads add up what they   *)
(* count in their chunks.  Of a character only the answer of is_word_char  *)
(* matters.  The file fits the buffer and one read call fills it.          *)
(***************************************************************************)
EXTENDS Integers, FiniteSets

CONSTANTS MAX_THREADS,
          FileSizes,    \* the sizes of file to look at
          Nobody        \* the owner of the mutex when it is free

ASSUME WordCountAssumption ==
    /\ MAX_THREADS \in Nat \ {0}
    /\ FileSizes \subseteq Nat
    /\ Nobody \notin 0 .. MAX_THREADS - 1

Threads == 0 .. MAX_THREADS - 1

VARIABLES filesize,
          data,         \* data[p]: is_word_char of the character at p
          i,            \* main's loop counter; MAX_THREADS when all are created
          start, end,   \* start[t], end[t]: args[t]
          pc,           \* pc[t]: the control point of thread t
          count, total, \* count[t]: its local; total[t]: word_count as it read it
          word_count, mutex,
          printed       \* has main printed word_count?

file == <<filesize, data>>
args == <<start, end>>
vars == <<file, i, args, pc, count, total, word_count, mutex, printed>>

Init ==
    /\ filesize \in FileSizes
    /\ data \in [0 .. filesize - 1 -> BOOLEAN]
    /\ i = 0
    /\ start = [t \in Threads |-> 0]
    /\ end = [t \in Threads |-> 0]
    /\ pc = [t \in Threads |-> "new"]
    /\ count = [t \in Threads |-> 0]
    /\ total = [t \in Threads |-> 0]
    /\ word_count = 0
    /\ mutex = Nobody
    /\ printed = FALSE

-----------------------------------------------------------------------------
chunks == filesize \div MAX_THREADS

\* Both while loops of main: the first position from p on that is not inside a
\* word, or the end of the file.
IsWordEnd(p, q) ==
    /\ q \in p .. filesize
    /\ \A r \in p .. q - 1 : data[r]
    /\ q < filesize => ~data[q]
AfterWord(p) == CHOOSE q \in p .. filesize : IsWordEnd(p, q)

\* Mutant: at the start of a chunk the rest of a word is not skipped.
StartOfMutant(t) == t * chunks
StartOf(t) == IF t * chunks > 0 THEN AfterWord(t * chunks) ELSE 0

\* Mutant: the end of a chunk stays where the division puts it.
EndOfMutant(t) ==
    IF t = MAX_THREADS - 1 THEN filesize ELSE (t + 1) * chunks
EndOf(t) ==
    AfterWord(IF t = MAX_THREADS - 1 THEN filesize ELSE (t + 1) * chunks)

\* One turn of main's loop, with pthread_create.
Create ==
    /\ i < MAX_THREADS
    /\ start' = [start EXCEPT ![i] = StartOf(i)]
    /\ end' = [end EXCEPT ![i] = EndOf(i)]
    /\ pc' = [pc EXCEPT ![i] = "count"]
    /\ i' = i + 1
    /\ UNCHANGED <<file, count, total, word_count, mutex, printed>>

-----------------------------------------------------------------------------
\* The loop of count_words: it counts the positions at which in_word turns from
\* 0 to 1, and in_word is 0 at the start of the chunk.
WordStarts(first, last) ==
    {p \in first .. last - 1 : data[p] /\ (p > first => ~data[p - 1])}

CountWords(t) ==
    /\ pc[t] = "count"
    /\ count' = [count EXCEPT ![t] = Cardinality(WordStarts(start[t], end[t]))]
    /\ pc' = [pc EXCEPT ![t] = "lock"]
    /\ UNCHANGED <<file, i, args, total, word_count, mutex, printed>>

\* word_count += count reads the global and writes it back.
Lock(t) ==
    /\ pc[t] = "lock"
    /\ mutex = Nobody
    /\ mutex' = t
    /\ total' = [total EXCEPT ![t] = word_count]
    /\ pc' = [pc EXCEPT ![t] = "add"]
    /\ UNCHANGED <<file, i, args, count, word_count, printed>>

\* Mutant: the mutex stays locked.
AddMutant(t) ==
    /\ pc[t] = "add"
    /\ word_count' = total[t] + count[t]
    /\ pc' = [pc EXCEPT ![t] = "done"]
    /\ UNCHANGED <<file, i, args, count, total, mutex, printed>>
Add(t) ==
    /\ pc[t] = "add"
    /\ word_count' = total[t] + count[t]
    /\ mutex' = Nobody
    /\ pc' = [pc EXCEPT ![t] = "done"]
    /\ UNCHANGED <<file, i, args, count, total, printed>>

\* main has joined the threads.
Joined == \A t \in Threads : pc[t] = "done"

PrintTotal ==
    /\ i = MAX_THREADS /\ Joined /\ ~printed
    /\ printed' = TRUE
    /\ UNCHANGED <<file, i, args, pc, count, total, word_count, mutex>>

Ended == printed /\ UNCHANGED vars

Thread(t) == CountWords(t) \/ Lock(t) \/ Add(t)

Next == Create \/ PrintTotal \/ Ended \/ \E t \in Threads : Thread(t)

Spec == Init /\ [][Next]_vars

-----------------------------------------------------------------------------
ControlPoints == {"new", "count", "lock", "add", "done"}

TypeOK ==
    /\ filesize \in FileSizes
    /\ data \in [0 .. filesize - 1 -> BOOLEAN]
    /\ i \in 0 .. MAX_THREADS
    /\ start \in [Threads -> 0 .. filesize]
    /\ end \in [Threads -> 0 .. filesize]
    /\ pc \in [Threads -> ControlPoints]
    /\ count \in [Threads -> Nat]
    /\ total \in [Threads -> Nat]
    /\ word_count \in Nat
    /\ mutex \in Threads \cup {Nobody}
    /\ printed \in BOOLEAN

\* The chunks of the created threads lie one after the other from the beginning
\* of the file, and the last one reaches its end, although main computes the end
\* of a chunk and the start of the next in different turns of its loop.  Holds
\* from MAX_THREADS characters on: in a smaller file chunks is 0, every chunk
\* starts at 0, and each thread counts the first word.
ChunksCoverFile ==
    filesize >= MAX_THREADS =>
        /\ i > 0 => start[0] = 0
        /\ \A t \in 1 .. i - 1 : start[t] = end[t - 1]
        /\ i = MAX_THREADS => end[MAX_THREADS - 1] = filesize

\* Every word is counted by exactly one thread, and nothing else is counted,
\* however many nominal chunks a word spans: no thread takes the rest of a word
\* that began in the chunk before for a word of its own.
EveryWordOnce ==
    (i = MAX_THREADS /\ filesize >= MAX_THREADS) =>
        /\ \A p \in WordStarts(0, filesize) :
               \E t \in Threads :
                   /\ p \in WordStarts(start[t], end[t])
                   /\ \A u \in Threads \ {t} : p \notin WordStarts(start[u], end[u])
        /\ \A t \in Threads : WordStarts(start[t], end[t]) \subseteq WordStarts(0, filesize)

\* "Total words in file" (line 138): the printed sum is the number of words,
\* in every file but the ones that begin with a word and have fewer characters
\* than there are threads.
Words == Cardinality(WordStarts(0, filesize))
TotalIsRight ==
    (printed /\ (filesize >= MAX_THREADS \/ filesize = 0 \/ ~data[0])) => word_count = Words

=============================================================================
