----------------------------- MODULE MCCounting -----------------------------
(* The programs that count in parallel, for TLC: word count for every file of *)
(* the sizes given, as far as words go, and the two counter programs.  A      *)
(* behaviour is one of one program; the others stay as they begin.            *)
EXTENDS WordCount

CONSTANTS Turns,        \* how many times each worker counts
          WorkerCount

ASSUME CountingAssumption ==
    /\ Turns \in Nat
    /\ WorkerCount \in Nat
    /\ Nobody \notin 0 .. WorkerCount - 1

VARIABLES program,
          bWorker, bI, bPc, bTurn, bOld, bMutex, bMutexCounter, bAtomicCounter, bPrinted,
          sPc, sI, sChild, sLost, sJ, sCounter, sRemoved, sPrinted

Bench == INSTANCE CounterBenchmark
             WITH num_threads <- WorkerCount, iterations <- Turns, NoOwner <- Nobody,
                  worker <- bWorker, i <- bI, pc <- bPc, turn <- bTurn, old <- bOld,
                  mutex <- bMutex, mutex_counter <- bMutexCounter,
                  atomic_counter <- bAtomicCounter, printed <- bPrinted
Shared == INSTANCE SharedCounters
              WITH WORKERS <- WorkerCount, OPERATIONS <- Turns,
                   pc <- sPc, i <- sI, child <- sChild, lost <- sLost, j <- sJ,
                   counter <- sCounter, removed <- sRemoved, printed <- sPrinted

bVars == <<bWorker, bI, bPc, bTurn, bOld, bMutex, bMutexCounter, bAtomicCounter, bPrinted>>
sVars == <<sPc, sI, sChild, sLost, sJ, sCounter, sRemoved, sPrinted>>
allVars == <<program, vars, bVars, sVars>>

\* The programs other than word count begin with the empty file.
MCInit ==
    /\ program \in {"words", "bench", "shared"}
    /\ Init /\ Bench!Init /\ Shared!Init
    /\ program # "words" => filesize = 0

\* Who takes a step: main or the parent, and the threads or the children.
MainStep ==
    /\ \/ program = "words" /\ (Create \/ PrintTotal) /\ UNCHANGED <<bVars, sVars>>
       \/ program = "bench" /\ Bench!Main /\ UNCHANGED <<vars, sVars>>
       \/ program = "shared" /\ Shared!Parent /\ UNCHANGED <<vars, bVars>>
    /\ UNCHANGED program

WorkerStep(w) ==
    /\ \/ program = "words" /\ w < MAX_THREADS /\ Thread(w) /\ UNCHANGED <<bVars, sVars>>
       \/ program = "bench" /\ w < WorkerCount /\ Bench!Thread(w) /\ UNCHANGED <<vars, sVars>>
       \/ program = "shared" /\ w < WorkerCount /\ Shared!Child(w) /\ UNCHANGED <<vars, bVars>>
    /\ UNCHANGED program

AnyWorker == 0 .. (IF WorkerCount > MAX_THREADS THEN WorkerCount ELSE MAX_THREADS) - 1

AtEnd ==
    CASE program = "words" -> printed
      [] program = "bench" -> bWorker = "none"
      [] program = "shared" -> sPc \in {"done", "died"}

MCNext ==
    \/ MainStep
    \/ \E w \in AnyWorker : WorkerStep(w)
    \/ AtEnd /\ UNCHANGED allVars

\* Every thread and process that can run runs.  A thread may wait for the mutex for
\* as long as others take it, which each of them does Turns times at most.
MCSpec ==
    /\ MCInit /\ [][MCNext]_allVars
    /\ WF_allVars(MainStep)
    /\ \A w \in AnyWorker : WF_allVars(WorkerStep(w))

\* src/wordcount.c, src/Atomic_counter_Mutex_Counter.c and the two shared counter
\* programs print what they have counted, all of it and once.
TotalsRight == TotalIsRight /\ Bench!CountersExact /\ Shared!WorkersExact

\* Each program comes to its end: nobody waits for the mutex, or for a child, for
\* ever.
MCTerminates == <>AtEnd

=============================================================================
