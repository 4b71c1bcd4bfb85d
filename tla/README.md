# Formal models of the programs in src/

`src/` is a collection of independent C programs: a few concurrent or
fault-handling ones (a bounded queue, a transaction store, a write-ahead log, a
hash map, a word counter, an io_uring merger, counters shared by threads and
processes), a few stateful data structures, and many pure algorithms. There is no
shared library and no program calls another; everything that interacts does so
*inside* one program: threads through mutexes, condition variables and shared
memory, parents and children through `fork` and `wait`, runs of a program through
files, a process and the kernel through requests. So the project is a set of
components that do not call each other across programs, and within a component

- a **detailed module** has the program's variables and one action per
  operation, handler or system call,
- an **abstract module** says what the component promises, and the detailed one
  is shown to implement it with `INSTANCE ... WITH`,
- an **MC module** and `.cfg` files instantiate it for TLC; `MCStructures`,
  `MCCounting` and `MCTransfers` each hold several programs of one kind, a
  behaviour being one of one of them,
- a **Proofs module** proves its main properties for every value of its constants.

Check a run with `tlc -workers 2 -config mvcc.cfg MCMvcc.tla`, a proof with
`tlapm MvccProofs.tla`. The runs and the module of each are listed in
`PROJECT.json`, with the source lines of every definition, the hazards and, for
every property, a plausible bug (`...Mutant`) that it catches.

## 1. Inventory

| Component (source) | State | Operations | What is hard about it |
|---|---|---|---|
| Producer-consumer queue (`producer_consumer.c`) | ring `buffer`, `head`, `tail`, `count`; one mutex, `not_full`, `not_empty`; thread locals | `queue_push`, `queue_pop`, the producer and consumer loops, main's create / join / return | interleaving between the test of a condition and the use of the slot, lost and spurious wakeups, main ending the process under the consumers |
| MVCC transaction store (`transaction_mvcc.c`) | version lists, lock lists, `global_ts`, `transactions[]`, `wait_for` | `begin_tx`, `acquire_lock`, `mvcc_read`, `mvcc_write`, `commit_tx`, `abort_tx`, `detect_deadlock` | order of writes against order of commits, visibility of half a commit, conflicting locks, deadlock that goes unseen, reuse of ids |
| Write-ahead log (`Wal.c`) | `wal.log`, `db.txt`, what of them is on disk | `write-nosync`, `write-sync`, `crash-after-wal`, `recover`, `display` | death between two system calls, short writes, power loss, two runs at once, repeated recovery |
| Concurrent hash map (`COCURRENTHASHMAP.c`) | bucket lists, one mutex per bucket, heap nodes | `map_insert`, `map_get`, `map_remove`, `map_destroy` | interleaved search and insertion, nodes freed and handed out again while others walk, a path without its unlock |
| Parallel word count (`wordcount.c`) | the file's text, `args[]`, `word_count` and its mutex | main's chunking, `count_words`, create / join / print | words across chunk borders, files smaller than the number of threads, lost updates |
| LRU cache (`146.c`) | doubly linked list, hash chains, `size` | `lRUCacheCreate`, `Get`, `Put`, `Free` | two structures that must stay in step over long sequences of calls |
| Median finder (`295.c`) | red-black tree with subtree sizes | `medianFinderCreate`, `AddNum`, `FindMedian`, `Free` | sizes changed on the way down and again by rotations |
| Third maximum (`414.c`) | the same kind of tree | `thirdMax` (`insertValue`, `fixInsert`, `findKthLargest`) | the fixup looks at the wrong uncle and the answer must be right all the same |
| File merge (`largefilemerge.c`) | buffers, submission and completion queue, output file | three loops: open and read, collect and write, clean up | completions in any order, failing requests, buffers freed under way |
| Per-worker shared counters (`Shared_counter.c`, `Shared_Counter.c`) | one atomic counter per worker in shared memory, the children | fork, attach, increment, exit; wait, print, remove the segment | a fork that fails midway, a child that cannot attach, `wait` that answers for any child |
| Counter benchmark (`Atomic_counter_Mutex_Counter.c`) | a counter under a mutex, an atomic one | create, lock, add, unlock, fetch-and-add, join, print | lost updates, a total read before the join |
| Skip list (`1206.c`) | levels of linked lists | `skiplistCreate`, `Search`, `Add`, `Erase`, `Free` | equal numbers of unequal heights |
| Memory allocator (`2502.c`) | owner ids in cells | `allocatorCreate`, `Allocate`, `FreeMemory`, `Free` | block borders that are nowhere stored |
| Sliding window (`239.c`) | a queue of positions | the turns of `maxSlidingWindow` | one position dropped per turn |
| Asynchronous I/O benchmark (`Asyn_IO.c`) | one control block, a file | submit, spin, collect; both loops | one control block for all requests, short and failed requests |
| Direct and buffered I/O benchmark (`io-direct-vs-buffered.c`) | a file written and read twice | `bench_write`, `bench_read`, `fatal` | short transfers that end a benchmark and not the program |
| File copy (`low_level_sys_call.c`) | two files, a buffer | read, write, lseek, overwrite | any call fails or moves less than asked for; a file copied onto itself |
| Counting algorithms (`1649.c`, `315.c`, `327.c`) | none between calls | a Fenwick tree, a counting search tree, a merge sort | boundaries of ranges and halves |
| Tree algorithms (`450.c`, `98.c`, `700.c`, `94.c`, `104.c`, `100.c`, `109.c`, `1382.c`, `876.c`) | none between calls | delete, validate, search, traverse, measure, compare, build | deletion with two children, halves of odd length |
| Array and string algorithms (`1.c`, `217.c`, `20.c`, `387.c`, `1143.c`, `49.c`) | none between calls | one function each | early exits, overflow, hash collisions |
| Memory-mapped search, URL shortener (`Memory_Mapped_File.c`, `535.c`) | a mapping; an array | search; encode, decode | not modelled, see section 5 |

What makes each component correct: the queue is a bounded FIFO channel, no
wakeup is lost, main's return loses little; the store gives snapshot reads and
atomic commits, locks exclude, a deadlock is seen; what the log reports as
written is recovered; the map is linearizable and never touches freed memory;
each word is counted once; the cache gives up the least recently used key; the
trees keep the order and sizes their queries rely on; the merger writes what it
has read and comes to an end; no increment is lost and none is printed too early;
the skip list is a bag of numbers and the allocator hands out the leftmost free
block; a benchmark's result stands for blocks that were moved, a copy's success
for a whole copy; and each algorithm agrees with the definition of what it computes.

## 2. Modules, and how they correspond to the code

### Queue: `BoundedFifo`, `ProducerConsumer`, `ProducerConsumerProofs`
Threads pass through control points (`lock`, `test`, `wait`, `relock`, `body`,
`unlock`, `print`) that part every `pthread_*` call from the code between two of
them; the test of the loop condition and the use of the slot are separate steps.
A signal wakes any one of the threads that wait on its condition variable, and
is without effect when there are none; spurious wakeups are a constant. Main spawns all threads, joins the producers
only and returns, which ends the process. Failures of `pthread_create` are left
out (the code ignores its result).

### MVCC store: `SnapshotStore`, `WaitForGraph`, `Mvcc`, `MCMvcc`, `MvccProofs`
In main every call runs with one global mutex held, so a call is one step, and
the clients' calls interleave in any order that follows main's protocol (begin
before use, a WRITE lock before a write). Versions are sequences, newest first;
`Unlink`, the loop of an abort, gives the m-th version that stays the m-th place.
`WaitForGraph` is `detect_deadlock`'s depth-first search over the `MAX_TX` slots, with
its arrays `visited` and `stack`; the recursion is a function of the node, the place in
its loop and the state of the arrays. `SnapshotStore` is the promise: a snapshot at begin, own
writes visible at once, all writes installed in one step at commit.

### Write-ahead log: `Wal`, `MCWal`, `WalProofs`
A process of the model is one run of the program; `append_file` is three steps
(write text, write newline, fsync), so a run can die between any two of them.
Files are sequences of texts and newlines, told apart as far as `recover` tells
them apart; a write that is cut off leaves any beginning of what it was given, which
for a glued line may be whole texts and a piece of the next (`Beginnings`). After a power loss, all
that was synced and some prefix of the rest are left. `crash-after-wal` differs
from `write-sync` in its exit code only. `display` changes nothing. Which reports have
been made, and which of them before the last power loss, are history variables.

### Hash map: `AtomicMap`, `ConcurrentHashMap`, `MCConcurrentHashMap`, `ConcurrentHashMapProofs`
Every turn of a list walk, the publication of a node, the unlinking, the free and
the unlock are steps. `malloc` returns any address that is not in use, freed ones
included. The workload is any calls by any thread, wider than `worker` and
`main` of the program. `AtomicMap` has a call, an effect and a return step per
operation, so implementing it is linearizability.

### Word count: `WordCount`
A file is a function from positions to `is_word_char`. `Create` is one turn of
main's loop with both skips at its ends; `count_words` reads and adds to
`word_count` in separate steps under the mutex. One `read` call fills the buffer.

### Counters: `SharedCounters`, `CounterBenchmark`, `MCCounting`, `CountingProofs`
`SharedCounters` has a parent that forks, waits for as many children as it
forked, prints and removes the segment, and children that attach (or fail to),
count and exit; after a failed `fork` the parent ends and the children go on as
orphans. The two source files are one program with different names.
`CounterBenchmark` runs the threads of both workers, `mutex_counter++` being a read
and a write. `MCCounting` puts both beside the word count, and
`CountingProofs` holds the proofs about all three, and about the functions of
`CountingAlgorithms` and `TreeAlgorithms`.

### Sequential structures: `LRUCache` / `LruStore`, `LinkedTree`, `MedianFinder` / `MedianStore`, `ThirdMax`, `Structures`, `StructuresProofs`, `TreeProofs`
One action per function of the interface of the cache, whose helpers are
operators of the same name from a cache to a cache. `LinkedTree` holds what the
two red-black trees share; what the code writes twice, mirrored, is written once
with a side as the argument. The turns of the loops of an insertion are steps, so
that properties speak of the states between them. `ThirdMax` follows the source
where it takes the parent itself for the uncle (`414.c:109`); `TreeSound` states
that on the right-hand side the rotations of lines 117 to 127 are not reached.
`Structures` puts them and the next ones side by side, one per behaviour, and
`StructuresProofs` proves about them and `ArrayAlgorithms`, `TreeProofs` about the two trees; `MCStructures` adds the functions and runs all. Its `VIEW` forgets
the numbers of tree nodes, which say only in which order they were allocated.

### Skip list and allocator: `SkipList` / `NumberBag`, `Allocator` / `BlockStore`
A node of the skip list is on any number of levels, where the code asks `rand`.
`NumberBag` is the promise, a count per number. The allocator's cells hold owner
ids and nothing else; a history variable remembers the blocks, `BlockStore` says
that they are leftmost fits and freed by owner.

### Sliding window and the functions: `SlidingWindow`, `ArrayAlgorithms`, `FunctionInputs`, `CountingAlgorithms`, `TreeAlgorithms`
The window's loop is modelled turn by turn. The other functions are operators of
the same name and recursion, each stated against a reference definition (`...IsRight`)
that counts, sorts or compares the plain way. Trees are records within records, since
the functions get trees nothing else points into; arrays are sequences. `217.c`'s
comparison and `49.c`'s hash value are modelled at any int width. `FunctionInputs` is the
specification whose behaviours are any array, text, list of words, array of instructions or tree. The
loops of `ArrayAlgorithms` are functions of the number of turns; those of
`CountingAlgorithms` and its recursions are functions of what they go down by: the
place in the Fenwick tree, the number of levels of the search tree, the ends of the
half to be sorted. Those of `TreeAlgorithms` are functions on `Tree`, the trees of at
most `Levels` levels, and on stretches of a list; `LONG_MAX` is a parameter there, above
every value, as `long` is wider than `int`. No module has RECURSIVE operators.

### Files and the kernel: `FileMerge`, `AsyncIo`, `DirectIo`, `FileCopy`, `MCTransfers`, `TransfersProofs`
`FileMerge` is main's three loops, turn by turn, against a kernel that takes any
submitted request and completes it with data, with an empty result or with an error.
The submission of a write and the release of the completion it answers (lines 71 and 73) are steps of their own.
`io_uring_queue_exit` cancels or lets finish what is under way. A buffer holds
nothing, its initial content, file data, or has been freed. Two appends at offset
-1 are taken not to overlap, which the kernel does not promise.

`AsyncIo` has one control block; the kernel looks at it whenever it carries the
request out, which may fail, be refused or move a part of the block. A block of which a part
was written has a hole behind it once a later one is in the file, and is then read in full, with zeros in it. `DirectIo` is
the four benchmarks on one file, with `O_TRUNC` and `fatal`. `FileCopy` reads and
writes any positive number of bytes up to what was asked for, tells bytes apart by
their positions, and may have one file under both names. `MCTransfers` runs the
four, and `TransfersProofs` proves about all of them.

## 3. Runs

| Run | Instance | Properties | States |
|---|---|---|---|
| `queue` | 2 producers of 3 items, 2 consumers, 2 slots, spurious wakeups, fairness | `RingConsistent` `NoLostWakeup` `LossBounded` `ImplementsFifo` `MainReturns` | 146,393 |
| `mvcc` | 3 transactions, 2 keys, 1 value, 7 timestamps, 2 versions a key | `LockExclusion` `NewestFirst` `StallIsReported` `DetectsCycles` | 2,386,924 |
| `mvcc_snapshot` | 3 transactions, 2 keys, 2 values, 7 timestamps, 2 versions a key; WRITE locks only | `ReadsSnapshot` `ImplementsSnapshotStore` | 116,443 |
| `mvcc_reuse` | 2 slots used again | `AbortKeepsCommitted`, **violated** | |
| `wal_crash` | 3 runs one after the other; kills, short writes, power loss | `TypeOK` `AckedReplayed` `DbUpdated` | 324,424 |
| `wal_overlap` | 2 runs at once, no faults | `ReportedIsApplied`, **violated** | |
| `hashmap` | 3 threads, 3 keys on 2 buckets, 3 nodes, 2 calls each | `LocksBucket` `NoUseAfterFree` `ListsWellFormed` `ImplementsAtomicMap` | 398,708 |
| `counting` | word count: 3 threads, every file up to 9 characters; counters: 3 workers, 3 increments each; fairness | `ChunksCoverFile` `EveryWordOnce` `TotalsRight` `MCTerminates` | 114,734 |
| `structures` | cache: 5 keys, capacity 3, 2 chains; trees: 8 nodes; skip list: 4 nodes, 3 levels; allocator: 6 cells; windows and inputs of functions: up to 5 or 6 elements, ints up to 3, 3 buckets of words, instructions up to 5 with a cost modulo 3 | `StructuresAgree` `ImplementsLru`; `RedBlack` `ImplementsMedianStore`; `TreeSound` `ThirdMaxIsRight`; `LevelsNested` `ImplementsBag`; `ImplementsBlocks`; `WindowsAreMaxima` `CountsAreRight` `AnswersAreRight` `TreesAreRight` | 66,921 |
| `transfers` | merge: 3 files; benchmarks: 4 blocks; copy: up to 9 bytes, buffer of 3; calls fail or come back short; fairness | `OneOperationPerBuffer` `WritesWhatWasRead`; `BlocksMoved`; `CopyFaithful`; `MCReturns` | 62,702 |
| `merge_lost` | 2 files, nothing fails | `EveryFileMerged`, **violated** | |
| `anagrams` | as `structures`, with 1007 buckets of words | `GroupedBySortedKey`, **violated** | |

**Bounds, and why they are enough.**
*Queue*: six items through two slots wrap the ring three times; with two
threads of each kind, several sleep at once and a
signal can reach a thread whose condition another one has made false again.
*MVCC*: three transactions are the fewest with a cycle of waits through a third
one, and with one that began between a write and the commit of two others; seven
timestamps allow all three to begin and commit (a commit is never refused). With one value an
older version of a key cannot be told from the newest, so what is read is checked with two, and a
reader beside two writers that commit one after the other. To make room, `DataSpec` asks for
WRITE locks only and leaves the edges of refused requests out: reads, writes, commits and
aborts look at neither. `MaxTs` and `MaxVersions` bound
the behaviours, in the guards of `Begin` and `Write`. *WAL*: an unfinished
run, a finished one and a recovery. *Hash map*: two keys in one bucket and one
alone, as many nodes as keys, so that addresses are reused; `MaxCalls` is a bound
on each thread's calls. *Counting*: chunks of no, one, two and three characters, a
remainder, and words that span several nominal chunks; three increments by three
workers, so that one can fall between two of another. *Structures*: a full cache with
two keys to spare and chains of several nodes; the eighth insertion into a red-black
tree is the first that can recolour at the bottom and rotate above; equal numbers of
unequal heights in the skip list; gaps too small between the blocks of two owners;
every array of up to five and every text of up to six elements, a Fenwick tree with
places of one, two and four values, every tree of up to four
nodes and of up to four levels. `MaxNodes`, `MaxSize`, `MaxInput` and `Levels` are these bounds. *Transfers*: `MAX_FILES`
as in the code; a copy in up to nine pieces, with the overwritten position before,
at and behind its end.

**Symmetry** is used where the code does not look at the identity: threads, keys
and values as model values. Transaction ids are not symmetric (lock holders are
looked up in their order), nor keys of the cache (`key % map_size`). No run with a
liveness property uses symmetry.

**Deadlock** is checked in the queue, hash map and counting runs, whose
specifications have an explicit final stutter; it is off where the system stops
for good: the bounded MVCC runs, the log (all runs done), the structures (freed,
full, or nothing but an input) and the transfers (main has returned).

**Fairness.** Weak fairness of each thread in `queue`, and of main and each
worker in `counting`: the scheduler runs every thread and process that can go on.
Nothing stronger is assumed about who gets a mutex; it is not needed since each
thread's work is finite. Nothing bounds spurious wakeups, and a thread that is woken for ever makes no
progress, so `MainReturns` says that main returns unless they never end (`WokenForEver`). In `transfers`: main is
scheduled, and the kernel serves some request as long as there is one.

### What the runs show to be wrong

- **`mvcc_reuse`** - `abort_tx` removes every version that carries the aborted
  id (`transaction_mvcc.c:186`). Its comment says "Abort: remove uncommitted
  versions". If a slot of `transactions[]` is begun a second time, as any use
  with more than `MAX_TX` transactions has to, aborting the second transaction
  deletes what the first one committed. `main` uses each id once, and the other
  MVCC runs keep to that.
- **`wal_overlap`** - `recover` keeps one `in_tx` flag for all transactions
  (`Wal.c:59`). With two writers at once, one's COMMIT line may come between the BEGIN
  and the SET line of the other, and the SET line is skipped although its transaction was
  reported as "written to WAL". The trace is of two `write-nosync` runs and nothing fails; `write-sync` writes the
  same lines. `ReportedIsApplied` leaves out logs in which two texts are glued on one line,
  the other way in which overlapping runs lose a transaction: text and newline are two
  write calls (`Wal.c:18`).
- **`merge_lost`** - the collecting loop (`largefilemerge.c:63`) waits for
  `MAX_FILES` completions and takes each for that of a read. A write that
  completes before the last read uses up a turn: its file is written again and
  the other one is left out, although main prints "Merged into merged_output.txt
  in completion order."
- **`anagrams`** - `groupAnagrams` returns every bucket as one group and looks at no key in
  it (`49.c:79`), where the comment says "grouping by sorted key" (`49.c:22`). "saw" and
  "fig" are returned together: "asw" and "fgi" hash to the same of the 1007 buckets.

### Facts the properties are stated around

- `recover` applies a SET line without waiting for its COMMIT line (`Wal.c:61`);
  nothing in the repository promises otherwise, so it is modelled and not refuted.
- `AckedReplayed` excludes logs with a piece of a line in them: a BEGIN appended
  to such a piece is not recognised.
- `DbUpdated` excludes an earlier recovery that was stopped: its last line may
  lack the newline. Recovery appends, so repeating it repeats the lines.
- With fewer characters than threads, `chunks` is 0 and every thread of
  `wordcount.c` counts the file's first word; `ChunksCoverFile`, `EveryWordOnce`
  and `TotalIsRight` say which files they are about.
- When `fork` fails, the parent of the shared counters exits; the children count on,
  and the segment stays. No line promises otherwise.
- `Asyn_IO.c` looks at `aio_return` for an error only: a short request counts as a whole
  one in the printed speed. `BlocksInPlace` says which blocks are then
  whole, which are short, and which were read with zeros in them; that a write was short shows in a read
  of the last block only.
- `low_level_sys_call.c` returns 0 after a failed overwrite, and after copying a file
  onto itself, which empties it. `CopyFaithful` says what status 0 does stand for.
- `1.c` leaves the inner loop only, so the last `i` with a partner wins, and without
  any pair the result is what malloc left; `217.c` is checked where no difference
  overflows, and never finds a duplicate that is not there; `49.c` groups by bucket, so
  its groups are exact where no two keys hash alike, which is what `AnagramsTogether` says.
- The tree of `414.c` is not balanced: ascending numbers make a list. Its answer
  does not depend on the colours, as `ThirdMaxIsRight` shows.
- `a + b` in `295.c:155` is taken not to overflow.
- A file larger than `BUF_SIZE` is merged up to its first `BUF_SIZE` bytes only.
- Edges of `wait_for` are never cleared, so a cycle stays after its victim has
  aborted. `StallIsReported` is therefore one-directional.

## 4. Proofs

Assumptions are the named `ASSUME` of each module (positive sizes, a null value
outside the data), which TLC evaluates in the runs. A module that holds several programs
states theirs together (`CountingAssumption`, `TransfersAssumption`, `StructuresAssumption`).
Sets of threads, transactions, keys and nodes may be infinite unless the theorem says otherwise:
theorems that count waiting or lost things assume finitely many threads, and those about
the cache finitely many addresses, since `Walk` goes at most as far as there are. Two hypotheses
are about how a program is used. The theorems about version lists assume that ids are used
once (`~ReuseIds`), as in main; `mvcc_reuse` shows them to be false otherwise. Those about
what the log reports assume that its runs follow one another
(`~Concurrent`), as they do for one user at a command line; the trace of `wal_overlap` shows that they
need it. Transactions are slots below `MAX_TX`, so they are finitely many; the median's theorem
assumes finitely many different numbers, as there are ints, since it adds up how often each is there.

| Theorem | Module | States |
|---|---|---|
| `TypeCorrect`, `RingCorrect`, `NoWakeupLost`, `LossIsBounded` | `ProducerConsumerProofs` | `[]TypeOK`, `[]RingConsistent`, `[]NoLostWakeup`, `[]LossBounded` |
| `QueueIsFifo` | `ProducerConsumerProofs` | the refinement `ImplementsFifo` |
| `LocksExclude`, `StallReported` | `MvccProofs` | `[]LockExclusion`, `[]StallIsReported` |
| `TypeCorrect`, `NewestAreFirst`, `ReadsAreOfSnapshot` | `MvccProofs` | `[]TypeOK`, `[]NewestFirst`, `[]ReadsSnapshot` |
| `StoreIsSnapshotStore` | `MvccProofs` | the refinement `ImplementsSnapshotStore` |
| `TypeCorrect`, `ReportsHonoured`, `DbComplete` | `WalProofs` | `[]TypeOK`, `[]AckedReplayed`, the action property `DbUpdated` |
| `TypeCorrect`, `BucketsLocked` | `ConcurrentHashMapProofs` | `[]TypeOK`, `[]LocksBucket` |
| `NoNodeUsedAfterFree`, `ListsStayWellFormed` | `ConcurrentHashMapProofs` | `[]NoUseAfterFree`, `[]ListsWellFormed` |
| `MapIsAtomic` | `ConcurrentHashMapProofs` | the refinement `ImplementsAtomicMap` |
| `ChunksCover`, `WordsOnce`, `TotalCorrect`, `TypeCorrect` | `CountingProofs` | `[]ChunksCoverFile`, `[]EveryWordOnce`, `[]TotalIsRight`, `[]TypeOK` |
| `WorkersCorrect`, `CountersCorrect`, `AllTotalsRight` | `CountingProofs` | `[]WorkersExact`, `[]CountersExact`, `[]TotalsRight` |
| `BuffersUsedOnce`, `WritesAreOfReads`, `TypeCorrect` | `TransfersProofs` | `[]OneOperationPerBuffer`, `[]WritesWhatWasRead`, `[]TypeOK` |
| `BlocksAreMoved`, `CopyIsFaithful` | `TransfersProofs` | `[]BlocksMoved`, `[]CopyFaithful` |
| `CountsCorrect` | `CountingProofs` | `[]CountsAreRight`: `1649.c`, `315.c`, `327.c` |
| `TreesCorrect` | `CountingProofs` | `[]TreesAreRight`: `450.c`, `98.c`, `700.c`, `94.c`, `104.c`, `100.c`, `109.c`, `1382.c`, `876.c` |
| `DeadlocksDetected` | `MvccProofs` | `[]DetectsCycles` |
| `StructuresStayInStep`, `CacheIsLru` | `StructuresProofs` | `[]StructuresAgree`, the refinement `ImplementsLru` |
| `WindowsCorrect` | `StructuresProofs` | `[]WindowsAreMaxima` |
| `AllocatorKeepsBlocks` | `StructuresProofs` | the refinement `ImplementsBlocks` |
| `LevelsStayNested`, `SkipListIsBag` | `StructuresProofs` | `[]LevelsNested`, the refinement `ImplementsBag` |
| `AnswersCorrect` | `StructuresProofs` | `[]AnswersAreRight`: `1.c`, `217.c`, `20.c`, `387.c`, `1143.c`, `49.c` |
| `TreeStaysRedBlack` | `TreeProofs` | `[]RedBlack` |
| `MedianIsOfAllAdded` | `TreeProofs` | the refinement `ImplementsMedianStore` |
| `ThirdTreeIsSound`, `ThirdMaxCorrect` | `TreeProofs` | `[]TreeSound`, `[]ThirdMaxIsRight` |

- **Queue.** `RingConsistent` is not inductive: a thread past its loop finds its
  condition still true only because nobody else is inside the mutex. The invariant
  adds that the owner is the only thread inside (`LockInv`), that a producer inside its loop has
  an item left (`LoopInv`), that a consumer past its pop holds an item
  (`HeldInv`), and that the slots from head to tail are filled (`FilledInv`). The
  step lemmas rest on a lemma about `%` within two rounds of the ring.
  `NoLostWakeup` is inductive beside it: a put takes a free slot and one producer off
  the way together, and its signal puts a sleeping consumer on the way for the item it
  adds; the counts change by one, by the library's facts about cardinality. The
  refinement follows the contents of the ring: a put appends to `QueueContents` and a
  take drops its head. For `LossBounded` every item is still to be produced, in the
  ring, in the hands of one consumer or printed, and main has joined every producer.
- **MVCC.** The invariant is the type of the lock table, lock exclusion, and
  *waits for active*: a waiting transaction has an edge to an active transaction.
  A stall is then a set of nodes each with a successor in the set, which is what
  `HasCycle` says, the transactions being finitely many. The holder that `acquire_lock` records is the
  first in the order of ids; that there is a first is well-foundedness of the naturals.
- **Deadlock search.** `SearchFindsCycles` is about any finite graph. The stack is a
  path: every node on it but the last has an edge to another one on it. So an edge from the last one into the
  stack makes the stack a set in which one can go on for ever, which is the cycle that
  1 stands for. A node that is visited and off the stack has edges to such nodes
  only, and none of them is on a cycle; when the search ends with 0 these are all nodes. That the
  recursion returns at all, and that what it returns keeps this, is one induction on what is left of
  the search: first the nodes that are not visited, then the turns of the loop.
- **Version lists.** The invariant is that a committed version is of a transaction
  that is over and in the past of the clock (`VersionInv`), a tentative one of an
  active transaction that holds the WRITE lock of the key, and that lists are newest
  first. Hence all tentative versions of a list are of one transaction and at its head,
  a commit stamps them with the newest timestamp where they are, and what a
  read finds first is the newest it may see. `Unlink` is shown to give a subsequence:
  its places are as many as the versions that stay, and a map into as many places that
  loses no version hits them all. The refinement compares, per key, the first
  visible position before and after a step. A second use of an id would restamp
  or unlink old versions, which is where the proof needs `~ReuseIds`.
- **Write-ahead log.** Three parts. The types say in particular that what `recover` has to
  append are lines without a newline in them and not empty. For the reports, the invariant
  (`LogInv`) is that one run at most is under way, that a log in which one writes ends with
  the run's own script as far as it has come, that a SET line always has a BEGIN line
  before it, and that the SET lines of the promised reports stand at increasing places,
  the fsynced ones within what is synced. A lemma about `Reading` and `Scanning` then
  says what such a log replays: after a BEGIN line the scan is inside a transaction,
  so each SET line is handed on, in order, whatever came before; a longer log replays at least
  as much, and a power loss keeps the places that were synced. For `DbUpdated`, db.txt read
  line by line ends with the lines recovered so far, with or without the last
  newline, depending on where the run is in `append_file` (`DbInv`), as long as no
  recovery has been broken off. That a recursive function is defined at all is
  proved once (`LoopExists`), by induction on its bound.
- **Hash map.** The first invariant adds to the types that a thread under way has a request, that a
  thread about to publish or free has a node, and the mutex discipline itself. The
  second (`HeapInv`) says that each list ends, holds nodes of its bucket only and no key
  twice; that a node is on one list or in the hands of one thread; that these are all the
  allocated ones; and where a walking thread is in the list of its bucket and
  which keys it has passed. A list is the least set that contains its head and is
  closed under `next`, so what a publication or an unlinking does to it is a fact
  about least sets, proved for any pointers, and the other lists are untouched because they
  share no node with this one. The refinement follows from where the
  walker stands: a search that comes to the end has passed every key of the bucket, and
  the mutex holds until the step that takes effect.
- **Word count.** The invariant says that each created thread has the chunk that the
  operators `StartOf` and `EndOf` compute from the file. A lemma says that a skip ends at the next
  position without a word character; from it, the end of a chunk is the start of
  the next and no chunk begins inside a word, so a start of a word is counted in
  the one chunk it lies in. For the total, `word_count` is the cardinality of the union
  of the chunks of the finished threads; what a thread adds is disjoint from it, and in
  the end the union is all words. Files with fewer characters than threads are a
  case of their own, in which the last thread has everything.
- **Shared counters.** The parent has reaped as many children as it has waited, and
  the set of them has that cardinality, so after `WORKERS` waits it is all of them, although no
  single `wait` says whose end it was.
- **Counter benchmark.** A counter is the number of pairs of a thread and a turn
  that are behind it, the turn of a thread that has added and not unlocked among them. The
  thread between its lock and its unlock holds the mutex, so what it has read is
  still the counter when it writes.
- **File merge.** A file is in one request or in one completion at most, so a
  buffer is in one operation. While main has seen reads only, a file in the output is
  in no request any more and in no completion but that of its write; a second write of it
  would need the completion of a read, and there is none left. A lemma says
  what `RemoveAt` leaves of a sequence, position by position.
- **Benchmarks and copy.** Asynchronous: the one control block belongs to the turn that main is
  in, so a request that is collected is the one that turn has submitted, and the whole ones are
  in their places. A full read brings a whole block, or one with a hole if that is what the file has at
  its place; behind the last block there is nothing, so that one is read short if it was written short. Direct and buffered: a writer's
  file has the blocks it has come past; after both writers it is whole exactly if the second
  one has printed its line. Copy: until the overwrite, the destination is the beginning of
  the source up to what has been read, short of the buffer that is about to be written.
- **LRU cache.** The invariant says that there are sequences without repetitions, one for the list
  and one for each chain, such that the pointers run along them (`Linked`, `Tabled`), that
  the list has `size` nodes and all that are allocated, and that their keys differ. Every
  helper is a fact about these sequences: `removeNode` and `removeFromMap` drop an element,
  `addToHead` and `putNode` push one, and each leaves the other structure alone. Eviction is
  the place where the two have to agree: the tail of the list is found again on a chain by its
  key, and it is the same node since keys differ. A lemma says that `Walk`, on pointers that run along
  a sequence, returns it (it is short enough since it does not repeat a node), so the
  theorems follow: what the list holds is what `LruStore` keeps.
- **Allocator.** A cell in use has the id of the block it is in (`AllocInv`). `Count` is the distance
  to the last cell in use, by induction along the loop, so the loop returns at the end of a free
  place, and not behind the end of the first one: a place further left would have a cell where the
  count is the size asked for.
- **Skip list.** The invariant (`Skipping`, `HighestIs`) is that there is a sequence of nodes without
  repetitions, sorted by their numbers, such that a pointer of list `i` leads from a place to the
  next one whose node is that high. The numbers below `v` are at the places up to some `P`, so
  the descent for `v` leaves list `i` at the last place up to `P` that is on it; that the two
  recursive functions of the descent have this value follows by induction from the end of the
  list and from the top list down. An add puts a place behind `P` and an erase takes one out; what
  is shown then, pointer by pointer, is that each still leads to the next place on its list. The
  erase stops at the first list that does not lead to the node from the turn: since heights are initial
  segments, those below it are exactly the lists of the node.
- **Sliding window.** The queue holds, in order, exactly the positions of the window
  that no later one dominates, and at most one of them is too old when a turn begins.
- **Red-black trees.** The invariant gives every node the set of nodes `below` it, a function
  that a rotation, a hanging and a recolouring change at the nodes they touch. In its terms
  children are disjoint parts of what is below their parent, values on the left are not
  larger and those on the right not smaller, a size is the cardinality of what is below, and
  a black depth is the same on both sides. What each of `Rotate`, `Hang` and a change of
  colours leaves of all this is a lemma about `LinkedTree`, proved once for both
  sides and cited by both trees. While an insertion searches, the sizes on its way
  already count the node that is not there yet; while the fixup climbs, the one red node
  with a red parent is `z`, and the cases of `insertFixup` move it up or end it.
- **Median.** The search by sizes comes to an end, since what is below the node
  it stands at gets less, and ends at a value with fewer than `k` numbers before it and at least `k` not
  behind it. There is one such value only, so it is what the sorted collection of
  `MedianStore` has at place `k`; that the counts of the numbers add up to the
  number of nodes is an induction on finite sets of numbers.
- **Third maximum.** Sizes are right off the way that the climb still has to go. The
  root is red only if it is `z`, so a red parent is not the root and the grandparent that the
  code looks at is there. On the right-hand side the uncle looked at is the parent, which is
  red: colours change and no rotation follows. Order and sizes rest on the
  rotations of the left-hand side and not on colours. The values are distinct, so the search
  finds the one with exactly two larger ones.
- **Functions on arrays and texts.** That a loop has a state after each of its turns is
  proved once (`TurnsExist`), by induction on the turns. `217.c`: where no
  difference overflows, `cmp` orders the numbers, and equal numbers end up side by
  side in the sorted array; an injection of a finite set into itself reaches every element, so
  nothing is lost on the way. `20.c`: taking out a pair in the middle does not change the stack
  the loop ends with, and a text that leaves the stack empty has such a pair, the first
  closing bracket and the one before it. `1143.c`: the size of a largest pairing of two beginnings
  satisfies the equation of the table, by what can be done with the last characters; a
  double induction along the table does the rest. `49.c`: the loops of `sortString` exchange characters and
  leave them ascending; two ascending texts with every character equally often are
  equal, so anagrams have one key and one bucket, and a bucket has a word as often as it came. The key of a word determines how often it
has each character (`KeyTells`), so if the keys in use hash apart, the words of a bucket are anagrams.

- **Counting functions.** One lemma (`SolutionExists`) says that a recursion that asks
  only for smaller arguments has a solution; loops and recursions of all three
  functions are defined by it. `1649.c`: place `p` of the Fenwick tree covers the
  `LowBit(p)` values up to `p`. The place that `update` goes to next is the next one that covers what this
  one does, and what `query` goes to next ends where this place begins; so an update
  adds to exactly the places that cover its value, and a query adds up disjoint places that
  cover all values up to its own. `315.c`: each count is the number of values to the left of
  its node, an insertion keeps that, and on its way adds up the
  nodes with smaller values. `327.c`: a loop stops where it divides the sorted right half at its
  bound, so `j - k` is the number of partners of the left sum; after
  each turn the cache has the left half so far and what is smaller of the right half, in
  order. Sorting a half permutes it, and a permutation of the halves maps
  the pairs across them one to one. Differences of prefix sums are
  the sums of ranges.

- **Tree functions.** What the empty tree has, and a node whenever its subtrees have it, every
  tree has (`TreeInduction`); `FoldExists` defines the recursions on trees by
  `SolutionExists`, and those on stretches of a list have its measure in their length. `94.c`:
  the stack stands for its nodes and their right subtrees, so what the loop will have
  returned is the result so far, then the values of the root's tree, then those (`VisitsExist`,
  `TraversalIs`). `98.c`: a subtree is within its bounds exactly if its values ascend and
  lie between them. `450.c`: a node with two children takes the
  smallest value of its right subtree, where `findMin` stops, and loses it there; the sequence of
  values loses exactly the key, and no tree gets higher. `1382.c` and `109.c`: the
  middle leaves `n \div 2` and `(n - 1) \div 2` values on its sides, the latter on opposite
  sides in the two programs; the fewest levels for `n` values are one more than for `n \div 2`
  (`LowestSteps`), so the tree is as low as can be and fits into `Levels` (`NodesFit`).

**Only model-checked:** liveness (`MainReturns`, `MCTerminates`, `MCReturns`), which
needs fairness and ENABLED.

## 5. Not modelled

- `Memory_Mapped_File.c` checks its system calls one by one and prints the offsets at
  which a keyword stands: no state is kept, nothing depends on an order, and the
  loop over the offsets is its own definition, so a model would compare it with itself.
- `535.c` puts a string at the next place of an array and reads it back: what could be
  stated is that an array holds what was put into it.
- Within modelled components: arrays of a fixed size that are indexed unchecked (`db_size`
  beyond `MAX_KEYS`, ids beyond `MAX_TX`, the 100 numbers of `94.c`) and the sum at
  `295.c:155` that may overflow, which no property is about and `PROJECT.json` does not list; a short read that
  leaves `wordcount.c` with uninitialised memory, and who owns the values a hash map hands
  out, which are listed there as hazards without a property, with the reason.
- Times, command lines and printed text.

## 6. What is left

Every safety property, action property and refinement that a run checks and that holds is
proved; liveness stays with the runs. `mvcc_reuse`, `wal_overlap`, `merge_lost` and `anagrams`
show where the code does otherwise than it says, and would turn into passing runs with the code.
