----------------------------- MODULE FileMerge -----------------------------
(***************************************************************************)
(* src/largefilemerge.c: main reads MAX_FILES files through an io_uring    *)
(* and appends what it has read to merged_output.txt through the same      *)
(* ring, the writes in the order in which the reads complete.              *)
(*                                                                         *)
(* The kernel takes requests in any order.  What a buffer holds is told    *)
(* apart as far as it is file data or not; a read or write moves all of    *)
(* it.  Two appends are taken not to overlap, although the kernel promises *)
(* that to nobody who writes at the file's position.                       *)
(***************************************************************************)
EXTENDS Integers, SequencesExt

CONSTANTS MAX_FILES,
          Failures     \* may an open, a read or a write fail?

ASSUME FileMergeAssumption ==
    /\ MAX_FILES \in Nat \ {0}
    /\ Failures \in BOOLEAN

VARIABLES pc,         \* "open", "collect", "seen", "cleanup", "done", or "failed" for return 1
          i,          \* the variable of the loop main is in
          requests,   \* submitted and not completed, as [file, op]
          cq,         \* completed and not seen, as [file, op, res]
          buf,        \* buf[f]: "none", "blank", "data" or "freed"
          output,     \* merged_output.txt: the appends, as [file, what]
          collected   \* history: the completions main has seen

vars == <<pc, i, requests, cq, buf, output, collected>>

Files == 1 .. MAX_FILES
Request(f, op) == [file |-> f, op |-> op]
Completion(request, res) == [file |-> request.file, op |-> request.op, res |-> res]

Init ==
    /\ pc = "open"
    /\ i = 1
    /\ requests = <<>> /\ cq = <<>>
    /\ buf = [f \in Files |-> "none"]
    /\ output = <<>>
    /\ collected = <<>>

-----------------------------------------------------------------------------
\* main.
OpenInput ==
    /\ pc = "open" /\ i <= MAX_FILES
    /\ buf' = [buf EXCEPT ![i] = "blank"]
    /\ i' = i + 1
    /\ UNCHANGED <<pc, requests, cq, output, collected>>

OpenFails ==
    /\ Failures
    /\ pc = "open" /\ i <= MAX_FILES
    /\ pc' = "failed"
    /\ UNCHANGED <<i, requests, cq, buf, output, collected>>

Submit ==
    /\ pc = "open" /\ i > MAX_FILES
    /\ requests' = [f \in Files |-> Request(f, "read")]
    /\ pc' = "collect" /\ i' = 1
    /\ UNCHANGED <<cq, buf, output, collected>>

\* io_uring_wait_cqe to io_uring_submit: whatever has completed with a positive
\* result, also a write, is followed by a write from its buffer.  The completion
\* stays where it is meanwhile.
CallsForWrite(c) == c.res = "data"

Collect ==
    /\ pc = "collect" /\ i <= MAX_FILES
    /\ cq # <<>>
    /\ LET c == Head(cq)
       IN  /\ requests' = IF CallsForWrite(c) THEN Append(requests, Request(c.file, "write"))
                          ELSE requests
           /\ collected' = Append(collected, c)
    /\ pc' = "seen"
    /\ UNCHANGED <<i, cq, buf, output>>

\* io_uring_cqe_seen.  The write may have been served before it.
\* Mutant: the completion is not marked as seen.
SeenMutant ==
    /\ pc = "seen"
    /\ i' = i + 1
    /\ pc' = "collect"
    /\ UNCHANGED <<requests, cq, buf, output, collected>>
Seen ==
    /\ pc = "seen"
    /\ cq' = Tail(cq)
    /\ i' = i + 1
    /\ pc' = "collect"
    /\ UNCHANGED <<requests, buf, output, collected>>

\* Mutant: one completion more is waited for.
CollectedAllMutant == i > MAX_FILES + 1
CollectedAll == i > MAX_FILES
StartCleanup ==
    /\ pc = "collect" /\ CollectedAll
    /\ pc' = "cleanup" /\ i' = 1
    /\ UNCHANGED <<requests, cq, buf, output, collected>>

FreeBuffer ==
    /\ pc = "cleanup" /\ i <= MAX_FILES
    /\ buf' = [buf EXCEPT ![i] = "freed"]
    /\ i' = i + 1
    /\ UNCHANGED <<pc, requests, cq, output, collected>>

Exit ==
    /\ pc = "cleanup" /\ i > MAX_FILES
    /\ pc' = "done"
    /\ UNCHANGED <<i, requests, cq, buf, output, collected>>

Main == OpenInput \/ OpenFails \/ Submit \/ Collect \/ Seen \/ StartCleanup \/ FreeBuffer \/ Exit

-----------------------------------------------------------------------------
\* The kernel.
Complete(n, res) ==
    /\ cq' = Append(cq, Completion(requests[n], res))
    /\ requests' = RemoveAt(requests, n)

Read(n) ==
    /\ requests[n].op = "read"
    /\ \/ Complete(n, "data") /\ buf' = [buf EXCEPT ![requests[n].file] = "data"]
       \/ Complete(n, "empty") /\ UNCHANGED buf
    /\ UNCHANGED <<pc, i, output, collected>>

\* Memory that is freed may hold anything.
Contents(f) == IF buf[f] = "freed" THEN {"data", "junk"} ELSE {buf[f]}

Write(n) ==
    /\ requests[n].op = "write"
    /\ Complete(n, "data")
    /\ \E what \in Contents(requests[n].file) :
           output' = Append(output, [file |-> requests[n].file, what |-> what])
    /\ UNCHANGED <<pc, i, buf, collected>>

Fail(n) ==
    /\ Failures
    /\ Complete(n, "error")
    /\ UNCHANGED <<pc, i, buf, output, collected>>

\* io_uring_queue_exit and the end of the process may cancel what is under way.
Cancel(n) ==
    /\ pc = "done"
    /\ requests' = RemoveAt(requests, n)
    /\ UNCHANGED <<pc, i, cq, buf, output, collected>>

Kernel == \E n \in DOMAIN requests : Read(n) \/ Write(n) \/ Fail(n) \/ Cancel(n)

Next == Main \/ Kernel

Spec == Init /\ [][Next]_vars

-----------------------------------------------------------------------------
Ops == {"read", "write"}
Results == {"error", "empty", "data"}

TypeOK ==
    /\ pc \in {"open", "collect", "seen", "cleanup", "done", "failed"}
    /\ i \in 1 .. MAX_FILES + 1
    /\ requests \in Seq([file : Files, op : Ops])
    /\ cq \in Seq([file : Files, op : Ops, res : Results])
    /\ collected \in Seq([file : Files, op : Ops, res : Results])
    /\ buf \in [Files -> {"none", "blank", "data", "freed"}]
    /\ output \in Seq([file : Files, what : {"data", "junk"}])

\* A buffer is never in two operations at once, although main takes the completion
\* of a write for one of a read and writes the buffer again: what is submitted and
\* the completions that main has not taken yet are together at most one per file.
\* So there are never more than MAX_FILES of them, and io_uring_get_sqe finds a free
\* entry; nor does the completion queue overflow, which has twice as many entries
\* and holds the completion in main's hands besides.
Of(s, f) == {n \in DOMAIN s : s[n].file = f}
Untaken == IF pc = "seen" THEN Tail(cq) ELSE cq
OneOperationPerBuffer ==
    \A f \in Files : Cardinality(Of(requests, f)) + Cardinality(Of(Untaken, f)) <= 1

\* As long as main collects, only what has been read from a file is written, and
\* if main saw nothing but completed reads, a file is written at most once, even
\* by writes that finish after main.
OnlyReads == \A n \in DOMAIN collected : collected[n].op = "read"
WritesWhatWasRead ==
    /\ pc \in {"collect", "seen"} => \A n \in DOMAIN output : output[n].what = "data"
    /\ OnlyReads =>
           \A f \in Files :
               /\ Cardinality(Of(output, f)) <= 1
               /\ Of(output, f) # {} =>
                      \E n \in DOMAIN collected :
                          collected[n] = Completion(Request(f, "read"), "data")

\* "Merged into merged_output.txt in completion order." (line 85): when main has
\* collected its completions, all had data, and all writes have been made, every
\* file has been written, and once.  (The writes are not ordered either, so that
\* the order of the output is the kernel's.)
\* Refuted: a write that completes before the last read is taken for it; its file
\* is written again and the last one is left out.
AllHadData == \A n \in DOMAIN collected : collected[n].res = "data"
EveryFileMerged ==
    pc = "cleanup" /\ i = 1 /\ requests = <<>> /\ AllHadData =>
        \A f \in Files : Cardinality(Of(output, f)) = 1

=============================================================================
