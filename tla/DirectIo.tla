------------------------------ MODULE DirectIo ------------------------------
(***************************************************************************)
(* src/io-direct-vs-buffered.c: one file is written twice, through the page*)
(* cache and past it, and then read twice.  A benchmark ends without its   *)
(* RESULT line after a short read or write, the program after an error.    *)
(***************************************************************************)
EXTENDS Integers, Sequences

CONSTANTS iters

VARIABLES phase,      \* 1 and 2: the writes, 3 and 4: the reads, 5: main has returned
          opened,     \* is the file descriptor of the phase open?
          i,          \* the loop variable of bench_write or bench_read
          blocks,     \* how many whole blocks the file has
          results,    \* the RESULT lines, as phases
          exited      \* has fatal ended the program?

vars == <<phase, opened, i, blocks, results, exited>>

Writes == {1, 2}

Init ==
    /\ phase = 1 /\ opened = FALSE /\ i = 0
    /\ blocks = 0
    /\ results = <<>>
    /\ exited = FALSE

Running == ~exited /\ phase < 5

\* O_TRUNC.
\* Mutant: the second open leaves the file as it is.
TruncatesMutant == phase = 1
Truncates == phase \in Writes

Open ==
    /\ Running /\ ~opened
    /\ opened' = TRUE /\ i' = 0
    /\ blocks' = IF Truncates THEN 0 ELSE blocks
    /\ UNCHANGED <<phase, results, exited>>

\* An open, a malloc, a read, a write or an fsync fails.
Fatal ==
    /\ Running
    /\ exited' = TRUE
    /\ UNCHANGED <<phase, opened, i, blocks, results>>

\* A turn of bench_write or of bench_read that moves a whole block.
WriteBlock ==
    /\ Running /\ opened /\ phase \in Writes /\ i < iters
    /\ blocks' = IF i < blocks THEN blocks ELSE i + 1
    /\ i' = i + 1
    /\ UNCHANGED <<phase, opened, results, exited>>

ReadBlock ==
    /\ Running /\ opened /\ phase \notin Writes /\ i < iters
    /\ i < blocks
    /\ i' = i + 1
    /\ UNCHANGED <<phase, opened, blocks, results, exited>>

Close == opened' = FALSE /\ phase' = phase + 1

\* "short write" or "short read" is printed instead of a result.
ShortTransfer ==
    /\ Running /\ opened /\ i < iters
    /\ Close
    /\ UNCHANGED <<i, blocks, results, exited>>

Report ==
    /\ Running /\ opened /\ i = iters
    /\ results' = Append(results, phase)
    /\ Close
    /\ UNCHANGED <<i, blocks, exited>>

Main == Open \/ Fatal \/ WriteBlock \/ ReadBlock \/ ShortTransfer \/ Report

Next == Main

Spec == Init /\ [][Next]_vars

-----------------------------------------------------------------------------
\* The two reads are about what the direct write has written: each of them has a
\* RESULT only if the direct write has one, never for blocks that the buffered
\* write left, and a short transfer spoils no result but those.
Reported(p) == \E n \in DOMAIN results : results[n] = p
ResultsAreWhole ==
    /\ Reported(3) \/ Reported(4) => Reported(2)
    /\ Reported(2) => blocks = iters
    /\ \A m, n \in DOMAIN results : m < n => results[m] < results[n]

=============================================================================
