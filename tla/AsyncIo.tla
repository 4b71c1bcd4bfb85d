------------------------------ MODULE AsyncIo ------------------------------
(***************************************************************************)
(* src/Asyn_IO.c: main writes a file block by block, then reads it, with   *)
(* one control block cb that it fills in for every request.  The kernel    *)
(* looks at cb when it carries the request out, at any time after the call.*)
(* A request may fail, be refused, or move only a part of the block.       *)
(***************************************************************************)
EXTENDS FiniteSets, Integers

CONSTANTS blocks

Blocks == 0 .. blocks - 1

VARIABLES pc,        \* "submit", "spin", "done", or "failed" for return 1
          op,        \* the loop main is in: "write" or "read"
          i,         \* its variable, in blocks
          offset,    \* cb.aio_offset, in blocks
          state,     \* of cb: "idle", "progress", "whole", "part" or "error"
          file,      \* file[b]: "none", "part" (at least a byte) or "whole"; empty when
                     \* unlinked
          got,       \* got[b]: what a full read of block b has brought: "nothing" yet,
                     \* the "whole" block, or one with zeros behind a "holed" part
          shorts     \* history: the requests that moved only a part, as <<op, i>>

vars == <<pc, op, i, offset, state, file, got, shorts>>

Init ==
    /\ pc = "submit" /\ op = "write" /\ i = 0
    /\ offset = 0 /\ state = "idle"
    /\ file = [b \in Blocks |-> "none"]
    /\ got = [b \in Blocks |-> "nothing"]
    /\ shorts = {}

-----------------------------------------------------------------------------
\* main, with aio_write or aio_read.
Submit ==
    /\ pc = "submit" /\ i < blocks
    /\ offset' = i
    /\ state' = "progress"
    /\ pc' = "spin"
    /\ UNCHANGED <<op, i, file, got, shorts>>

SubmitFails ==
    /\ pc = "submit" /\ i < blocks
    /\ offset' = i
    /\ pc' = "failed"
    /\ UNCHANGED <<op, i, state, file, got, shorts>>

\* The spin on aio_error is over.
\* Mutant: it ends while the request is under way.
CompletedMutant == TRUE
Completed == state # "progress"

\* aio_return tells how much was moved, and main looks only for an error.
Collect ==
    /\ pc = "spin" /\ Completed
    /\ IF state = "error" THEN pc' = "failed" /\ UNCHANGED i ELSE pc' = "submit" /\ i' = i + 1
    /\ shorts' = IF state = "part" THEN shorts \cup {<<op, i>>} ELSE shorts
    /\ UNCHANGED <<op, offset, state, file, got>>

\* fsync, the first printf and the lseek, which aio_read does not look at.
StartReading ==
    /\ pc = "submit" /\ op = "write" /\ i = blocks
    /\ op' = "read" /\ i' = 0
    /\ UNCHANGED <<pc, offset, state, file, got, shorts>>

\* The second printf, and unlink.
Finish ==
    /\ pc = "submit" /\ op = "read" /\ i = blocks
    /\ pc' = "done"
    /\ file' = [b \in {} |-> "none"]
    /\ UNCHANGED <<op, i, offset, state, got, shorts>>

Main == Submit \/ SubmitFails \/ Collect \/ StartReading \/ Finish

-----------------------------------------------------------------------------
\* The kernel.
Write ==
    /\ state = "progress" /\ op = "write"
    /\ state' \in {"whole", "part"}
    /\ file' = [file EXCEPT ![offset] = state']
    /\ UNCHANGED <<pc, op, i, offset, got, shorts>>

\* A read can be full if the file goes on to the end of the block: a block of which
\* a part was written has a hole behind it once a later one is in the file, and a
\* hole reads as zeros.
InFile(b) == file[b] = "whole" \/ \E c \in Blocks : c > b /\ file[c] # "none"

Read ==
    /\ state = "progress" /\ op = "read"
    /\ \/ /\ InFile(offset)
          /\ state' = "whole"
          /\ got' = [got EXCEPT ![offset] = IF file[offset] = "whole" THEN "whole" ELSE "holed"]
       \/ state' = "part" /\ UNCHANGED got
    /\ UNCHANGED <<pc, op, i, offset, file, shorts>>

Fail ==
    /\ state = "progress"
    /\ state' = "error"
    /\ UNCHANGED <<pc, op, i, offset, file, got, shorts>>

Kernel == Write \/ Read \/ Fail

Next == Main \/ Kernel

Spec == Init /\ [][Next]_vars

-----------------------------------------------------------------------------
\* Although every request uses the same control block, each block is written at its
\* place and read from there: when the write speed is printed, each block is in the
\* file unless its own request came back short, and when the read speed is printed,
\* each one has been read unless its read came back short.  A block that was written
\* short has then been read with zeros in it, which the program does not notice; only
\* of the last one does a short read tell.
BlocksInPlace ==
    LET Short(o) == {b \in Blocks : <<o, b>> \in shorts}
    IN  /\ pc = "spin" => offset = i
        /\ pc # "done" =>
               \A b \in Blocks : op = "read" \/ b < i => file[b] = IF b \in Short("write") THEN "part" ELSE "whole"
        /\ pc = "done" =>
               /\ \A b \in Blocks : got[b] = IF b \in Short("read") THEN "nothing"
                                            ELSE IF b \in Short("write") THEN "holed" ELSE "whole"
               /\ blocks - 1 \in Short("write") => blocks - 1 \in Short("read")

=============================================================================
