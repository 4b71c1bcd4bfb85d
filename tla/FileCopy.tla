------------------------------ MODULE FileCopy ------------------------------
(***************************************************************************)
(* src/low_level_sys_call.c: copies a file in pieces of BUFFER_SIZE bytes  *)
(* and puts an X at position 6 of the copy.  A read or a write may fail or *)
(* move less than asked for; the two names may be of one file.  The bytes  *)
(* of the source are told apart by their positions.                        *)
(***************************************************************************)
EXTENDS Integers, SequencesExt

CONSTANTS BUFFER_SIZE,
          MaxSize        \* bound: the size of the source

VARIABLES pc,        \* "open", "read", "write", "overwrite" or "ended"
          source,    \* what can be read through src_fd
          same,      \* do both names mean one file?
          dest,      \* the file dest_fd writes to
          nread,     \* buffer is the nread bytes of the source that were read last
          at,        \* the position of src_fd
          status     \* of the process; -1 as long as it runs

vars == <<pc, source, same, dest, nread, at, status>>

Init ==
    /\ pc = "open"
    /\ source \in {[p \in 1 .. n |-> p] : n \in 0 .. MaxSize}
    /\ same \in BOOLEAN
    /\ dest = <<>>
    /\ nread = 0 /\ at = 0
    /\ status = -1

\* No byte of the source, as is the 0 that fills a hole.
X == -1

End(s) == pc' = "ended" /\ status' = s

\* A file that is its own copy is empty from here on.
Open ==
    /\ pc = "open"
    /\ source' = IF same THEN <<>> ELSE source
    /\ pc' = "read"
    /\ UNCHANGED <<same, dest, nread, at, status>>

\* The error returns of open, read and lseek.
CallFails ==
    /\ \/ pc \in {"open", "read"} /\ End(1)
       \/ pc = "overwrite" /\ End(255)
    /\ UNCHANGED <<source, same, dest, nread, at>>

Read ==
    /\ pc = "read" /\ at < Len(source)
    /\ nread' \in 1 .. BUFFER_SIZE
    /\ at + nread' <= Len(source)
    /\ at' = at + nread'
    /\ pc' = "write"
    /\ UNCHANGED <<source, same, dest, status>>

EndOfFile ==
    /\ pc = "read" /\ at = Len(source)
    /\ nread' = 0
    /\ pc' = "overwrite"
    /\ UNCHANGED <<source, same, dest, at, status>>

Written(nwrite) == dest' = dest \o SubSeq(source, at - nread + 1, at - nread + nwrite)

Write ==
    /\ pc = "write"
    /\ Written(nread)
    /\ pc' = "read"
    /\ UNCHANGED <<source, same, nread, at, status>>

\* A short write, and with nwrite = 0 one that fails.
\* Mutant: the loop goes on after it.
WriteFailsMutant ==
    /\ pc = "write"
    /\ \E nwrite \in 0 .. nread - 1 : Written(nwrite)
    /\ pc' = "read"
    /\ UNCHANGED <<source, same, nread, at, status>>
WriteFails ==
    /\ pc = "write"
    /\ \E nwrite \in 0 .. nread - 1 : Written(nwrite)
    /\ End(1)
    /\ UNCHANGED <<source, same, nread, at>>

\* lseek may go past the end: the bytes in between are zeroes.
Overwrite ==
    /\ pc = "overwrite"
    /\ dest' = [p \in 1 .. (IF Len(dest) > 7 THEN Len(dest) ELSE 7) |->
                   IF p = 7 THEN X ELSE IF p <= Len(dest) THEN dest[p] ELSE 0]
    /\ End(0)
    /\ UNCHANGED <<source, same, nread, at>>

\* The failure is reported, and main returns 0.
OverwriteFails ==
    /\ pc = "overwrite"
    /\ End(0)
    /\ UNCHANGED <<source, same, dest, nread, at>>

Main ==
    Open \/ CallFails \/ Read \/ EndOfFile \/ Write \/ WriteFails \/ Overwrite \/ OverwriteFails

Next == Main

Spec == Init /\ [][Next]_vars

-----------------------------------------------------------------------------
\* Whatever calls come back short, status 0 says that all of the source is in the
\* copy, but for position 6; and until the X is put there, and after any error, the
\* copy is a beginning of the source.  (A failed overwrite also ends with status 0,
\* so that the X may be missing.)
CopyFaithful ==
    /\ status = 0 => /\ Len(dest) >= Len(source)
                     /\ \A p \in 1 .. Len(source) : p = 7 \/ dest[p] = source[p]
    /\ IsPrefix(dest, source) \/ (status = 0 /\ dest[7] = X)

=============================================================================
