-------------------------------- MODULE Wal --------------------------------
(***************************************************************************)
(* src/Wal.c: a write-ahead log kept by a command-line program.  A process *)
(* of this model is one run of the program; write-nosync, write-sync and   *)
(* crash-after-wal append the three lines of one transaction to wal.log,   *)
(* recover reads wal.log and appends its SET lines to db.txt.  A line goes *)
(* out as two write calls, the text and the newline, so a run that stops   *)
(* between them leaves a text that the next line continues.                *)
(*                                                                         *)
(* A file is a sequence of tokens: a newline, or a text as far as recover  *)
(* tells texts apart, by the word at the front, the word BEGIN or COMMIT   *)
(* anywhere, and the transaction whose SET it is.  Lines are shorter than  *)
(* MAX_LINE and the log is shorter than one stdio buffer, so recover sees  *)
(* it as it is at one moment.  The display command changes nothing.        *)
(***************************************************************************)
EXTENDS Integers, Sequences, SequencesExt

CONSTANTS Procs,        \* the runs of the program; a writer is its transaction
          NoProc,
          Faults,       \* what may go wrong: "kill", "power", "short"
          Concurrent    \* may a run start while another one is under way?

ASSUME WalAssumption ==
    /\ NoProc \notin Procs
    /\ Faults \subseteq {"kill", "power", "short"}
    /\ Concurrent \in BOOLEAN

VARIABLES file,      \* file["wal"] and file["db"], as tokens
          synced,    \* how many tokens of each file are on disk for sure
          command,   \* command[p], the argument of the run
          todo,      \* todo[p]: the lines p has still to append
          stage,     \* stage[p]: where p is in append_file
          acked,     \* history: the transactions reported as "written to WAL",
                     \* in the order of the reports
          ackedAtLoss  \* history: how many of them before the last power loss

vars == <<file, synced, command, todo, stage, acked, ackedAtLoss>>
history == <<acked, ackedAtLoss>>

Files == {"wal", "db"}
\* crash-after-wal is write-sync followed by exit(1) instead of a return.
WriteCommands == {"write-nosync", "write-sync"}
Commands == WriteCommands \cup {"recover"}
Busy == {"text", "newline", "sync"}

-----------------------------------------------------------------------------
\* The texts.  A transaction id is written too, but it starts at 1 in every
\* run and recover does not look at it.
Text(front, word, p) == [front |-> front, word |-> word, set |-> p]
NewLine == Text("newline", "", NoProc)
Begin == Text("TRANSACTION", "BEGIN", NoProc)
Commit == Text("TRANSACTION", "COMMIT", NoProc)
Set(p) == Text("SET", "", p)

\* What a write that is cut short leaves of a text: with or without its front
\* word, never with all of it.
Pieces(text) == {Text(front, "", NoProc) : front \in {text.front, ""}}

AllPieces == UNION {Pieces(text) : text \in {Begin, Commit, Set(NoProc)}}

\* The lines that fgets finds, token by token; the last one may lack its newline.
NextToken(read, token) ==
    IF token = NewLine THEN [full |-> Append(read.full, read.rest), rest |-> <<>>]
    ELSE [read EXCEPT !.rest = Append(@, token)]
Reading(tokens) ==
    LET read[n \in 0 .. Len(tokens)] ==
            IF n = 0 THEN [full |-> <<>>, rest |-> <<>>] ELSE NextToken(read[n - 1], tokens[n])
    IN  read
Lines(tokens) ==
    LET read == Reading(tokens)[Len(tokens)]
    IN  IF read.rest = <<>> THEN read.full ELSE Append(read.full, read.rest)

StartsWith(line, word) == line # <<>> /\ line[1].front = word
Mentions(line, word) == \E n \in DOMAIN line : line[n].word = word

\* One turn of recover's loop: scan.in_tx as in the code, scan.out the lines
\* handed to append_file.
\* Mutant: the test for COMMIT comes first.
ScanMutant(scan, line) ==
    IF StartsWith(line, "TRANSACTION") /\ Mentions(line, "COMMIT")
    THEN [scan EXCEPT !.in_tx = FALSE]
    ELSE IF StartsWith(line, "TRANSACTION") /\ Mentions(line, "BEGIN")
    THEN [scan EXCEPT !.in_tx = TRUE]
    ELSE IF scan.in_tx /\ StartsWith(line, "SET")
    THEN [scan EXCEPT !.out = Append(@, line)]
    ELSE scan
Scan(scan, line) ==
    IF StartsWith(line, "TRANSACTION") /\ Mentions(line, "BEGIN")
    THEN [scan EXCEPT !.in_tx = TRUE]
    ELSE IF StartsWith(line, "TRANSACTION") /\ Mentions(line, "COMMIT")
    THEN [scan EXCEPT !.in_tx = FALSE]
    ELSE IF scan.in_tx /\ StartsWith(line, "SET")
    THEN [scan EXCEPT !.out = Append(@, line)]
    ELSE scan

\* recover's loop, line by line.
Scanning(lines) ==
    LET scan[n \in 0 .. Len(lines)] ==
            IF n = 0 THEN [in_tx |-> FALSE, out |-> <<>>] ELSE Scan(scan[n - 1], lines[n])
    IN  scan
Replay(tokens) == Scanning(Lines(tokens))[Len(Lines(tokens))].out

-----------------------------------------------------------------------------
Init ==
    /\ file = [f \in Files |-> <<>>]
    /\ synced = [f \in Files |-> 0]
    /\ command = [p \in Procs |-> "none"]
    /\ todo = [p \in Procs |-> <<>>]
    /\ stage = [p \in Procs |-> "idle"]
    /\ acked = <<>> /\ ackedAtLoss = 0

MayStart(p) ==
    /\ stage[p] = "idle"
    /\ Concurrent \/ \A q \in Procs : stage[q] \notin Busy

\* write_transaction up to its first append_file.
StartWrite(p, cmd) ==
    /\ MayStart(p)
    /\ command' = [command EXCEPT ![p] = cmd]
    /\ todo' = [todo EXCEPT ![p] = << <<Begin>>, <<Set(p)>>, <<Commit>> >>]
    /\ stage' = [stage EXCEPT ![p] = "text"]
    /\ UNCHANGED <<file, synced, history>>

\* recover reads the log and finds what to append; without a log it stops.
StartRecover(p) ==
    /\ MayStart(p)
    /\ file["wal"] # <<>>
    /\ command' = [command EXCEPT ![p] = "recover"]
    /\ todo' = [todo EXCEPT ![p] = Replay(file["wal"])]
    /\ stage' = [stage EXCEPT ![p] = IF Replay(file["wal"]) = <<>> THEN "done" ELSE "text"]
    /\ UNCHANGED <<file, synced, history>>

-----------------------------------------------------------------------------
\* append_file, one step per system call that changes the file.
Target(p) == IF command[p] = "recover" THEN "db" ELSE "wal"

\* recover passes 1 for sync.
\* Mutant: recover leaves db.txt unsynced.
SyncsMutant(p) == command[p] = "write-sync"
Syncs(p) == command[p] # "write-nosync"

WriteText(p) ==
    /\ stage[p] = "text"
    /\ file' = [file EXCEPT ![Target(p)] = @ \o Head(todo[p])]
    /\ stage' = [stage EXCEPT ![p] = "newline"]
    /\ UNCHANGED <<synced, command, todo, history>>

\* append_file returns: the next line, or the end of the run; a writer reports
\* its transaction after the last line.
\* Mutant: the run goes on after its last line.
AppendedEndless(p) ==
    /\ todo' = [todo EXCEPT ![p] = Tail(@)]
    /\ stage' = [stage EXCEPT ![p] = IF todo[p] = <<>> THEN "done" ELSE "text"]
    /\ UNCHANGED acked
Appended(p) ==
    /\ todo' = [todo EXCEPT ![p] = Tail(@)]
    /\ stage' = [stage EXCEPT ![p] = IF Len(todo[p]) = 1 THEN "done" ELSE "text"]
    /\ acked' = IF Len(todo[p]) = 1 /\ command[p] \in WriteCommands
                THEN Append(acked, p) ELSE acked

WriteNewline(p) ==
    /\ stage[p] = "newline"
    /\ file' = [file EXCEPT ![Target(p)] = Append(@, NewLine)]
    /\ IF Syncs(p)
       THEN /\ stage' = [stage EXCEPT ![p] = "sync"]
            /\ UNCHANGED <<todo, acked>>
       ELSE Appended(p)
    /\ UNCHANGED <<synced, command, ackedAtLoss>>

\* fsync flushes the whole file, whoever wrote it.
Sync(p) ==
    /\ stage[p] = "sync"
    /\ synced' = [synced EXCEPT ![Target(p)] = Len(file[Target(p)])]
    /\ Appended(p)
    /\ UNCHANGED <<file, command, ackedAtLoss>>

\* A beginning of tokens, at least up to from, that is not all of it: it may end
\* between two tokens or inside a text.
Beginnings(tokens, from) ==
    LET Kept(n) == SubSeq(tokens, 1, n)
    IN  {Kept(n) : n \in from .. Len(tokens) - 1}
            \cup UNION {{Append(Kept(n - 1), piece) : piece \in Pieces(tokens[n])} :
                            n \in {m \in from + 1 .. Len(tokens) : tokens[m] # NewLine}}

\* A full disk: write returns less than it was asked for and the run exits.
ShortWrite(p) ==
    /\ "short" \in Faults
    /\ \/ /\ stage[p] = "text"
          /\ \E begun \in Beginnings(Head(todo[p]), 0) :
                 file' = [file EXCEPT ![Target(p)] = @ \o begun]
       \/ /\ stage[p] = "newline"
          /\ UNCHANGED file
    /\ stage' = [stage EXCEPT ![p] = "stopped"]
    /\ UNCHANGED <<synced, command, todo, history>>

-----------------------------------------------------------------------------
Kill(p) ==
    /\ "kill" \in Faults
    /\ stage[p] \in Busy
    /\ stage' = [stage EXCEPT ![p] = "stopped"]
    /\ UNCHANGED <<file, synced, command, todo, history>>

\* What may be found of a file after a power loss: all that is synced, and a part
\* of the rest that may end inside a text.
Survivors(f) == {file[f]} \cup Beginnings(file[f], synced[f])

\* Every run dies.
PowerLoss ==
    /\ "power" \in Faults
    /\ \E p \in Procs : stage[p] # "idle"
    /\ stage' = [p \in Procs |-> IF stage[p] \in Busy THEN "stopped" ELSE stage[p]]
    /\ \E wal \in Survivors("wal"), db \in Survivors("db") :
           /\ file' = [f \in Files |-> IF f = "wal" THEN wal ELSE db]
           /\ synced' = [f \in Files |-> Len(file'[f])]
    /\ ackedAtLoss' = Len(acked)
    /\ UNCHANGED <<command, todo, acked>>

Next ==
    \/ \E p \in Procs :
           \/ \E cmd \in WriteCommands : StartWrite(p, cmd)
           \/ StartRecover(p)
           \/ WriteText(p) \/ WriteNewline(p) \/ Sync(p)
           \/ ShortWrite(p) \/ Kill(p)
    \/ PowerLoss

Spec == Init /\ [][Next]_vars

-----------------------------------------------------------------------------
Tokens == {NewLine, Begin, Commit} \cup {Set(p) : p \in Procs} \cup AllPieces

TypeOK ==
    /\ file \in [Files -> Seq(Tokens)]
    /\ \A f \in Files : synced[f] \in 0 .. Len(file[f])
    /\ command \in [Procs -> Commands \cup {"none"}]
    /\ \A p \in Procs : todo[p] \in Seq(Seq(Tokens \ {NewLine}) \ {<<>>})
    /\ stage \in [Procs -> Busy \cup {"idle", "done", "stopped"}]
    /\ \A p \in Procs : stage[p] \in Busy => todo[p] # <<>>
    /\ acked \in Seq(Procs)
    /\ ackedAtLoss \in 0 .. Len(acked)

\* The reports that a recovery has to honour: those of write-nosync promised nothing
\* against a power loss.
Promised == {n \in DOMAIN acked : n > ackedAtLoss \/ Syncs(acked[n])}

\* "Transaction %d written to WAL" (line 39), and with "(fsync)" also after a
\* power loss: a recovery applies every reported transaction, whole and in the
\* order of the reports, whatever unfinished lines killed runs have left before
\* it.  Holds for runs that do not overlap, as long as no write has been cut
\* short: a piece of a line hides the BEGIN that is appended to it.
NoPieces == \A n \in DOMAIN file["wal"] : file["wal"][n] \notin AllPieces
AckedReplayed ==
    NoPieces =>
        \E at \in [Promised -> DOMAIN Replay(file["wal"])] :
            /\ \A n \in Promised : Replay(file["wal"])[at[n]] = <<Set(acked[n])>>
            /\ \A n, m \in Promised : n < m => at[n] < at[m]

\* The same of runs that overlap, and only what is worst: as long as each line of
\* the log is one text, so that no run has written between the text and the newline
\* of another (line 18), a reported transaction is among those that a recovery
\* applies, in whatever order.
\* Refuted: in_tx is one flag for the log, and the COMMIT line of one run ends the
\* transaction of the other too, whose SET line is then passed over.
WholeLines == \A n \in DOMAIN Lines(file["wal"]) : Len(Lines(file["wal"])[n]) = 1
ReportedIsApplied ==
    WholeLines =>
        \A n \in Promised : \E m \in DOMAIN Replay(file["wal"]) : Replay(file["wal"])[m] = <<Set(acked[n])>>

\* "Recovery complete. DB updated." (line 65): when a recovery comes to its end,
\* db.txt ends with the lines that the log asks for, each on a line of its own.
\* Holds as long as no earlier recovery was stopped midway: otherwise the first
\* line may be glued to an unfinished one.
Recovered(p) == command[p] = "recover" /\ stage[p] = "done"
Broken(p) == command[p] = "recover" /\ stage[p] = "stopped"
DbUpdated ==
    [][\A p \in Procs : (~Recovered(p) /\ Recovered(p)' /\ ~\E q \in Procs : Broken(q))
            => IsSuffix(Replay(file'["wal"]), Lines(file'["db"]))]_vars

=============================================================================
