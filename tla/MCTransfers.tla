---------------------------- MODULE MCTransfers ----------------------------
(* The programs that move files, for TLC: the merge through io_uring, the     *)
(* two benchmarks and the copy.  A behaviour is one of one program; the       *)
(* others stay as they begin.                                                 *)
EXTENDS FileMerge

CONSTANTS MaxBlocks, BUFFER_SIZE, MaxSize

ASSUME TransfersAssumption ==
    /\ MaxBlocks \in Nat
    /\ BUFFER_SIZE \in Nat \ {0}
    /\ MaxSize \in Nat

VARIABLES program,
          aPc, aOp, aI, aOffset, aState, aFile, aGot, aShorts,
          dPhase, dOpened, dI, dBlocks, dResults, dExited,
          cPc, cSource, cSame, cDest, cNread, cAt, cStatus

Async == INSTANCE AsyncIo
             WITH blocks <- MaxBlocks, pc <- aPc, op <- aOp, i <- aI, offset <- aOffset,
                  state <- aState, file <- aFile, got <- aGot, shorts <- aShorts
Direct == INSTANCE DirectIo
              WITH iters <- MaxBlocks, phase <- dPhase, opened <- dOpened, i <- dI,
                   blocks <- dBlocks, results <- dResults, exited <- dExited
Copy == INSTANCE FileCopy
            WITH pc <- cPc, source <- cSource, same <- cSame, dest <- cDest, nread <- cNread,
                 at <- cAt, status <- cStatus

aVars == <<aPc, aOp, aI, aOffset, aState, aFile, aGot, aShorts>>
dVars == <<dPhase, dOpened, dI, dBlocks, dResults, dExited>>
cVars == <<cPc, cSource, cSame, cDest, cNread, cAt, cStatus>>
allVars == <<program, vars, aVars, dVars, cVars>>

MCInit ==
    /\ program \in {"merge", "async", "direct", "copy"}
    /\ Init /\ Async!Init /\ Direct!Init /\ Copy!Init
    /\ program # "copy" => cSource = <<>> /\ ~cSame

MainStep ==
    /\ \/ program = "merge" /\ Main /\ UNCHANGED <<aVars, dVars, cVars>>
       \/ program = "async" /\ Async!Main /\ UNCHANGED <<vars, dVars, cVars>>
       \/ program = "direct" /\ Direct!Main /\ UNCHANGED <<vars, aVars, cVars>>
       \/ program = "copy" /\ Copy!Main /\ UNCHANGED <<vars, aVars, dVars>>
    /\ UNCHANGED program

KernelStep ==
    /\ \/ program = "merge" /\ Kernel /\ UNCHANGED <<aVars, dVars, cVars>>
       \/ program = "async" /\ Async!Kernel /\ UNCHANGED <<vars, dVars, cVars>>
    /\ UNCHANGED program

MCNext == MainStep \/ KernelStep

\* main runs, and the kernel completes what it has been given.
MCSpec == MCInit /\ [][MCNext]_allVars /\ WF_allVars(MainStep) /\ WF_allVars(KernelStep)

\* src/Asyn_IO.c, src/io-direct-vs-buffered.c, src/low_level_sys_call.c: see AsyncIo,
\* DirectIo and FileCopy.
BlocksMoved == Async!BlocksInPlace /\ Direct!ResultsAreWhole
CopyFaithful == Copy!CopyFaithful

\* Each main comes to a return, or to exit: none waits for a completion that will
\* not come, and no short transfer makes a loop go on for ever.
MCReturns ==
    <>(CASE program = "merge" -> pc \in {"done", "failed"}
         [] program = "async" -> aPc \in {"done", "failed"}
         [] program = "direct" -> dExited \/ dPhase = 5
         [] program = "copy" -> cPc = "ended")

=============================================================================
