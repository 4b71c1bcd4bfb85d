\* Three threads and every file of up to nine characters: chunks of no, one, two
\* and three characters, words that span several of them, and a remainder.  Three
\* workers, and three increments of each, so that one can fall between two of another.
CONSTANTS
    MAX_THREADS = 3
    FileSizes = {0, 1, 2, 3, 4, 5, 6, 7, 8, 9}
    Nobody = Nobody
    Turns = 3
    WorkerCount = 3
SPECIFICATION MCSpec
INVARIANTS
    ChunksCoverFile
    EveryWordOnce
    TotalsRight
PROPERTY MCTerminates
