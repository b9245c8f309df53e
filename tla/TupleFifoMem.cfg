\* In-memory policy (FLUSH_TO_DISK_ON_FULL = false): the writer blocks on a
\* full list of three pages; every reader timeout mode; a threshold of two
\* pages, below the capacity.
CONSTANTS
    Capacity = 3
    Threshold = 2
    PageCap = 1
    MaxTuples = 8
    FlushToDiskOnFull = FALSE
    WaitForUnsharedToDrain = TRUE
    ReadModes = {"block", "timed", "poll"}
    NoIdx = 255
SPECIFICATION Spec
INVARIANT TypeOK
INVARIANT PendingPagesLocated
INVARIANT DeletedOnce
PROPERTY ReadsInOrder
PROPERTY PipeRefined
PROPERTY Termination
