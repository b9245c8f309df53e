\* Spill policy on a shared FIFO, long enough for the file to be
\* overwritten from slot 0 and appended to again.
CONSTANTS
    Capacity = 2
    Threshold = 1
    PageCap = 1
    MaxTuples = 15
    FlushToDiskOnFull = TRUE
    WaitForUnsharedToDrain = FALSE
    ReadModes = {"block"}
    NoIdx = 255
SPECIFICATION Spec
INVARIANT PendingPagesLocated
