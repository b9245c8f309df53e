\* Spill policy (FLUSH_TO_DISK_ON_FULL = true) on a shared FIFO: does the
\* reader see every tuple before EOF?
CONSTANTS
    Capacity = 1
    Threshold = 1
    PageCap = 1
    MaxTuples = 3
    FlushToDiskOnFull = TRUE
    WaitForUnsharedToDrain = TRUE
    ReadModes = {"block"}
    NoIdx = 255
SPECIFICATION Spec
INVARIANT NoLossAtEof
