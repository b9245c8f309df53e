\* Spill policy with WAIT_FOR_UNSHARED_TUPLE_FIFOS_TO_DRAIN: the writer
\* waits while the FIFO is unshared and spills once set_shared() is called;
\* every reader timeout mode.
CONSTANTS
    Capacity = 2
    Threshold = 2
    PageCap = 1
    MaxTuples = 14
    FlushToDiskOnFull = TRUE
    WaitForUnsharedToDrain = TRUE
    ReadModes = {"block", "timed", "poll"}
    NoIdx = 255
SPECIFICATION Spec
INVARIANT AvailableReadsSound
INVARIANT IndexOrder
INVARIANT BuffersAccounted
INVARIANT BuffersBounded
PROPERTY ValidTransitions
PROPERTY Termination
