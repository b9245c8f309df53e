\* Rounds of one, two and three threads, two iterations each: the third
\* round has every MCS release meet a successor that has swapped but not
\* yet linked, and each round inherits the lock word the last one left.
\* The TATAS loop meets readers and writers in every order the offsets
\* allow.  main() returns after the last round, so the final state has no
\* successor.
CONSTANTS
    Threads = {1, 2, 3}
    Iters = 2
    None = None
SPECIFICATION Spec
CHECK_DEADLOCK FALSE
INVARIANT TypeOK
INVARIANT McsMutualExclusion
INVARIANT TatasRWExclusion
PROPERTY McsFifo
PROPERTY TestsFinish
