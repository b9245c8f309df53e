\* Two threads, two iterations each, any offsets, the little-endian GCC
\* build: a fast-path writer and a queued one.
CONSTANTS
    Threads = {t1, t2}
    Iters = 2
    None = None
    Dummy = Dummy
    StakeHitsWriters = TRUE
SPECIFICATION Spec
INVARIANT RWExclusion
