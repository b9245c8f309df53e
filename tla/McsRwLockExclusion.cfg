\* Three threads, two iterations each, any offsets: two readers side by
\* side and a writer, each thread reusing its qnode.
CONSTANTS
    Threads = {t1, t2, t3}
    Iters = 2
    None = None
SPECIFICATION Spec
INVARIANT RWExclusion
