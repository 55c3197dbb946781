\* Three buffers for three threads and three indexes, so that threads wait,
\* buffers are reused and found again; every kind of cache that mksquashfs
\* creates: the shrinking one (reader_buffer), the one that prefers its free
\* list (bwriter_buffer, fwriter_buffer of a new filesystem) and the one that
\* grows first (fragment_buffer, reserve_cache).  The callers here may all
\* wait for each other: each holds a buffer and wants another.
CONSTANTS
    t1 = t1  t2 = t2  t3 = t3  b1 = b1  b2 = b2  b3 = b3
    i1 = i1  i2 = i2  i3 = i3  none = none
    Threads <- MCThreads
    Buffers <- MCBuffers
    Indexes <- MCIndexes
    None = none
SYMMETRY Symmetry
SPECIFICATION Spec
INVARIANTS Accounting HolderKeepsBlock NoLostWakeup NoUseBeforeFilled
CHECK_DEADLOCK FALSE
