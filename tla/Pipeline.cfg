\* Two files or dynamic pseudo files of up to three blocks, with caches of two
\* buffers: a file can be longer than either cache, and one may change its
\* size while it is read.  No symmetry, because of the liveness property.
CONSTANTS
    d1 = d1  d2 = d2  f1 = f1  none = none
    Files = 2
    Kinds = {"file", "process"}
    MaxBlocks = 3
    MaxChanges = 1
    Deflators <- MCDeflators
    FragThreads <- MCFragThread
    reader_size = 2
    bwriter_size = 2
    OldZeroTails = FALSE
    None = none
SPECIFICATION FairSpec
INVARIANTS RightBuffer BuffersAccounted
PROPERTY Terminates
