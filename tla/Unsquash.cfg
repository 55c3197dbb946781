\* Four files that share blocks and fragments, one of them with more blocks
\* than there are entries, a directory in a directory and a hard link; two data
\* entries, one fragment entry and two open files, so that main waits for each
\* of them.  A block that cannot be read keeps its entry, so do the blocks of a
\* file after one that could not be written, and a file that cannot be opened
\* keeps its place, so main may come to wait for ever and the system to stop.
CONSTANTS
    da = da  db = db  dc = dc  fx = fx  fy = fy  hole = hole  none = none
    i1 = i1  i2 = i2  root = root  sub = sub
    List <- MCList
    Blocks <- MCBlocks
    FragBlocks <- MCFrags
    Hole = hole
    None = none
    Inflators <- MCInflators
    data_buffer_size = 2
    fragment_buffer_size = 1
    max_files = 2
    Faults <- MCFaults
SPECIFICATION FairSpec
INVARIANTS ReferencesHold NoLostWakeup FilesComplete OpenCountKept
PROPERTIES DirStable TerminatesWithoutErrors
CHECK_DEADLOCK FALSE
