\* A file with a block that cannot be read, and another one.
CONSTANTS
    da = da  db = db  dc = dc  fx = fx  fy = fy  hole = hole  none = none
    i1 = i1  i2 = i2  root = root  sub = sub
    List <- MCBadList
    Blocks <- MCBlocks
    FragBlocks <- MCFrags
    Hole = hole
    None = none
    Inflators <- MCInflators
    data_buffer_size = 2
    fragment_buffer_size = 1
    max_files = 2
    Faults <- MCBadFaults
SPECIFICATION FairSpec
PROPERTY Terminates
CHECK_DEADLOCK FALSE
