\* Lists of four or five files that repeat each other in part, with caches of
\* two or three buffers; one file may fail to be read.  No symmetry, because of
\* the liveness property.
CONSTANTS
    da = da  db = db  dc = dc  dx = dx  d1 = d1  d2 = d2  def = def  act = act
    hole = hole  none = none
    Inputs <- MCInputs
    Size <- MCSize
    Hole = hole
    None = none
    Actions <- MCActions
    FragDeflators <- MCDeflators
    bwriter_size = 2
    fwriter_size = 3
    fragment_size = 2
    duplicate_checking = TRUE
    MaxErrors = 1
    MaxBytes = 12
SPECIFICATION FairSpec
INVARIANTS TypeOK NoOverlap ReadsTrue LockedQueueHasRoom ImageComplete
PROPERTY Terminates
