\* Three processes, three blocks and two entries: all entries can be in use, a
\* block can be wanted by all, entries are reused, and each can be lost.  When
\* no more calls are made the system stops.  No symmetry, because of the
\* liveness property.
CONSTANTS
    p1 = p1  p2 = p2  p3 = p3  b1 = b1  b2 = b2  b3 = b3  none = none
    Processes <- MCProcesses
    Blocks <- MCBlocks
    Bad <- MCBad
    MaxLost = 1
    entries = 2
    Invalid = none
SPECIFICATION FairSpec
INVARIANTS CountsExact HolderSeesBlock NoLostWakeup
PROPERTY CallsReturn
CHECK_DEADLOCK FALSE
