SPECIFICATION Spec
CONSTANTS
  Meta = 8
  MaxCount = 2
  MaxDelta = 3
  LdirCount = 3
  BlockSize = 2
  Creates <- MCCreates
  Jobs <- MCJobs
  AllNames <- MCAllNames
  MaxAppends = 2
  MaxCrashes = 2
  Depth = 5
INVARIANT BecomesKeepsRoot
CHECK_DEADLOCK FALSE
