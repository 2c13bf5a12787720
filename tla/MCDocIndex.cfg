SPECIFICATION MCSpec
CONSTANTS
  m1 = m1 m2 = m2 m3 = m3 j1 = j1 j2 = j2 None = None
  Files = {1, 2}
  Jobs = {j1, j2}
  Models = {m1, m2, m3}
  Dims <- MCDims
  Default = m1
  ChunksOf <- MCChunks
  BatchSize = 2
  Overlap = FALSE
  MaxSwitches = 1
  MaxKills = 1
  Dirs = {1}
  With = {1, 2}
  Callers = {1, 2}
  TTL = 2
  MaxNow = 5
  MaxNodes = 3
CHECK_DEADLOCK FALSE
INVARIANTS HashTellsText SameSpace Refreshed  ProjectsTold
