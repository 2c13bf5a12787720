SPECIFICATION AllSpec
CONSTANTS
  n1 = n1  n2 = n2  x1 = x1  x2 = x2  o0 = o0  o1 = o1
  v1 = v1  v2 = v2
  Names = {n1}
  Versions = {v1}
  Objs = {x1, x2}
  Ops = {o0, o1}
  InitOp = o0
  None = None
  Overlap = TRUE
  Lists = {}  Tools = {}  Reqs = {}  Sorted <- DirsInOrder  Bodies = {}
  HeaderLength = 2  SuffixLength = 1  MAX_SKILL_CONTENT_LENGTH = 5
  Idle = Idle  Invalid = Invalid  Broken = Broken  Gone = Gone  Unknown = Unknown
  MaxChanges = 0  MaxWrites = 0
CHECK_DEADLOCK FALSE
INVARIANT NoReentry
