SPECIFICATION AllSpec
CONSTANTS
  n1 = n1  n2 = n2  x1 = x1  x2 = x2  o0 = o0  o1 = o1
  v1 = v1  v2 = v2
  Names = {n1, n2}
  Versions = {v1, v2}
  Objs = {x1, x2}
  Ops = {o0, o1}
  InitOp = o0
  None = None
  Overlap = FALSE
  Lists = {l1, l2}  Tools = {t1}
  Reqs = {r1, r2}  Sorted <- DirsInOrder  Bodies = {2, 4}
  HeaderLength = 2  SuffixLength = 1  MAX_SKILL_CONTENT_LENGTH = 5
  Idle = Idle  Invalid = Invalid  Broken = Broken  Gone = Gone  Unknown = Unknown
  MaxChanges = 4  MaxWrites = 3
CHECK_DEADLOCK FALSE
INVARIANTS OneProcess Settled SkillsTrue
PROPERTIES OperationsEnd ListsTrue
