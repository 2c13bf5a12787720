SPECIFICATION ServersSpec
CONSTANTS
  p1 = p1  p2 = p2  c1 = c1  c2 = c2
  Procs = {p1, p2}
  Calls = {c1, c2}
  MaxEnters = 2
  MaxBreaks = 2
  NoProc = NoProc
CHECK_DEADLOCK FALSE
INVARIANTS OneSession NoOrphan PromptsRefreshed
PROPERTY ServersEnd
