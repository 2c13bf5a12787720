SPECIFICATION FairSpec
CONSTANTS
  s1 = s1  f1 = f1  f2 = f2  c1 = c1  c2 = c2
  None = None
  NoState = NoState
  Servers = {s1}
  Flows = {f1, f2}
  Callbacks = {c1, c2}
  Owner <- OwnerOfFlows
  MaxDelete = 1
CHECK_DEADLOCK FALSE
INVARIANTS LastWordTrue RestartsAuthorized
 
