SPECIFICATION CallSpec
CONSTANTS
  Chats = {k1, k2}
  Clients = {c1, c2}
  Items = {i1, i2}
  t1 = t1  t2 = t2
  None = None
  MaxCleanups = 1
  Tools = {t1, t2}
  Words = {"x"}
  MaxWords = 2
INVARIANTS LiveUse MapSound OneLiveSession DoneAsReported
PROPERTIES ChatsIsolated Consent CallsEnd
