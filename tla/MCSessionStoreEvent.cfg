SPECIFICATION EventSpec
CONSTANTS
  Chats = {k1}
  Clients = {c1, c2}
  Items = {i1, i2, i3}
  t1 = t1  t2 = t2
  None = None
  MaxCleanups = 1
  Tools = {t1, t2}
  Words = {"x"}
  MaxWords = 0
INVARIANT EventSetOnError
