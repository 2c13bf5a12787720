SPECIFICATION AllSpec
CONSTANTS
  r1 = r1  r2 = r2  r3 = r3  r4 = r4
  Reqs = {r1, r2, r3, r4}
  Overlap = FALSE
  MaxEarly = 1
  MaxCrash = 1
  MaxDelete = 0
  c1 = c1  c2 = c2
  k1 = k1  k2 = k2  k3 = k3
  Chats = {c1, c2}
  Keys = {k1, k2, k3}
  Letters = {"a", "b", "c", "d", "n"}
  Texts <- SomeTexts
  Titles <- SomeTitles
  Queries <- SomeQueries
  Malformed <- SomeMalformed
  InId <- SomeIds
  MaxLength = 4
  MaxPatch = 1
  MaxRemoval = 1
CHECK_DEADLOCK FALSE
INVARIANTS  SearchTrue
PROPERTIES BothConversations TurnsKept OverlapEnds
