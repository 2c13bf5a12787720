SPECIFICATION FairSpec
CONSTANTS
  c1 = c1  c2 = c2  l1 = l1  l2 = l2  bad = bad  t1 = t1
  None = None
  Blank = Blank
  Clients = {c1, c2}
  Llms = {l1, l2, bad}
  Loadable = {l1, l2}
  Tokens = {t1}
  MaxCrash = 2
CHECK_DEADLOCK FALSE
INVARIANTS ServesSaved LogoutForgets
PROPERTY PostsEnd
