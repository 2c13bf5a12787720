SPECIFICATION AllSpec
CONSTANTS
  n1 = n1  n2 = n2  b1 = b1  b2 = b2  s1 = s1
  File = File
  NoBuffer = NoBuffer
  Names = {n1, n2}
  Buffers = {b1, b2}
  NameOf <- NameOfPair
  Streams = {s1}
  Untils = {"RUNNING"}
  Reports = {"RUNNING"}
  Size = 1
  MaxRetries = 2
  MaxLogs <- SecondSilent
  MaxEnters <- FirstTwice
  None = None
  c1 = c1  c2 = c2
  Calls = {c1, c2}
  MaxReqs = 2
  m1 = m1  m2 = m2  m3 = m3
  Configs = {m1, m2, m3}
  Ollama = {m3}
  MaxConfigs = 2
CHECK_DEADLOCK FALSE
INVARIANTS LogsReach AnswerKept VerifiedAsTold
PROPERTY AllEnd
