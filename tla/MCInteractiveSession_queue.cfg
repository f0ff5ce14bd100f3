SPECIFICATION FairSpec
CONSTANTS
  m1 = m1
  m2 = m2
  m3 = m3
  Message = {m1, m2, m3}
  Remote = {r1}
  Empty = Empty
  MaxAutoRetries = 1
  Renderer = "Classic"
  Features = {"compacts", "disconnects"}
INVARIANTS
  InputKept
PROPERTIES
  QueuedRuns
