SPECIFICATION FairServerSpec
CONSTANTS
  s1 = s1
  p1 = p1
  p2 = p2
  g1 = g1
  Nobody = Nobody
  Session = {s1}
  Prompt = {p1, p2}
  Agent = {g1}
  SessionOf <- InOneSession
  MayAsk = {p1, g1}
  MaxAsks = 1
  MaxCancels = 1
INVARIANTS
  DeniedByClient
  TurnsKept
PROPERTIES
  NeverStalls
CHECK_DEADLOCK FALSE
