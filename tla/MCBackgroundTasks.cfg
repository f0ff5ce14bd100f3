SPECIFICATION FairTaskSpec
CONSTANTS
  Shell = {b1}
  Agent = {a1}
  Watched = {b1}
  Call = {c1, c2}
  MaxLines = 1
INVARIANTS
  FinishedIsGone
  NotifiedTruly
PROPERTIES
  TasksEnd
CHECK_DEADLOCK FALSE
