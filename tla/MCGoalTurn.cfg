SPECIFICATION Spec
CONSTANTS
  GoalId = {g1, g2}
  Turn = {t1, t2}
  Agent = {a1, a2}
  NoTurn = NoTurn
  NoGoal = NoGoal
  NoBudget = NoBudget
  Budget = {1}
  Stamp = {0}
  MaxGoalTurns = 1
  MaxTokens = 1
  MaxTurnCount = 1
  StoreFaults = TRUE
SYMMETRY Symmetry
INVARIANTS
  OneFinalResponse
  ForegroundAnswers
PROPERTIES
  CompletedByItsTurn
  FenceHolds
  RevokedForCause
  ImplementsAuthority
CHECK_DEADLOCK FALSE
