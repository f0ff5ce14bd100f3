SPECIFICATION FairSpec
CONSTANTS
  GoalId = {g1, g2}
  Repl <- MCRepl
  r1 = r1
  r2 = r2
  NoGoal = NoGoal
  NoBudget = NoBudget
  Budget = {1}
  Stamp = {0}
  MaxGoalTurns = 2
  MaxRounds = 2
  Spend = {1}
  Commands <- MCCommands
  Faults = TRUE
INVARIANTS
  TurnsBounded
  NeverOvercharged
PROPERTIES
  LoopEnds
  ReportsAreTrue
