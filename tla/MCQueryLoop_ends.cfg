SPECIFICATION FairSpec
CONSTANTS
  Config <- All
  StallNudges = TRUE
  MaxTurns = 2
  StallRetries = 1
  ResumeLimit = 1
  NudgeLimit = 1
  KeepRecent = 2
  BudgetLimit = 3
  Stops = {"end_turn", "tool_use"}
  Hooks = {"ok"}
  Events = {"cancel", "complete", "stall", "break", "compact"}
PROPERTIES
  Terminates
  CancelEnds
