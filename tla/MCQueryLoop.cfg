SPECIFICATION Spec
CONSTANTS
  Config <- All
  StallNudges = TRUE
  MaxTurns = 2
  StallRetries = 1
  ResumeLimit = 1
  NudgeLimit = 1
  KeepRecent = 2
  BudgetLimit = 3
  Stops = {"end_turn", "tool_use", "max_tokens", "stop_sequence", "content_filtered", "other"}
  Hooks = {"ok", "soft", "veto"}
  Events = {"cancel", "complete", "revoke", "stall", "break", "compact"}
INVARIANTS
  CallsAnswered
  DurableOnce
  ResultsAreTrue
  CompleteIsTheEnd
  RequestsBounded
PROPERTIES
  FinalIsFinal
