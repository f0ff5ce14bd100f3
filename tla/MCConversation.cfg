SPECIFICATION Spec
CONSTANTS
  Session = {"s1", "s2"}
  First = "s1"
  Keep = 1
  MaxMade = 5
  Scenario <- MCScenarios
INVARIANTS
  TakenBackIsGone
  IndexIsFinal
  AtRestOnDisk
  OldStaysOut
PROPERTIES
  SentIsKept
