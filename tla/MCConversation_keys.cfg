SPECIFICATION Spec
CONSTANTS
  Session = {"s1"}
  First = "s1"
  Keep = 1
  MaxMade = 4
  Scenario <- MCOnlyTools
PROPERTIES
  OnlyRewindsShorten
