SPECIFICATION CronSpec
CONSTANTS
  p1 = p1
  p2 = p2
  dOnce = dOnce
  dDaily = dDaily
  sOnce = sOnce
  Proc <- MCProc
  Task <- MCTask
  Durable <- MCDurable
  OneShot <- MCOneShot
  MaxTasks = 2
  MaxRuns = 2
SYMMETRY ProcSymmetry
INVARIANTS
  FiresOnce
  ReportsHold
