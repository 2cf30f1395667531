CONSTANTS
  foundation = foundation
  own = own
  theirs = theirs
  run = run
  t1 = t1
  t2 = t2
  t3 = t3
  Operator = {op}
  Queue = {theirs, run}
  Coordinated = {theirs}
  Task = {t1, t2, t3}
  Unit = {foundation, own}
  Foreign = {foundation}
  TasksOf <- MCTasksOf
  DependsOn <- MCDependsOn
  HeldTask = {}
  HeldUnit = {}
  Granted = {}
  MaxUsed = 1
  MaxLanes = 2
  Reserved = 1
  TheirLanes = 1
  Absent = Absent
SPECIFICATION RememberSpec
CHECK_DEADLOCK FALSE
PROPERTIES
  FreshReviewRequired
