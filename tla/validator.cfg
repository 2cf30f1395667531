CONSTANTS
  t1 = t1
  t2 = t2
  n1 = n1
  n2 = n2
  Text = {t1, t2}
  Blank = {}
  Meta = {t2}
  Query = {t1, t2}
  Name = {n1, n2}
  Null = Null
  Answers <- MCAnswers
  Absent = Absent
  MaxEdits = 2
  Timeout = 3
  ReadyCap = 2
  RemoveTimeout = 1
  Task = task
  Worker = worker
  Schemas = schemas
  Earlier = 0
SPECIFICATION LiveSpec
CHECK_DEADLOCK FALSE
INVARIANTS
  TypeOK
  PassedIsEarned
  NoContainerLeft
  WithinBudget
  SqlOnFinalServer
PROPERTIES
  CallEnds
  StepsOfTheQueue
