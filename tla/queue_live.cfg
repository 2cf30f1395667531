CONSTANTS
  Task = {t1, t2}
  Name = {ann, bob}
  ann = ann
  annAgain = annAgain
  Fold <- MCFold
  Process = {p1, p2}
  Artifact = {}
  Optional = {}
  Content = {c1}
  Schema = {s1}
  Approval = {a1}
  Lineage = {}
  LineageUsed = 1
  LegacyHistory <- FreshOnly
  BaseLimit = 1
  MaxExtra = 1
  MaxWorkers = 1
  None = None
SPECIFICATION LiveSpec
PROPERTIES
  ValidatingEnds
