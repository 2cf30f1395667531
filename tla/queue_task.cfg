CONSTANTS
  Task = {t1}
  Name = {ann, annAgain, bob}
  ann = ann
  annAgain = annAgain
  Fold <- MCFold
  Process = {p1, p2}
  Artifact = {candidate}
  Optional = {}
  Content = {c1, c2}
  Schema = {s1}
  Approval = {a1}
  Lineage = {}
  LineageUsed = 0
  LegacyHistory <- Upgraded
  BaseLimit = 2
  MaxExtra = 1
  MaxWorkers = 1
  None = None
SPECIFICATION Spec
SYMMETRY Symmetry
INVARIANTS
  TypeOK
  SpendBounded
  ExclusiveValidation
  EvidenceOfLatestAttempt
  ReviewStands
  FreshInputsReviewed
PROPERTIES
  SpentNeverRefunded
  GrantIsExact
  KeepsLedger
  ShowsQueueView
