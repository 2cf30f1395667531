SPECIFICATION Spec
CONSTANTS
  W1 = W1
  W2 = W2
  Pending = Pending
  Unmapped = Unmapped
  PlanInputs <- MCPlanInputs
  WorkPlans <- MCWorkPlans
  Word <- MCWord
  Scale = "small"
INVARIANTS
  PlansWhatItKeeps
  NullsKeptApart
  BatchesRespectDependencies
  SeedKeepsKeys
CHECK_DEADLOCK FALSE
